# TLA+ models of the sispop daemon's checkpointing, hard-fork, difficulty and RPC code

This directory holds TLA+ specifications of the parts of `src/` that have state
or non-trivial arithmetic, the TLC configurations that check them, and
`PROJECT.json`. PROJECT.json lists the components, runs, mutants, the
definition-to-source map, findings and hazards.

## 1. The system and its parts

| Part | Source | What it does |
|---|---|---|
| Checkpoint ledger | `src/src/checkpoints/checkpoints.cpp` | `cryptonote::checkpoints`. Seeds the hardcoded mainnet checkpoints into the block store (`init`). Checks blocks against checkpoints (`check_block`). Culls non-persistent service-node checkpoints as the chain grows (`block_added`). Removes checkpoints on a reorganisation (`blockchain_detached`). Decides whether an alternative block may reorganise the chain (`is_alternative_block_allowed`, with an in-memory immutable-height cache). |
| Block store checkpoint table | not under `src/` (spec §6) | `BlockchainDB`: height-keyed checkpoint records, `get_immutable_checkpoint`, `get_top_checkpoint`, `get_checkpoints_range`, put and remove. |
| Blockchain driver | not under `src/` (spec §2, §4.2, §5); `POP_BLOCKS` in `core_rpc_server.cpp` | Calls the ledger per block, per alternative block, per quorum checkpoint and at start-up. |
| Hard-fork schedule | `src/src/cryptonote_basic/hardfork.cpp` | Per-network tables of (version, snode revision, height, time) and the scans that answer "which version at height h", "heights of version v", "ceil of v" and "ideal block version". |
| Difficulty | `src/src/cryptonote_basic/difficulty.cpp` | `check_hash`: a 256-bit hash times a 64-bit difficulty must fit in 256 bits, computed word by word with carries. `next_difficulty`: median-cut retarget. `next_difficulty_v2`: LWMA retarget. |
| RPC bootstrap daemon | `src/src/rpc/core_rpc_server.cpp` | When the node is behind, RPC requests are forwarded to a remote "bootstrap" daemon. The pointer to it is guarded by `m_bootstrap_daemon_mutex` and can be replaced at any time by `SET_BOOTSTRAP_DAEMON`. |
| RPC chain queries | `core_rpc_server.cpp` | GET_HEIGHT and GET_INFO report the height and the immutable height. GET_BLOCK_HEADERS_RANGE lists the headers of a height range. Each makes several `m_core` calls, and each call takes the blockchain lock on its own. Also: the header, block, quorum-range, checkpoint and state-change queries; GET_SERVICE_NODES and GET_SERVICE_NODE_STATUS; GET_PEER_LIST, GET_PUBLIC_NODES and `get_random_public_node`, which picks the node an "auto" bootstrap daemon talks to. |
| Other RPC handlers | `core_rpc_server.cpp` | Mostly serialisation of core state; see the plan. |
| Constants | `src/src/cryptonote_config.h`, `src/src/version.h` | Window sizes, intervals, version enums and version strings. `get_config(nettype, hard_fork_version)` keeps one `config_t` per network as a function-local static, rewrites its governance fields on every call and returns it by reference. |

How they interact:
- Every ledger mutation runs under the blockchain lock, inside a block's acceptance, a reorganisation or a pop. So the ledger operations compose sequentially within one step of the driver.
- The RPC layer reads the store for `immutable_height` (GET_HEIGHT, GET_INFO) and calls `pop_blocks` (POP_BLOCKS).
- RPC worker threads run concurrently with block processing. A handler holds no lock across its calls, so a pipeline step can fall between any two of them (spec §5 allows reads concurrent with chain mutation).
- The bootstrap machinery is independent of the chain state, except for the heights it compares.

## 2. Modules

| Module | Models | State / operations |
|---|---|---|
| `CheckpointDB` | block store checkpoint table (from spec §6) | A store is a function height ↦ [hash, type]. `ImmutableCheckpointHeight` follows the "hardcoded, or second-highest service-node" rule. |
| `Checkpoints` | `checkpoints.cpp` | A ledger value `[db, m_last_cull_height, m_immutable_height]`. Each member function is an operator from a ledger value to the ledger value it leaves, e.g. `BlockAdded`, `BlockchainDetached`, `IsAlternativeBlockAllowed` and `InitLedger`. The cull window (`CullEnd`, `CullStart`, `CullHeights`, `CullCursor`) and the detach loop (`DetachedHeights`) are separate operators named for the code's loops. |
| `Blockchain` | driver + POP_BLOCKS | VARIABLES `ledger`, `chain` (the fork id of each main-chain block), `nextFork`, `up` and `final`. `final` is a history variable: the blocks that were ever at or below the immutable height. There is one action per driver event: `AddBlock`, `QuorumCheckpoint`, `AltBlock` (the gate, then either switch and detach or keep as an alternative), `PopBlocks` and `Restart` (`checkpoints::init` on the same store). Under the constant `CullMayFail`, `block_added` gets any subset of its cull window (`CullWindow`) as the removals that throw (`CullFailures`). A block is identified by (height, fork), and a checkpoint's hash is a fork id. |
| `Finality` | the promise of the ledger (spec §3, §4.2) | VARIABLES `chain` and `immutable`. Its one step lets the chain change anywhere above the immutable height; the immutable height only rises and stays on both chains. `Blockchain` refines it: `AbstractFinality == INSTANCE Finality WITH immutable <- ledger.m_immutable_height`, and `FinalityRefined` is its `Spec` as a property. |
| `MCBlockchain` | TLC instance | Hardcoded checkpoint tables as definitions. |
| `RpcQueries` | `core_rpc_server.cpp` 414–540, 655–688, 1567–1608, 1801–1824, 1923–2072, 2753–2870, 3310–3361 | Extends `Blockchain` with one RPC thread. VARIABLES `rpc` (the handler's point and locals), `watched` (one immutable pair GET_HEIGHT returned, which a client keeps or swaps for a newer one) and the ghost `base` (where each fork branches off, so that a header's parent is known). Actions `GetHeightTop` and `GetHeightImmutable` are GET_HEIGHT's two reads. `HeadersRangeBegin` and `HeadersRangeStep` are GET_BLOCK_HEADERS_RANGE's check and one loop iteration. `NodeStep` is a pipeline step of `Blockchain`. The handlers that read the chain in one core call are operators on the state: `GetInfo`, `GetBlockCount`, `GetBlockHash`, `GetBlockHeaderByHeight`, `GetBlock`, `GetBlocksByHeight`, `GetLastBlockHeader`, `GetQuorumState` (with `QuorumBounds` and the `QuorumLoop` of heights it visits) and `GetCheckpoints` (over `CheckpointDB`'s `CheckpointsRange`). More operators: `GetBlockHeaderByHash`. `GetSnStateChanges`, which folds `CountTx` over the block contents given by the constant `BlockTxs`. `GetServiceNodes` (polling test, key filter, `active_only`, and the partial shuffle `SelectRandom` as the set of answers it can give) over the constant `ServiceNodeList`, and `GetServiceNodeStatus` on top of it. `GetPeerList`, `GetPublicNodes` and `GetRandomPublicNode` over a peer-lists argument. A block hash is `<<height, fork>>`. |
| `MCRpcQueries` | TLC instance | The genesis-only hardcoded table. Block contents that put every transaction kind on several heights and forks. Four service nodes, one inactive. Every pair of peer lists of up to two entries over two hosts, with and without an RPC port, public or not. |
| `HardFork` | `hardfork.cpp` | The real mainnet, testnet and devnet tables, `is_ordered` (checked by ASSUME, like the static_asserts), and each loop as a RECURSIVE operator over the index, break included. The state is one query (network, version, height); every step poses another one. Set-based reference definitions are built from the table's entries. |
| `Difficulty` | `difficulty.cpp` | The portable `mul`, `cadd`, `cadc`, `check_hash` and `check_hash_128`, with a word of `WordBits` bits. `next_difficulty` and `next_difficulty_v2` use exact integers and rationals, with the double 0.998 as 499/500. The query machine `Spec` poses hashes and windows, changing one component per step. `WindowSpec` restricts it to windows. |
| `MCDifficulty` | TLC instance | The timestamp step set, which contains negative numbers. |
| `MCQueries` | TLC instance, composition | Extends `MCDifficulty` and takes `HF == INSTANCE HardFork`. Its query machine `QueriesSpec` poses either a hard-fork schedule query (a record with a `net` field) or a difficulty hash or window, so one run checks the pure algorithms of both files. The hard-fork properties are guarded by `IsScheduleQuery`. |
| `BootstrapDaemon` | `core_rpc_server.cpp` 313–403, 1512–1528, 1826–1921 | VARIABLES `daemon` (the unique_ptr as an object id), `alive` (ids not yet deleted), `should_use`, `holder` (unique owner of the shared mutex), `readers` (its shared owners) and per-thread `pc`, `checked`, `ptr` and `req` (the handler). Actions `Begin`, `Lock`, `Fetch`, `HandleResultLoad`, `HandleResultCall`, `Forward` and `ServeLocally` are the steps of a request. `InfoLock` and `InfoAddress` are GET_INFO's second, shared lock to read the address. `CheckUnsupported` is GETBLOCKCOUNT and its kind refusing under the shared lock. `SetBootstrapDaemon` is the RPC, and `Tick` is 30 s passing. `FairSpec` adds weak fairness on each thread's own steps. |
| `MCBootstrapDaemon` | TLC instance | Symmetry over threads, for the safety-only violation run. |

The `map` of PROJECT.json gives the source lines of every definition that models code.
- Definitions of `CheckpointDB`, and the `Blockchain` driver actions other than `PopBlocks` and `ImmutableHeight`, are marked `spec_modelled`: their code is not in `src/`.
- Each module file opens with a comment on what it abstracts.

## 3. Runs

Scaled constants:
- Checkpoints: `CHECKPOINT_INTERVAL` I = 2 and `CHECKPOINT_STORE_PERSISTENTLY_INTERVAL` P = 6, instead of 4 and 60. P stays a multiple of I, and P/I = 3 keeps a culled grid height between two persistent ones.
- Difficulty: W = 4, CUT = 1, target 20 s, 2-bit words. The static_assert `2*CUT <= W-2` holds.

| Run | Module / cfg | Expect | What it shows |
|---|---|---|---|
| blockchain_core | MCBlockchain / MCBlockchain.cfg | pass | All driver events, including POP_BLOCKS and restarts, over heights 0..9, 3 forks and v12 from height 2. No service-node checkpoint stays above the chain top (`ServiceNodeCheckpointsWithinChain`). The immutable height only drops on a step that detaches blocks (`ImmutableOnlyDropsOnDetach`, an action property). Any of the cull loop's removals may throw (`CullMayFail`). The exception is swallowed, and both properties still hold. The state count is the same with and without the fault, because a late quorum checkpoint below the cursor already reaches every state it leaves. 614,900 states. |
| rpc_finality | MCRpcQueries / MCRpcQueriesFinality.cfg | pass | The acceptance pipeline (blocks, quorum checkpoints, alternative blocks) over heights 0..7, with an RPC thread interleaving GET_HEIGHT and GET_BLOCK_HEADERS_RANGE. A block once at or below the immutable height is never replaced (`FinalityPermanent`); the `std::max` on the cache is what makes this hold. An immutable block GET_HEIGHT reported is never replaced either (`ReportedImmutableHeld`), even when its top was stale by the second read. In every reachable state: GETBLOCKCOUNT, GETBLOCKHASH, the header and block queries and GET_INFO agree on every height, the top and one past it included (`HeightQueriesAgree`). GET_QUORUM_STATE visits exactly the requested heights of the chain, none twice, and at most MAX_COUNT for a non-admin (`QuorumStateVisitsRequested`). This pins down the two edges of its exclusive end. A request whose explicit end is 0 never visits height 0, because the end is not stepped below 0. A descending request from above the top is clamped to the chain height, so it visits that one height past the top. GET_CHECKPOINTS returns stored checkpoints in range, in order, none skipped (`CheckpointsAnswerRequest`). GET_SN_STATE_CHANGES counts each state change of the range once, for every start and end (`StateChangesCounted`). GET_SERVICE_NODES answers "unchanged" exactly to a poll of the top hash, and can otherwise give every ordered choice of `limit` distinct nodes and nothing else. GET_SERVICE_NODE_STATUS gives the node's own entry, its local defaults, or an error without a key (`ServiceNodesAnswer`). On every sampled pair of peer lists, the auto bootstrap node is a white peer advertising an RPC port, else such a gray peer, else none (`PublicNodeChoice`). The pipeline, with `m_immutable_height` as the immutable height, implements `Finality` (`FinalityRefined`). Without POP_BLOCKS, every block added on top clears the non-persistent checkpoints of the window between the cull cursor and the new end (`CullWindowCleared`): the `std::max` cache keeps every detach above the cursor's grid. 491,831 states, about a minute. |
| rpc_headers_race | MCRpcQueriesHeadersRace.cfg | violation | GET_BLOCK_HEADERS_RANGE(1, 2) reads height 1 on fork 0. The node then switches to fork 1 at height 1 and grows it, and the handler reads height 2 on fork 1. The response's second header is not a child of its first (`HeadersRangeFromOneChain`). |
| blockchain_finality_admin | MCBlockchain / MCBlockchainFinalityAdmin.cfg (heights 0..9) | violation | `FinalityPermanent` fails once restarts and POP_BLOCKS are added. The trace pops one block above immutable height 2. `blockchain_detached` removes the checkpoint at 4 that made 1–2 final, and an alternative block at 1 replaces them. A restart alone does the same, because `init` zeroes the cache. |
| blockchain_hardcoded_wipe | MCBlockchainHardcodedWipe.cfg | violation | A hardcoded checkpoint at 6 lies above the chain, as mainnet's 5000…99704 do during initial sync. An alternative block at 5 detaches it, and the chain grows past 6 with another block. |
| blockchain_quorum_overwrite | MCBlockchainQuorumOverwrite.cfg | violation | A quorum checkpoint with another hash overwrites a stored one (`CheckpointHashStable`). |
| pure_queries | MCQueries / MCQueries.cfg | pass | One run, three kinds of query. On all three real hard-fork tables, at 0 and either side of every activation height, and for versions 6..19, the code's scans equal the set-based definitions. The carry chain equals the wide check on every hash (4 words of 2 bits) and difficulty. On all windows of 1..5 samples (steps −30, 0, 20, 150 s; per-block difficulty 0..2; both `use_old_lwma`), the cut stays in the window, a steady chain keeps its difficulty, and the LWMA result is always defined and in range. 47,162 states. |
| blockchain_cull_cursor | MCBlockchain / MCBlockchainCullCursor.cfg | violation | Every block added on top culls the non-persistent checkpoints of the grid window between the cull cursor and the new end (`CullWindowCleared`). After POP_BLOCKS lowers the stored immutable checkpoint, an alternative block at the odd height 3 passes the gate and `blockchain_detached` sets the cursor to 3. The later culls visit 3, 5, …, so the checkpoint at 4 is never removed. |
| hardfork_heights | MCHardForkHeights.cfg | violation | `get_hard_fork_heights(18)` on testnet returns the revision-1 height as the start of version 18. |
| difficulty_lwma_window | MCDifficultyLwmaWindow.cfg | violation | With W+1 samples the LWMA result is that of the oldest N+1, not the newest. |
| bootstrap_locking | MCBootstrapDaemon / MCBootstrapDaemon.cfg | pass | With 2 threads, 3 daemon objects and addresses "", "auto" and a node: every call under the mutex reaches a live daemon, and so does GET_INFO's address read under the shared lock (`LockedCallsOnLiveDaemon`). No path that does not forward keeps the mutex (`MutexHeldOnlyToForward`). Under `FairSpec`, every thread that holds the mutex, uniquely or shared, eventually releases it (`MutexEventuallyReleased`). 271,285 states. |
| bootstrap_handle_result | MCBootstrapDaemonHandleResult.cfg | violation | `handle_result(false)` at line 1861 runs after the unlock; a concurrent SET_BOOTSTRAP_DAEMON has already deleted the object. |

Each property of a passing run has a mutant in PROJECT.json: a plausible bug in the mapped code that TLC finds. Examples are the cull loop bound `<=`, the detach loop condition `>`, the cache written without `std::max`, a dropped carry-in, an unhalved `cut_begin`, a missing null test, and a missing unlock.

### Findings

Each finding is a violation run; PROJECT.json "findings" has the details.
- The immutable height is not permanent across POP_BLOCKS or a restart (spec §4.2 says it is).
- `blockchain_detached` deletes hardcoded checkpoints (checkpoints.cpp:242).
- `update_checkpoint` overwrites a differing checkpoint (checkpoints.cpp:177).
- `get_hard_fork_heights` reports the last revision's height (hardfork.cpp:121).
- The LWMA uses the oldest window (difficulty.cpp:172, also noted by the TODO at line 170).
- `handle_result` is called on the bootstrap daemon after the mutex is released (core_rpc_server.cpp:1861).
- GET_BLOCK_HEADERS_RANGE can return headers of two forks in one response (core_rpc_server.cpp:1995).
- `blockchain_detached` sets the cull cursor to the detach height even when it is off the checkpoint grid, so a later cull skips a non-persistent checkpoint (checkpoints.cpp:234). It takes POP_BLOCKS first.

### Bounds

- The Blockchain bounds (heights 0..9, 3 forks) allow three full persistent intervals, culls below an immutable checkpoint, two successive reorganisations and a pop. They are the smallest that reach every branch of `block_added` and `blockchain_detached`.
- The RPC runs use heights 0..7 and ranges of at most 2 headers (`MaxRange` = 1). Two headers are enough to see a broken parent link. Heights 0..7 still hold two persistent-interval grid points above v12 and two successive reorganisations.
- The hard-fork queries cover every height at which a scan's answer can change.
- The difficulty windows reach the resize branch (5 samples > W = 4), the clamp (negative steps), the `7*T` cap (150 s), and zero difficulty.

### Refinement

`Finality` states what the checkpoint ledger promises: an immutable height that never falls and never changes a block at or below it. `rpc_finality` checks `FinalityRefined`, so every step of the pipeline, RPC steps included, is a `Finality` step or a stutter. The restarts and POP_BLOCKS that break `FinalityPermanent` in `blockchain_finality_admin` are outside `PipelineSpec`, so the refinement is claimed only without them. Its mutant evaluates the gate before the `std::max`. A mutant that only weakens the gate's `>=` is masked by `check_block`, which rejects a block that conflicts with a stored checkpoint.

### Fairness

`bootstrap_locking` uses `FairSpec`, which puts weak fairness on each thread's own steps (`ThreadSteps`). A worker thread that has begun a request keeps running it. The remote calls (`get_height`, `invoke`) return because the HTTP client has timeouts; their failures are the nondeterministic `success` branch. Nothing is fair for `Begin`, `CheckUnsupported`, `SetBootstrapDaemon` or `Tick`, because clients and the administrator may stop calling. SYMMETRY is not used in this run, because it is unsound with liveness.

Still open: whether bootstrapping resumes after `should_use` is cleared. It is listed as a hazard.

## 4. Not modelled, and why

- Serialisation, hex and JSON conversion, logging, and `load_checkpoints_from_json`: file and string I/O whose result the properties do not tell apart.
- The store's exceptions, except the one `block_added` swallows in its cull loop (`CullMayFail`). A failing removal in `blockchain_detached` is listed as a hazard without a run: it leaves a checkpoint above the top at once.
- Proof of work, transactions and the service-node quorum protocol: a block is (height, fork) and a quorum checkpoint is any grid height with a chosen hash.
- The RPC handlers other than the bootstrap path, the queries of `RpcQueries` and POP_BLOCKS: mining, bans, block templates, transactions and the pool, and the remaining service-node queries drive objects outside src/ (see the plan). The service-node list, block contents and peer lists are constants or sampled arguments, because their owners are not under src/. GET_QUORUM_STATE's quorums and GET_INFO's p2p, pool and version fields are left out of the responses.
- `version.h`: strings only.
- `get_config`. It rewrites its function-local statics on every call and returns them by reference. In a process that asks for one network type, as the daemon does, nothing of this can be seen, because both `GOVERNANCE_WALLET_ADDRESS` entries of every network are the same string. Its one observable effect needs a process that mixes network types, such as a test or a tool: after `get_config(FAKECHAIN)`, every `get_config(MAINNET)` returns a reward interval of 100, against spec §9's immutable configuration. This is listed as a hazard without a run, because no run slot is free.

## 5. Plan for later sittings

The map now covers the checkpoint, hard-fork and difficulty files almost entirely, and about a quarter of `core_rpc_server.cpp`. Further work goes into the RPC server, in this order:

1. **Ban list** (SETBANS, GETBANS, BANNED; ~2104–2212). A module `Bans` with ban and unban by host and subnet and expiry times. Property: a host reported banned was banned and has not expired.
2. **Mining control** (START_MINING, STOP_MINING, MINING_STATUS; ~1173–1275). The block-template long poll is commented out in the source and is not modelled.
3. **Header fill as a step**: split `fill_block_header_response` out of GET_BLOCK_HEADERS_RANGE's loop so the uint64 depth underflow after a shortening reorganisation (a hazard) is reached; GET_SN_STATE_CHANGES's range (its reported end height above a truncated block list); GET_INFO's bootstrap branch together with `BootstrapDaemon`.
4. **Bootstrap liveness**: add a "falling behind" event and state whether forwarding resumes. Mutex release is already checked under fairness.
5. **Cull cursor**: done. `CullWindowCleared` holds in `rpc_finality` and fails in `blockchain_cull_cursor`.
6. **Pings**: handle_ping's exchange of the last-ping time, read before the exchange, so the stored time can go backwards. All twelve run slots are in use again, since the hard-fork and difficulty runs were merged into `pure_queries` to make room for `blockchain_cull_cursor`.
7. **Store failures**: the cull loop's exception is modelled. The detach loop's exception needs a violation run of `ServiceNodeCheckpointsWithinChain`, and so a free run slot.
