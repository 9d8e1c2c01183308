----------------------------- MODULE RpcQueries -----------------------------
(***************************************************************************)
(* Read-only RPC handlers of src/src/rpc/core_rpc_server.cpp running on an *)
(* RPC worker thread while the node accepts blocks.  A handler makes one  *)
(* m_core call after another, and every call takes the blockchain lock on *)
(* its own: between two of them any pipeline step of Blockchain may run.  *)
(* Each action below is one such call.                                   *)
(*                                                                        *)
(* GET_HEIGHT (and GET_INFO, which computes its heights the same way)     *)
(* reads the top, then the immutable checkpoint as of that top.           *)
(* GET_BLOCK_HEADERS_RANGE validates the range against the chain height,  *)
(* then reads the blocks one height at a time.                            *)
(*                                                                        *)
(* The ghost `base` records where every fork branches off: fork f's       *)
(* first block is at height base[f].height, on top of the block of fork   *)
(* base[f].parent below it.  It lets a response say which block is the    *)
(* parent of which.                                                       *)
(***************************************************************************)
EXTENDS Blockchain

CONSTANTS
    MaxRange,                \* bound on end_height - start_height of a range request
    HEIGHT_SENTINEL_VALUE,   \* the "not given" height of a request (UINT64_MAX)
    QUORUM_STATE_MAX_COUNT,  \* COMMAND_RPC_GET_QUORUM_STATE_MAX_COUNT (256)
    CHECKPOINTS_MAX_COUNT,   \* COMMAND_RPC_GET_CHECKPOINTS_MAX_COUNT (256)
    BlockTxs(_, _),          \* the transactions of the block <<height, fork>>, by TxKinds
    ServiceNodeList,         \* get_service_node_list_state({}): [key, active] records
    PeerLists,               \* m_p2p peer lists: [white, gray] of [host, rpc_port, public]
    PeerListPublicOnly,      \* GET_PEER_LIST::request{}.public_only
    NoNode                   \* std::nullopt from get_random_public_node

VARIABLES
    rpc,       \* the request on the RPC thread: its point and its locals
    watched,   \* a <<immutable_height, immutable_hash>> GET_HEIGHT returned, or <<>>
    base       \* ghost: fork id -> [height, parent] of its first block

rpcVars == <<rpc, watched>>
allVars == <<vars, rpcVars, base>>

Idle == [pc |-> "idle", height |-> 0, start |-> 0, end |-> 0, h |-> 0, headers |-> << >>]

RpcInit ==
    /\ Init
    /\ rpc = Idle
    /\ watched = << >>
    /\ base = (0 :> [height |-> 0, parent |-> 0])

(***************************************************************************)
(* The node's steps, with the ghost following every switch to a new fork. *)
(***************************************************************************)
RecordFork ==
    base' = IF nextFork' = nextFork THEN base
            ELSE base @@ (nextFork :> [height |-> Len(chain') - 1,
                                       parent |-> chain'[Len(chain') - 1]])

NodeStep ==
    /\ PipelineNext
    /\ RecordFork
    /\ UNCHANGED rpcVars

(***************************************************************************)
(* GET_HEIGHT                                                             *)
(***************************************************************************)
\* Lines 414-424: m_core.get_blockchain_top, and ++res.height.
GetHeightTop ==
    /\ rpc.pc = "idle"
    /\ rpc' = [Idle EXCEPT !.pc = "gh_immutable", !.height = Top + 1]
    /\ UNCHANGED <<vars, watched, base>>

\* A client keeps the report it watches, or watches the new one: every
\* report is followed for as long as some behaviour keeps it.
Watch(c) ==
    watched' \in {watched} \cup
                  (IF c = NoHeight THEN {} ELSE {<<c, ledger.db[c].hash>>})

\* Seeded fault (mutation testing): the top checkpoint reported as immutable.
GetHeightImmutableTop ==
    /\ rpc.pc = "gh_immutable"
    /\ LET below == CheckpointsUpTo(ledger.db, rpc.height - 1)
           c == IF below = {} THEN NoHeight ELSE Max(below)
       IN  Watch(c)
    /\ rpc' = Idle
    /\ UNCHANGED <<vars, base>>

\* Lines 426-433: get_immutable_checkpoint(&checkpoint, res.height - 1); when
\* there is one, its height and hash are the response's immutable_height
\* and immutable_hash (otherwise immutable_height stays 0, the genesis).
GetHeightImmutable ==
    /\ rpc.pc = "gh_immutable"
    /\ LET c == ImmutableCheckpointHeight(ledger.db, rpc.height - 1)
       IN  Watch(c)
    /\ rpc' = Idle
    /\ UNCHANGED <<vars, base>>

(***************************************************************************)
(* GET_BLOCK_HEADERS_RANGE                                                *)
(***************************************************************************)
\* Lines 1991-1993: the range is checked against the chain height once; an
\* invalid one is an error response and changes nothing.
HeadersRangeBegin ==
    /\ rpc.pc = "idle"
    /\ \E start, end \in 0..Top :
          /\ start <= end /\ end - start <= MaxRange
          /\ rpc' = [Idle EXCEPT !.pc = "hr_loop", !.start = start, !.end = end,
                                 !.h = start]
    /\ UNCHANGED <<vars, watched, base>>

\* Lines 1994-2009, one iteration: get_block_id_by_height(h) gives the null
\* hash above the top, get_block_by_hash then fails and the handler throws
\* ERROR_INTERNAL; otherwise the block's header is appended (its coinbase
\* height is h).  After end the response is complete, and its headers stay
\* in `rpc` until the next request.
HeadersRangeStep ==
    /\ rpc.pc = "hr_loop"
    /\ rpc' = IF rpc.h > Top THEN Idle
              ELSE [rpc EXCEPT !.headers = Append(@, BlockAt(rpc.h)),
                               !.h = @ + 1,
                               !.pc = IF rpc.h = rpc.end THEN "idle" ELSE "hr_loop"]
    /\ UNCHANGED <<vars, watched, base>>

(***************************************************************************)
(* The single-read handlers, as operators on the state they read.  A     *)
(* block's hash is <<height, fork>>; hashes arrive already parsed.        *)
(***************************************************************************)
NullHash == << >>

\* m_core.get_block_id_by_height: crypto::null_hash above the top.
BlockIdByHeight(h) == IF h <= Top THEN <<h, BlockAt(h)>> ELSE NullHash

\* m_core.get_block_by_hash finds a block of the main chain (alternative
\* blocks are not kept by the model, so orphan_status is always false).
HaveBlock(hash) == hash # NullHash /\ hash[1] <= Top /\ BlockAt(hash[1]) = hash[2]

Failed(code) == [ok |-> FALSE, error |-> code]

\* fill_block_header_response: the fields the model tells apart; depth is
\* get_current_blockchain_height() - height - 1.
Header(hash) == [hash |-> hash, height |-> hash[1], depth |-> (Top + 1) - hash[1] - 1]

\* GETBLOCKCOUNT: get_current_blockchain_height().
GetBlockCount == Top + 1

\* Seeded fault (mutation testing): the height test written with <.
GetBlockHashStrict(h) ==
    IF GetBlockCount < h THEN Failed("TOO_BIG_HEIGHT")
    ELSE [ok |-> TRUE, hash |-> BlockIdByHeight(h)]

\* GETBLOCKHASH with one height (no bootstrap daemon in use).
GetBlockHash(h) ==
    IF GetBlockCount <= h THEN Failed("TOO_BIG_HEIGHT")
    ELSE [ok |-> TRUE, hash |-> BlockIdByHeight(h)]

\* GET_BLOCK_HEADER_BY_HEIGHT.
GetBlockHeaderByHeight(h) ==
    IF GetBlockCount <= h THEN Failed("TOO_BIG_HEIGHT")
    ELSE IF ~HaveBlock(BlockIdByHeight(h)) THEN Failed("INTERNAL")
    ELSE [ok |-> TRUE, header |-> Header(BlockIdByHeight(h))]

\* GET_BLOCK, by hash when one is given, else by height.
GetBlock(req) ==
    LET hash == IF req.hash # NullHash THEN req.hash ELSE BlockIdByHeight(req.height)
    IN  IF req.hash = NullHash /\ GetBlockCount <= req.height THEN Failed("TOO_BIG_HEIGHT")
        ELSE IF ~HaveBlock(hash) THEN Failed("INTERNAL")
        ELSE [ok |-> TRUE, header |-> Header(hash)]

\* GET_BLOCKS_BY_HEIGHT: get_block_from_height throws above the top; the
\* response then carries the blocks before it and an error status.
GetBlocksByHeight(hs) ==
    LET bad == {i \in DOMAIN hs : hs[i] > Top}
        n   == IF bad = {} THEN Len(hs) ELSE Min(bad) - 1
    IN  [ok |-> bad = {}, blocks |-> [i \in 1..n |-> BlockIdByHeight(hs[i])]]

\* GET_LAST_BLOCK_HEADER: the top, then the block by its hash.
GetLastBlockHeader ==
    IF ~HaveBlock(BlockIdByHeight(Top)) THEN Failed("INTERNAL")
    ELSE [ok |-> TRUE, header |-> Header(BlockIdByHeight(Top))]

\* Seeded fault (mutation testing): the top height reported as the height.
GetInfoTopHeight(admin) ==
    LET height == Top
        c == ImmutableCheckpointHeight(ledger.db, height - 1)
    IN  [height |-> height, top_block_hash |-> BlockIdByHeight(Top),
         immutable_height |-> IF c = NoHeight THEN 0 ELSE c,
         immutable_block_hash |-> IF c = NoHeight THEN NullHash
                                  ELSE <<c, ledger.db[c].hash>>,
         height_without_bootstrap |-> IF admin THEN height ELSE 0]

\* GET_INFO served locally (lines 460-530), the fields about the chain:
\* the top and ++res.height, the immutable checkpoint as of height - 1,
\* and height_without_bootstrap, which a restricted caller gets as 0.
GetInfo(admin) ==
    LET height == Top + 1
        c == ImmutableCheckpointHeight(ledger.db, height - 1)
    IN  [height |-> height, top_block_hash |-> BlockIdByHeight(Top),
         immutable_height |-> IF c = NoHeight THEN 0 ELSE c,
         immutable_block_hash |-> IF c = NoHeight THEN NullHash
                                  ELSE <<c, ledger.db[c].hash>>,
         height_without_bootstrap |-> IF admin THEN height ELSE 0]

\* Seeded fault (mutation testing): the loop looks up req.hash instead of
\* the list element.
GetBlockHeaderByHashReqHash(hash, hashes) ==
    LET Get(x) == IF HaveBlock(x) THEN Header(x) ELSE NullHash
        asked == (IF hash = NullHash THEN << >> ELSE <<hash>>) \o [i \in DOMAIN hashes |-> hash]
    IN  IF \E i \in DOMAIN asked : ~HaveBlock(asked[i]) THEN Failed("INTERNAL")
        ELSE [ok |-> TRUE, header |-> IF hash = NullHash THEN NullHash ELSE Get(hash),
              headers |-> [i \in DOMAIN hashes |-> Get(hash)]]

\* GET_BLOCK_HEADER_BY_HASH (lines 1944-1981): req.hash, when given, then
\* each of req.hashes, through get_block_by_hash; the first one not found
\* throws, failing the request.  The header's height is the coinbase
\* input's, the block's own height; the pow hash (filled only for an admin
\* who asks) is not told apart.
GetBlockHeaderByHash(hash, hashes) ==
    LET Get(x) == IF HaveBlock(x) THEN Header(x) ELSE NullHash
        asked == (IF hash = NullHash THEN << >> ELSE <<hash>>) \o hashes
    IN  IF \E i \in DOMAIN asked : ~HaveBlock(asked[i]) THEN Failed("INTERNAL")
        ELSE [ok |-> TRUE, header |-> IF hash = NullHash THEN NullHash ELSE Get(hash),
              headers |-> [i \in DOMAIN hashes |-> Get(hashes[i])]]

(***************************************************************************)
(* GET_QUORUM_STATE's height range and GET_CHECKPOINTS' branches.  The    *)
(* quorums themselves are service-node state outside the model: a        *)
(* response is the heights the loop visits.                              *)
(***************************************************************************)
\* The loop of lines 2806-2863: from start toward end, end excluded.
RECURSIVE QuorumLoop(_, _, _, _)
QuorumLoop(height, start, end, acc) ==
    IF height = end THEN acc
    ELSE QuorumLoop(IF end >= start THEN height + 1 ELSE height - 1, start, end,
                    Append(acc, height))

\* Lines 2764-2785: the sentinels, and the explicit end made exclusive.
QuorumBounds(start, end) ==
    LET S == HEIGHT_SENTINEL_VALUE
    IN  CASE start = S /\ end = S -> <<GetBlockCount - 1, GetBlockCount>>
          [] start = S            -> <<end, end + 1>>
          [] end = S              -> <<start, start + 1>>
          [] OTHER                -> <<start, IF end > start THEN end + 1
                                              ELSE IF end # 0 THEN end - 1 ELSE end>>

\* Seeded fault (mutation testing): the count taken from the request's heights.
GetQuorumStateCountFirst(start0, end0, admin) ==
    LET b     == QuorumBounds(start0, end0)
        start == Min({GetBlockCount, b[1]})
        end   == Min({GetBlockCount, b[2]})
        count == IF start0 > end0 THEN start0 - end0 ELSE end0 - start0
    IN  IF ~admin /\ count > QUORUM_STATE_MAX_COUNT THEN Failed("WRONG_PARAM")
        ELSE [ok |-> TRUE, heights |-> QuorumLoop(start, start, end, << >>)]

\* Lines 2787-2800: both ends clamped to the chain height; a non-admin
\* caller may ask for at most MAX_COUNT heights.
GetQuorumState(start0, end0, admin) ==
    LET b     == QuorumBounds(start0, end0)
        start == Min({GetBlockCount, b[1]})
        end   == Min({GetBlockCount, b[2]})
        count == IF start > end THEN start - end ELSE end - start
    IN  IF ~admin /\ count > QUORUM_STATE_MAX_COUNT THEN Failed("WRONG_PARAM")
        ELSE [ok |-> TRUE, heights |-> QuorumLoop(start, start, end, << >>)]

\* check_quantity_limit.
WithinQuantityLimit(count, max) == count <= max

\* Seeded fault (mutation testing): the open-ended branch's bounds swapped.
GetCheckpointsSwapped(start, end, count, admin) ==
    LET S == HEIGHT_SENTINEL_VALUE
        db == ledger.db
    IN  IF ~admin /\ ~WithinQuantityLimit(count, CHECKPOINTS_MAX_COUNT) THEN Failed("WRONG_PARAM")
        ELSE [ok |-> TRUE, heights |->
                CASE start = S /\ end = S ->
                        IF DOMAIN db = {} THEN << >>
                        ELSE CheckpointsRange(db, TopCheckpointHeight(db), 0, count)
                  [] start = S -> CheckpointsRange(db, end, 0, count)
                  [] end = S   -> CheckpointsRange(db, S, start, count)
                  [] OTHER     -> CheckpointsRange(db, start, end, 0)]

\* GET_CHECKPOINTS: the count is checked for non-admin callers; the
\* branch with both heights passes no count (get_checkpoints_range's
\* default, taken to be GET_ALL_CHECKPOINTS).
GetCheckpoints(start, end, count, admin) ==
    LET S == HEIGHT_SENTINEL_VALUE
        db == ledger.db
    IN  IF ~admin /\ ~WithinQuantityLimit(count, CHECKPOINTS_MAX_COUNT) THEN Failed("WRONG_PARAM")
        ELSE [ok |-> TRUE, heights |->
                CASE start = S /\ end = S ->
                        IF DOMAIN db = {} THEN << >>
                        ELSE CheckpointsRange(db, TopCheckpointHeight(db), 0, count)
                  [] start = S -> CheckpointsRange(db, end, 0, count)
                  [] end = S   -> CheckpointsRange(db, start, S, count)
                  [] OTHER     -> CheckpointsRange(db, start, end, 0)]

(***************************************************************************)
(* GET_SN_STATE_CHANGES (lines 3363-3452).  A transaction is what the     *)
(* handler's loop makes of it: a state change of one of the four states,  *)
(* one of an unhandled state or with an undecodable extra, a key image    *)
(* unlock, one that does not parse, or any other.  The handler's two      *)
(* reads (the height, then get_blocks) are taken as one.                  *)
(***************************************************************************)
StateChangeKinds == {"deregister", "decommission", "recommission", "ip_change_penalty"}
TxKinds == StateChangeKinds \cup {"unknown_state", "bad_extra", "key_image_unlock", "corrupt", "standard"}
TotalNames == StateChangeKinds \cup {"unlock"}
NoTotals == [k \in TotalNames |-> 0]

\* Seeded fault (mutation testing): no break after the decommission case.
CountTxFallThrough(totals, kind) ==
    CASE kind = "decommission" -> [totals EXCEPT !["decommission"] = @ + 1, !["recommission"] = @ + 1]
      [] kind \in StateChangeKinds -> [totals EXCEPT ![kind] = @ + 1]
      [] kind = "key_image_unlock" -> [totals EXCEPT !["unlock"] = @ + 1]
      [] OTHER -> totals

\* The body of the inner loop: the switch on the new state and the unlock
\* test; a blob that fails to parse, an extra that fails to decode and an
\* unhandled state are logged and skipped.
CountTx(totals, kind) ==
    CASE kind \in StateChangeKinds -> [totals EXCEPT ![kind] = @ + 1]
      [] kind = "key_image_unlock" -> [totals EXCEPT !["unlock"] = @ + 1]
      [] OTHER -> totals

\* The outer loop's body for one block: its transactions in order.  The
\* block store is taken not to fail, so get_transactions_blobs' failure
\* branch (log and continue to the next block) is not reached.
CountBlock(totals, hash) == FoldLeft(CountTx, totals, BlockTxs(hash[1], hash[2]))

\* db.get_blocks(start, count): false when start is above the top, else the
\* main-chain blocks from start, as many of the count as the chain has.
GetBlocks(start, count) ==
    IF start > Top THEN Failed("INTERNAL")
    ELSE [ok |-> TRUE, blocks |-> [i \in 1..Min({count, Top + 1 - start}) |-> BlockIdByHeight(start + i - 1)]]

\* The sentinel end is the top; a reversed range throws WRONG_PARAM and a
\* failed get_blocks INTERNAL; the response reports the end it computed.
GetSnStateChanges(start, end_height) ==
    LET end == IF end_height = HEIGHT_SENTINEL_VALUE THEN GetBlockCount - 1 ELSE end_height
        got == GetBlocks(start, end - start + 1)
    IN  IF end < start THEN Failed("WRONG_PARAM")
        ELSE IF ~got.ok THEN got
        ELSE [ok |-> TRUE, start_height |-> start, end_height |-> end,
              totals |-> FoldLeft(CountBlock, NoTotals, got.blocks)]

(***************************************************************************)
(* GET_SERVICE_NODES (lines 3075-3154): the polling test against the top *)
(* block's hash, the requested keys (already parsed, "" for one that does *)
(* not parse), the active_only filter and the random selection of `limit` *)
(* of them.  The random draws are nondeterministic, so the handler is the *)
(* set of responses it can give.  The entries' fields                     *)
(* (fill_sn_response_entry) are the nodes themselves.                     *)
(***************************************************************************)
SwapAt(s, a, b) == [s EXCEPT ![a] = s[b], ![b] = s[a]]

RECURSIVE SelectRandom(_, _, _)

\* Seeded fault (mutation testing): the partner drawn from i + 1 onwards.
SelectRandomAfter(s, i, limit) ==
    IF i >= limit THEN {SubSeq(s, 1, limit)}
    ELSE UNION {SelectRandom(SwapAt(s, i + 1, j), i + 1, limit) : j \in (i + 2)..Len(s)}

\* Lines 3126-3134 from iteration i on: swap element i with one drawn
\* uniformly from i..size-1, then resize to limit (0-based i is position
\* i + 1 here).
SelectRandom(s, i, limit) ==
    IF i >= limit THEN {SubSeq(s, 1, limit)}
    ELSE UNION {SelectRandom(SwapAt(s, i + 1, j), i + 1, limit) : j \in (i + 1)..Len(s)}

\* m_core.get_service_node_list_state(pubkeys) (service_node_list, not
\* under src/): every node when none is asked for, else the registered
\* ones among those asked for, in the order asked.
Registered(k) == \E i \in DOMAIN ServiceNodeList : ServiceNodeList[i].key = k
EntryOf(k) == CHOOSE e \in Range(ServiceNodeList) : e.key = k
ListState(pubkeys) ==
    IF pubkeys = << >> THEN ServiceNodeList
    ELSE LET reg == SelectSeq(pubkeys, Registered)
         IN  [i \in DOMAIN reg |-> EntryOf(reg[i])]

GetServiceNodes(poll_block_hash, pubkeys, active_only, limit) ==
    LET height == GetBlockCount - 1
        all    == ListState(pubkeys)
        infos  == IF active_only THEN SelectSeq(all, LAMBDA e : e.active) ELSE all
        picks  == IF limit = 0 THEN {infos}
                  ELSE SelectRandom(infos, 0, Min({Len(infos), limit}))
    IN  IF poll_block_hash # NullHash /\ poll_block_hash = BlockIdByHeight(height)
        THEN {[ok |-> TRUE, unchanged |-> TRUE, height |-> height, states |-> << >>]}
        ELSE IF \E i \in DOMAIN pubkeys : pubkeys[i] = "" THEN {Failed("WRONG_PARAM")}
        ELSE {[ok |-> TRUE, unchanged |-> FALSE, height |-> height, states |-> st] : st \in picks}

\* The local defaults GET_SERVICE_NODE_STATUS reports for a node that has
\* service keys but no entry on the chain.
LocalState(pub) == [key |-> pub, local |-> TRUE]

\* Seeded fault (mutation testing): the node's own key not put in the
\* request, so the first node of the whole list is reported.
GetServiceNodeStatusAnyNode(pub) ==
    { IF ~x.ok THEN x
      ELSE [ok |-> TRUE, height |-> x.height,
            state |-> IF x.states = << >> THEN LocalState(pub) ELSE x.states[1]]
      : x \in GetServiceNodes(NullHash, << >>, FALSE, 0) }

\* GET_SERVICE_NODE_STATUS (lines 2311-2350): GET_SERVICE_KEYS (lines
\* 2958-2971) gives the node's public key, "" when it has none; then
\* GET_SERVICE_NODES for that key alone.
GetServiceNodeStatus(pub) ==
    { IF ~x.ok THEN x
      ELSE [ok |-> TRUE, height |-> x.height,
            state |-> IF x.states = << >> THEN LocalState(pub) ELSE x.states[1]]
      : x \in GetServiceNodes(NullHash, <<pub>>, FALSE, 0) }

\* GET_PEER_LIST (lines 1291-1331) on the peer lists `peers`: the white
\* and the gray list, or their public part (m_p2p.get_public_peerlist, not
\* under src/, keeps the peers whose address is public).  Every address
\* type is turned into its host and port; the host is the peer's.
GetPeerList(peers, public_only) ==
    LET keep(e) == ~public_only \/ e.public
        conv(s) == LET k == SelectSeq(s, keep)
                   IN  [i \in DOMAIN k |-> [host |-> k[i].host, rpc_port |-> k[i].rpc_port]]
    IN  [white_list |-> conv(peers.white), gray_list |-> conv(peers.gray)]

\* Seeded fault (mutation testing): the rpc_port test of collect dropped.
CollectAll(peer_list) == peer_list

\* The collect lambda of GET_PUBLIC_NODES: the peers that advertise an
\* RPC port.
Collect(peer_list) == SelectSeq(peer_list, LAMBDA e : e.rpc_port # 0)

\* GET_PUBLIC_NODES (lines 1334-1362): GET_PEER_LIST with its default
\* request, then the requested lists collected.
GetPublicNodes(peers, white, gray) ==
    LET res == GetPeerList(peers, PeerListPublicOnly)
    IN  [white |-> IF white THEN Collect(res.white_list) ELSE << >>,
         gray  |-> IF gray THEN Collect(res.gray_list) ELSE << >>]

\* get_random_public_node (lines 333-371), the address source of an "auto"
\* bootstrap daemon: a random white public node, else a random gray one,
\* else nullopt.  host + ":" + rpc_port is the pair of the two.
GetRandomPublicNode(peers) ==
    LET r == GetPublicNodes(peers, TRUE, TRUE)
        pick(l) == {<<l[i].host, l[i].rpc_port>> : i \in DOMAIN l}
    IN  IF r.white # << >> THEN pick(r.white)
        ELSE IF r.gray # << >> THEN pick(r.gray)
        ELSE {NoNode}

RpcStep ==
    \/ GetHeightTop
    \/ GetHeightImmutable
    \/ HeadersRangeBegin
    \/ HeadersRangeStep

RpcNext == NodeStep \/ RpcStep

RpcSpec == RpcInit /\ [][RpcNext]_allVars

(***************************************************************************)
(* Properties                                                             *)
(***************************************************************************)
\* The request inputs: heights in and above the chain, and the sentinel.
RequestHeights == 0..(MaxHeight + 1) \cup {HEIGHT_SENTINEL_VALUE}

\* The single-read handlers read only `chain` and `ledger`.  Every pair of
\* them the pipeline reaches is reached with the RPC thread idle and
\* nothing watched, so the properties about them are checked there.
RpcQuiet == rpc = Idle /\ watched = << >>

\* GETBLOCKCOUNT, GETBLOCKHASH, GET_BLOCK_HEADER_BY_HEIGHT, GET_BLOCK and
\* GET_BLOCKS_BY_HEIGHT agree on every height: each answers with the same
\* main-chain block, or each refuses it, at the top and one past it
\* included; GET_LAST_BLOCK_HEADER is the header at count - 1, depth 0;
\* GET_INFO's height and top hash agree with them, its immutable hash names
\* a main-chain block, and an admin sees height_without_bootstrap; and
\* GET_BLOCK by hash finds exactly the blocks the heights name.
HeightQueriesAgree ==
    RpcQuiet =>
    /\ \A h \in 0..(MaxHeight + 1) :
          LET a == GetBlockHash(h)
              b == GetBlockHeaderByHeight(h)
              c == GetBlock([hash |-> NullHash, height |-> h])
              d == GetBlocksByHeight(<<h>>)
          IN  /\ a.ok = b.ok /\ b.ok = c.ok /\ c.ok = d.ok
              /\ a.ok => /\ b.header.hash = a.hash /\ c.header = b.header
                         /\ d.blocks = <<a.hash>>
    /\ GetLastBlockHeader.ok
    /\ GetLastBlockHeader.header = GetBlockHeaderByHeight(GetBlockCount - 1).header
    /\ GetLastBlockHeader.header.depth = 0
    /\ \A admin \in BOOLEAN :
          LET i == GetInfo(admin)
          IN  /\ i.height = GetBlockCount
              /\ i.top_block_hash = GetLastBlockHeader.header.hash
              /\ i.immutable_block_hash # NullHash => HaveBlock(i.immutable_block_hash)
              /\ admin => i.height_without_bootstrap = i.height
    /\ \A h \in Heights, f \in Forks :
          /\ GetBlock([hash |-> <<h, f>>, height |-> 0]).ok <=>
                (GetBlockHash(h).ok /\ GetBlockHash(h).hash = <<h, f>>)
          /\ GetBlockHeaderByHash(<<h, f>>, << >>).ok = GetBlock([hash |-> <<h, f>>, height |-> 0]).ok
    /\ \A h1, h2 \in 0..Top :
          LET r == GetBlockHeaderByHash(NullHash, <<BlockIdByHeight(h1), BlockIdByHeight(h2)>>)
          IN  r.ok /\ r.headers = <<GetBlockHeaderByHeight(h1).header, GetBlockHeaderByHeight(h2).header>>

\* GET_QUORUM_STATE visits, of the chain's heights, exactly those the
\* request names (a sentinel end names one height, both sentinels the top),
\* except height 0 when the request's explicit end is 0: the end is made
\* exclusive by stepping toward start, and at 0 it is not stepped.  Past
\* the top it visits at most the chain height itself, where a descending
\* request is clamped.  No height is visited twice, and a non-admin caller
\* gets at most GET_QUORUM_STATE::MAX_COUNT of them.
QuorumStateVisitsRequested ==
    RpcQuiet =>
    \A s, e \in RequestHeights, admin \in BOOLEAN :
        LET S == HEIGHT_SENTINEL_VALUE
            r == GetQuorumState(s, e, admin)
            asked == CASE s = S /\ e = S -> {Top}
                       [] s = S            -> {e}
                       [] e = S            -> {s}
                       [] OTHER            -> Min({s, e})..Max({s, e})
            skipped == IF s # S /\ e = 0 THEN {0} ELSE {}
        IN  r.ok => /\ Range(r.heights) \cap 0..Top = (asked \cap 0..Top) \ skipped
                    /\ Range(r.heights) \ 0..Top \subseteq asked \cap {GetBlockCount}
                    /\ IsInjective(r.heights)
                    /\ ~admin => Len(r.heights) <= QUORUM_STATE_MAX_COUNT

\* GET_CHECKPOINTS answers with stored checkpoints between the heights the
\* request gives, nearest the given start first (downward from the end
\* height, or from the top checkpoint, when the start is the sentinel),
\* with no stored height skipped, and with at most `count` of them when a
\* height is left open.
CheckpointsAnswerRequest ==
    RpcQuiet =>
    \A s, e \in RequestHeights, n \in 1..(CHECKPOINTS_MAX_COUNT + 1), admin \in BOOLEAN :
        LET S  == HEIGHT_SENTINEL_VALUE
            r  == GetCheckpoints(s, e, n, admin)
            lo == IF s = S THEN 0 ELSE IF e = S THEN s ELSE Min({s, e})
            hi == IF s = S THEN (IF e = S THEN S ELSE e) ELSE IF e = S THEN S ELSE Max({s, e})
            rising == s # S /\ (e = S \/ s <= e)
            Before(x, y) == IF rising THEN x < y ELSE x > y
            hs == r.heights
        IN  r.ok => /\ Range(hs) \subseteq {x \in DOMAIN ledger.db : lo <= x /\ x <= hi}
                    /\ \A i \in 1..(Len(hs) - 1) : Before(hs[i], hs[i + 1])
                    /\ \A x \in DOMAIN ledger.db \ Range(hs) :
                          lo <= x /\ x <= hi => \A i \in DOMAIN hs : Before(hs[i], x)
                    /\ (s = S \/ e = S) => Len(hs) <= n

\* GET_SN_STATE_CHANGES counts, for each of the four new states and for key
\* image unlocks, exactly the transactions of that kind in the main-chain
\* blocks from start_height to the end height (the top for the sentinel),
\* each once, and none of the transactions it skips; it refuses a reversed
\* range and one that starts above the top.
StateChangesCounted ==
    RpcQuiet =>
    \A s \in 0..(MaxHeight + 1), e \in RequestHeights :
        LET r   == GetSnStateChanges(s, e)
            end == IF e = HEIGHT_SENTINEL_VALUE THEN Top ELSE e
            txs == UNION {{<<h, i>> : i \in DOMAIN BlockTxs(h, BlockAt(h))} : h \in s..Min({end, Top})}
            Kind(x) == BlockTxs(x[1], BlockAt(x[1]))[x[2]]
            Counted(k) == Cardinality({x \in txs : Kind(x) = k})
        IN  /\ r.ok <=> (s <= end /\ s <= Top)
            /\ r.ok => /\ r.end_height = end
                       /\ \A k \in StateChangeKinds : r.totals[k] = Counted(k)
                       /\ r.totals["unlock"] = Counted("key_image_unlock")

\* GET_SERVICE_NODES answers "unchanged" exactly to a poll naming the
\* current top block, and otherwise its possible answers are every choice
\* of min(limit, nodes) distinct nodes of the filtered list in every order
\* (all of them, in list order, for limit 0), and nothing else: the partial
\* shuffle neither repeats, loses nor excludes a node.  GET_SERVICE_NODE_STATUS
\* describes the node itself: the entry of its key when it is registered,
\* its local defaults when it is not, an error when it has no service key.
ServiceNodesAnswer ==
    RpcQuiet =>
    /\ \A pub \in {""} \cup {e.key : e \in Range(ServiceNodeList)} \cup {"unregistered"} :
        \A x \in GetServiceNodeStatus(pub) :
          /\ x.ok <=> pub # ""
          /\ x.ok => /\ x.height = Top
                     /\ x.state = IF Registered(pub) THEN EntryOf(pub) ELSE LocalState(pub)
    /\ \A poll \in {NullHash} \cup {<<Top, f>> : f \in 0..(nextFork - 1)},
      active_only \in BOOLEAN, limit \in 0..(Len(ServiceNodeList) + 1) :
        LET R    == GetServiceNodes(poll, << >>, active_only, limit)
            pool == {e \in Range(ServiceNodeList) : active_only => e.active}
            k    == Min({Cardinality(pool), limit})
        IN  /\ (\A x \in R : x.unchanged) <=> poll = BlockIdByHeight(Top)
            /\ \A x \in R : x.height = Top
            /\ poll # BlockIdByHeight(Top) =>
                  {x.states : x \in R} =
                     IF limit = 0 THEN {SelectSeq(ServiceNodeList, LAMBDA e : e \in pool)}
                     ELSE {s \in [1..k -> pool] : IsInjective(s)}

\* The reference choice of a public node on the peer lists `peers`.
PublicNodeChoiceForAll ==
    \A peers \in PeerLists :
        LET usable(l) == {<<e.host, e.rpc_port>> :
                            e \in {x \in Range(l) : x.rpc_port # 0 /\ (PeerListPublicOnly => x.public)}}
        IN  GetRandomPublicNode(peers) =
                IF usable(peers.white) # {} THEN usable(peers.white)
                ELSE IF usable(peers.gray) # {} THEN usable(peers.gray)
                ELSE {NoNode}

\* An "auto" bootstrap daemon is only ever pointed at a peer the node knows
\* that advertises an RPC port (and is public when GET_PEER_LIST's default
\* asks for public peers): any such white peer may be chosen, a gray one
\* only when no white peer qualifies, and none (nullopt) when no peer does.
\* (The choice depends on the peer lists alone; it is asked of the node at
\* rest, and TLC evaluates the constant part once.)
PublicNodeChoice == RpcQuiet => PublicNodeChoiceForAll

\* The fork of the parent of the block of fork f at height h.
ParentFork(f, h) == IF f # 0 /\ h = base[f].height THEN base[f].parent ELSE f

\* What GET_HEIGHT and GET_INFO report as immutable is immutable: once a
\* response has named <<immutable_height, immutable_hash>> (the one watched),
\* no later
\* reorganisation replaces that block, even when the top the handler read
\* first is stale by the time it reads the immutable checkpoint.
ReportedImmutableHeld ==
    watched # << >> /\ watched[1] <= Top => BlockAt(watched[1]) = watched[2]

\* A GET_BLOCK_HEADERS_RANGE response is a piece of one chain: every header
\* is the parent of the next one.
HeadersRangeFromOneChain ==
    \A i \in 2..Len(rpc.headers) :
        rpc.headers[i - 1] = ParentFork(rpc.headers[i], rpc.start + i - 1)

====
