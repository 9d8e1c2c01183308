---------------------------- MODULE MCRpcQueries ----------------------------
(* Model-checking instance of RpcQueries, on the checkpoint grid of        *)
(* MCBlockchain.                                                           *)
EXTENDS RpcQueries

\* Only the genesis block is hardcoded.
MCGenesisOnly == (0 :> 0)

\* Block contents: every kind of transaction occurs, on several heights
\* and forks, and some blocks have none.
MCBlockTxs(h, f) ==
    CASE (h + f) % 4 = 1 -> <<"decommission", "standard">>
      [] (h + f) % 4 = 2 -> <<"recommission", "key_image_unlock", "deregister", "unknown_state">>
      [] (h + f) % 4 = 3 -> <<"ip_change_penalty", "corrupt", "decommission", "bad_extra">>
      [] OTHER           -> << >>

\* Four service nodes, one of them not active.
MCServiceNodes ==
    << [key |-> "sn1", active |-> TRUE], [key |-> "sn2", active |-> FALSE],
       [key |-> "sn3", active |-> TRUE], [key |-> "sn4", active |-> TRUE] >>

\* Peer lists of up to two entries each, over two hosts, with and without
\* an RPC port, public or not.
MCPeerEntries == [host : {"h1", "h2"}, rpc_port : {0, 18081}, public : BOOLEAN]
MCPeerLists == [white : BoundedSeq(MCPeerEntries, 2), gray : BoundedSeq(MCPeerEntries, 2)]

=============================================================================
