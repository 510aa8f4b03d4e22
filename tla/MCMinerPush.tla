----------------------------- MODULE MCMinerPush -----------------------------
\* The instance of the miner_push runs: two validators and a peer that is none,
\* which the metagraph may stop listing.
EXTENDS MinerPush, TLC

CONSTANTS v1, v2, s

MCPeers == {v1, v2, s}
MCStrangers == {s}
MCViews == {MCPeers, {v1, v2}}
PeerSymmetry == Permutations({v1, v2})
=============================================================================
