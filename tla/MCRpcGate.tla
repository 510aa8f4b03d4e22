------------------------------ MODULE MCRpcGate ------------------------------
\* The instance the rpc_gate run checks: the run loop and one more thread.
EXTENDS RpcGate

CONSTANTS loop, other

MCCallers == {loop, other}
MCHints == {0, 1}
=============================================================================
