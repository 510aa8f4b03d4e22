---------------------------- MODULE MCMarketData ----------------------------
(* A window of five samples, one more block, three rounds to pool.           *)
EXTENDS MarketData, TLC

MCTime == [b \in 0 .. Height |-> 10 * b]
MCCloses == <<5, 15, 25>>
MCOutputs == <<"twap", "volatility">>

\* One sample has no pool: a price is defined, a volatility has too few returns.  The
\* pool moves late, so that few wrong answers tell apart.
MCReserves == [b \in 0 .. Height |-> IF b = 4 THEN <<0, 0>> ELSE <<IF b < 6 THEN 2 ELSE 5, 2>>]

\* A vote and a pass share the archive only: one of the two runs.
PassOrVotes == revealed = 0 \/ (pc = "idle" /\ recorded = NoTargets /\ bounds = <<NoBlock, NoBlock>>)
=============================================================================
