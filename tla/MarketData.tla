------------------------------ MODULE MarketData ------------------------------
(***************************************************************************)
(* How one horizon of a round gets its realized values, and a pool window  *)
(* its tie seed, from an archive node that lags, throttles, hangs and      *)
(* loses its connection (live/alpha_market_data.py,                        *)
(* scoring/market_sampling.py, scoring/risk, assessment_orchestrator.py).  *)
(*                                                                         *)
(* One subnet; its pool history is a constant, because all that is read of *)
(* it is final.                                                            *)
(***************************************************************************)
EXTENDS Integers, FiniteSetsExt, SequencesExt

CONSTANTS
    Height,         \* last block
    Time,           \* timestamp of a block
    Reserves,       \* of the pool, <<tao, alpha>>, at each block; zero: no pool
    RevealClose, Horizon, SeedDelay,
    Outputs,        \* a sequence of "drawdown", "volatility", "twap", "depth"
    CADENCE,        \* CANONICAL_ALPHA_SNAPSHOT_CADENCE_BLOCKS
    MIN_SNAPSHOTS, MIN_RETURNS,
    MAX_GAPS,       \* MAX_CONSECUTIVE_ARCHIVE_GAPS
    ATTEMPTS,       \* SCORING_ARCHIVE_ATTEMPTS
    MAX_ABANDONED,  \* LIVE_MARKET_DATA_MAX_ABANDONED_WORKERS
    POOL_ROUNDS,    \* POOL_WINDOW_ROUNDS
    MisreadBlocks,  \* bound of the model: blocks a wrong answer may be about
    Closes          \* reveal closes of the rounds a vote pools, the newest last

ASSUME MarketAssumption ==
    /\ {Height, CADENCE, MAX_GAPS, ATTEMPTS, MIN_SNAPSHOTS} \subseteq Nat \ {0}
    /\ Time \in [0 .. Height -> Int] /\ RevealClose \in Int /\ Horizon \in Nat
    /\ \A b \in 1 .. Height : Time[b - 1] < Time[b]
    /\ POOL_ROUNDS \in Nat \ {0}

VARIABLES
    final,          \* finalized block of the node that answers
    late,           \* past the grace period of the resolution
    spent,          \* the tick's budget is exhausted
    pc,             \* what the resolving pass is doing
    tries,          \* failed attempts of the read under way
    bounds,         \* _first_timestamp_blocks, _last_timestamp_blocks
    snapshots,      \* _snapshots: the reserves that were answered, by block
    misread,        \* history: blocks this process was answered wrongly about
    series,         \* _series: NoSeries or what was sampled
    headCache,      \* _head_cache
    sampling,       \* SeriesSampling of the series being read
    passTargets,    \* of this pass; None where the archive was unavailable
    recorded,       \* realized targets in the database
    cooling, abandoned,  \* the fetcher: its cooldown, its hung workers
    revealed,       \* how many of Closes are revealed
    seeds,          \* _tie_seeds
    window          \* newest round of _last_seeded_window, 0 before

env == <<final, late, spent>>
pass == <<pc, tries, sampling, passTargets>>
caches == <<bounds, snapshots, misread, series, headCache>>
fetcher == <<cooling, abandoned>>
votes == <<revealed, seeds, window>>
marketVars == <<env, pass, caches, recorded, fetcher, votes>>

NoBlock == -1

\* The head of the node that answers: a block ahead of finality.
HeadBlock == Min({final + 1, Height})
NoSeries == <<NoBlock>>
NoSnapshots == [b \in {} |-> <<0, 0>>]

-----------------------------------------------------------------------------
(* Which blocks are read: market_sampling.py.                              *)

\* The bisection of both searches, between block 0 and the finalized one.
Bisect(above) ==
    LET least[r \in (0 .. Height) \X (0 .. Height)] ==
          LET mid == r[1] + (r[2] - r[1]) \div 2
          IN IF r[1] >= r[2] THEN r[1]
             ELSE IF mid \in above THEN least[<<r[1], mid>>] ELSE least[<<mid + 1, r[2]>>]
    IN least[<<0, final>>]

\* first_block_at_or_after
FirstAtOrAfter(t) ==
    IF Time[final] < t THEN NoBlock
    ELSE IF Time[final] = t THEN final
    ELSE Bisect({b \in 0 .. Height : Time[b] >= t})

\* last_block_at_or_before
LastAtOrBefore(t) ==
    IF Time[final] < t THEN NoBlock
    ELSE IF Time[final] = t THEN final
    ELSE Bisect({b \in 0 .. Height : Time[b] > t}) - 1

\* canonical_snapshot_blocks
CanonicalBlocks ==
    [k \in 1 .. (bounds[2] - bounds[1]) \div CADENCE |-> bounds[1] + k * CADENCE]

-----------------------------------------------------------------------------
(* What is made of a series of blocks, given the reserves of the pool at   *)
(* each of them: observables.py, market_data.py.                           *)
(* The code rounds to the nearest integer, the model down; a volatility is *)
(* here the returns it is the deviation of.                                *)

\* alpha_snapshot_from_reserves
Usable(reserves) == reserves[1] > 0 /\ reserves[2] > 0
HasReserves(b) == Usable(Reserves[b])

\* should_void_realized_window
TooThin(blocks, span) ==
    \/ Len(blocks) < MIN_SNAPSHOTS
    \/ (Last(blocks) - Head(blocks)) * 5 < span * 4

\* max_drawdown_bps
Drawdown(blocks, pool) ==
    LET kept(i, j) == (10000 * pool[blocks[j]][1] * pool[blocks[i]][2])
                      \div (pool[blocks[i]][1] * pool[blocks[j]][2])
    IN 10000 - Min({kept(p[1], p[2]) : p \in {q \in (DOMAIN blocks) \X (DOMAIN blocks) : q[1] <= q[2]}})

\* realized_volatility_bps: only pairs one cadence apart count.
Returns(blocks, pool) ==
    LET exact == {i \in 1 .. Len(blocks) - 1 : blocks[i + 1] - blocks[i] = CADENCE}
    IN [i \in exact |-> <<pool[blocks[i]], pool[blocks[i + 1]]>>]

\* _block_weighted_decimal
Weighted(blocks, start, value) ==
    LET before(i) == IF i = 1 THEN start ELSE blocks[i - 1]
        weight(i) == Min({blocks[i] - before(i), CADENCE})
    IN MapThenSumSet(LAMBDA i : value[blocks[i]] * weight(i), DOMAIN blocks)
       \div MapThenSumSet(weight, DOMAIN blocks)

Void == <<"voided">>

\* _resolve_output_value, and what voids it.
Value(output, blocks, pool, start, end) ==
    IF \/ blocks = <<>> \/ TooThin(blocks, end - start)
       \/ output = "volatility" /\ Cardinality(DOMAIN Returns(blocks, pool)) < MIN_RETURNS
    THEN Void
    ELSE <<"resolved",
           CASE output = "drawdown" -> Drawdown(blocks, pool)
             [] output = "volatility" -> Returns(blocks, pool)
             [] output = "twap" -> Weighted(blocks, start, [b \in ToSet(blocks) |-> (1000 * pool[b][1]) \div pool[b][2]])
             [] output = "depth" -> Weighted(blocks, start, [b \in ToSet(blocks) |-> pool[b][1]])>>

-----------------------------------------------------------------------------
(* Reads of the archive.                                                   *)

Reachable == ~cooling /\ abandoned < MAX_ABANDONED

\* What an attempt that fails leaves: nothing, a cooldown after HTTP 429, or a
\* worker that hangs in it (_call_archive_operation, _call_with_timeout).
FetchFails ==
    \/ UNCHANGED fetcher
    \/ Reachable /\ cooling' = TRUE /\ UNCHANGED abandoned
    \/ Reachable /\ abandoned' = abandoned + 1 /\ UNCHANGED cooling

Answers == ~spent /\ Reachable /\ tries' = 0 /\ UNCHANGED fetcher

\* _with_retry: one more attempt.
Retry ==
    /\ pc \in {"start", "end", "head", "sample"} /\ ~spent
    /\ tries + 1 < ATTEMPTS
    /\ tries' = tries + 1
    /\ FetchFails
    /\ UNCHANGED <<env, pc, sampling, passTargets, caches, recorded, votes>>

\* The attempts are exhausted: an outage (retry_exhausted_failure).
Exhausted == ~spent /\ tries + 1 = ATTEMPTS /\ tries' = 0 /\ FetchFails

-----------------------------------------------------------------------------
(* A pass: RiskScoringOrchestrator.resolve_and_score, _resolve_targets.    *)

NoTargets == [o \in {} |-> Void]
None == <<"none">>
NoSampling == [at |-> NoBlock, taken |-> <<>>, next |-> 1, gaps |-> 0,
               outage |-> FALSE, future |-> FALSE]

\* The outputs without a target, by their place; the first of them is next.
Pending == {i \in DOMAIN Outputs : Outputs[i] \notin DOMAIN recorded \cup DOMAIN passTargets}
Output == Outputs[Min(Pending)]

EndPass ==
    /\ pc' = "idle" /\ passTargets' = NoTargets /\ sampling' = NoSampling /\ tries' = 0

\* record_assessment_scoring_pass, of what the pass resolved or voided.
Record ==
    /\ EndPass
    /\ LET known == {o \in DOMAIN passTargets : passTargets[o] # None}
       IN recorded' = [o \in known \cup DOMAIN recorded |->
                         IF o \in known
                         THEN [target |-> passTargets[o], late |-> late, sound |-> misread = {}]
                         ELSE recorded[o]]

Decide(target) ==
    /\ passTargets' = [o \in {Output} \cup DOMAIN passTargets |->
                         IF o = Output THEN target ELSE passTargets[o]]
    /\ pc' = "resolve" /\ sampling' = NoSampling

\* _unavailable_target
Unavailable == Decide(IF late THEN Void ELSE None)

StartPass ==
    /\ pc = "idle" /\ Pending # {}
    /\ pc' = "start"
    /\ spent' = FALSE
    /\ UNCHANGED <<final, late, tries, sampling, passTargets, caches, recorded,
                   fetcher, votes>>

\* reveal_close_block and window_end_block
Boundary(k, found, then) ==
    /\ \/ bounds[k] # NoBlock /\ UNCHANGED <<bounds, tries, fetcher>>
       \/ bounds[k] = NoBlock /\ found # NoBlock /\ Answers /\ bounds' = [bounds EXCEPT ![k] = found]
    /\ pc' = then
    /\ UNCHANGED <<env, sampling, passTargets, snapshots, misread, series, headCache, recorded, votes>>

StartBoundary == pc = "start" /\ Boundary(1, FirstAtOrAfter(RevealClose), "end")
EndBoundary == pc = "end" /\ Boundary(2, LastAtOrBefore(RevealClose + Horizon), "resolve")

\* The boundary is not final yet, or cannot be read: past the grace every
\* target of the pass is voided, before it the pass fails.
BoundaryFails ==
    /\ \/ /\ pc = "start" /\ bounds[1] = NoBlock
          /\ Exhausted \/ (Answers /\ FirstAtOrAfter(RevealClose) = NoBlock)
       \/ /\ pc = "end" /\ bounds[2] = NoBlock
          /\ Exhausted \/ (Answers /\ LastAtOrBefore(RevealClose + Horizon) = NoBlock)
    /\ IF late
       THEN /\ passTargets' = [o \in {Outputs[i] : i \in Pending} |-> Void]
            /\ pc' = "resolve" /\ UNCHANGED sampling
       ELSE pc' = "idle" /\ UNCHANGED <<passTargets, sampling>>
    /\ UNCHANGED <<env, caches, recorded, votes>>

\* The deadline is met in a boundary: the tick gives up, nothing is recorded.
BoundaryDeferred ==
    /\ pc \in {"start", "end"} /\ spent
    /\ bounds[IF pc = "start" THEN 1 ELSE 2] = NoBlock
    /\ EndPass
    /\ UNCHANGED <<env, caches, recorded, fetcher, votes>>

NextOutput ==
    /\ pc = "resolve" /\ Pending # {} /\ ~spent
    /\ pc' = "head"
    /\ UNCHANGED <<env, tries, sampling, passTargets, caches, recorded, fetcher, votes>>

\* Every output has been asked for, or the budget is spent before or inside one.
FinishPass ==
    /\ \/ pc = "resolve" /\ (Pending = {} \/ spent)
       \/ pc = "head" /\ spent /\ headCache = NoBlock
       \/ /\ pc = "sample" /\ spent
          /\ sampling.gaps < MAX_GAPS /\ sampling.next <= Len(CanonicalBlocks)
    /\ Record
    /\ UNCHANGED <<env, caches, fetcher, votes>>

\* _current_block_for_series
HeadKnown ==
    /\ pc = "head"
    /\ \E h \in {HeadBlock, headCache} \ {NoBlock} :
         /\ IF headCache = NoBlock THEN Answers ELSE h = headCache /\ UNCHANGED <<tries, fetcher>>
         /\ headCache' = h
         /\ IF series # NoSeries /\ Last(series) <= h
            THEN Decide(Value(Output, series, snapshots, bounds[1], bounds[2])) /\ UNCHANGED series
            ELSE /\ series' = NoSeries
                 /\ pc' = "sample" /\ sampling' = [NoSampling EXCEPT !.at = h]
                 /\ UNCHANGED passTargets
    /\ UNCHANGED <<env, bounds, snapshots, misread, recorded, votes>>

HeadFails ==
    /\ pc = "head" /\ headCache = NoBlock
    /\ Exhausted
    /\ Unavailable
    /\ UNCHANGED <<env, caches, recorded, votes>>

Block == CanonicalBlocks[sampling.next]
Sampled == [sampling EXCEPT !.taken = Append(@, Block), !.gaps = 0, !.next = @ + 1]
\* gap(connection_available=True)
Skipped == [sampling EXCEPT !.gaps = 0, !.next = @ + 1]
\* gap(connection_available=False)
Lost == [sampling EXCEPT !.gaps = @ + 1, !.outage = TRUE, !.next = @ + 1]

\* Whose reserves the read of a block answers: a node that is behind the block gives
\* those of its own head instead, and nothing in the answer says so.
AnsweredBlock == Min({Block, HeadBlock})

\* What the answer adds to the history: blocks whose own reserves it does not give.
Misread(answer) == misread' = misread \cup {b \in {Block} : answer # Reserves[b]}

\* A snapshot with usable reserves is kept; one without is a definitive gap.
Read ==
    LET answer == Reserves[AnsweredBlock]
    IN /\ Answers
       /\ IF Usable(answer)
          THEN /\ sampling' = Sampled
               /\ snapshots' = [b \in {Block} \cup DOMAIN snapshots |->
                                  IF b = Block THEN answer ELSE snapshots[b]]
          ELSE sampling' = Skipped /\ UNCHANGED snapshots
       /\ Misread(answer)

\* The last attempt was answered with nothing: a definitive gap too, whatever the
\* pool held (retry_exhausted_failure, snapshot_failure_is_outage).
Missing ==
    /\ ~spent /\ Reachable /\ tries + 1 = ATTEMPTS
    /\ tries' = 0 /\ sampling' = Skipped
    /\ misread' = misread \cup {b \in {Block} : HasReserves(b)}
    /\ UNCHANGED <<snapshots, fetcher>>

\* price_series, one canonical block: ahead of the cached head, cached, or asked for.
Sample ==
    /\ pc = "sample" /\ ~spent
    /\ sampling.gaps < MAX_GAPS /\ sampling.next <= Len(CanonicalBlocks)
    /\ \/ /\ Block > sampling.at
          /\ sampling' = [Skipped EXCEPT !.future = TRUE]
          /\ UNCHANGED <<tries, snapshots, misread, fetcher>>
       \/ /\ Block <= sampling.at /\ Block \in DOMAIN snapshots
          /\ sampling' = Sampled
          /\ UNCHANGED <<tries, snapshots, misread, fetcher>>
       \/ /\ Block <= sampling.at /\ Block \notin DOMAIN snapshots
          /\ Read \/ Missing
          /\ misread' \subseteq MisreadBlocks
       \/ /\ Block <= sampling.at /\ Block \notin DOMAIN snapshots /\ Exhausted
          /\ sampling' = Lost
          /\ UNCHANGED <<snapshots, misread>>
    /\ UNCHANGED <<env, pc, passTargets, bounds, series, headCache, recorded, votes>>

\* Mutant: an outage only shortens the series.
BrokenByFuture(s) == s.future

\* SeriesSampling.finish: when a series is void.
Broken(s) == s.outage \/ s.future

FinishSeries ==
    /\ pc = "sample"
    /\ sampling.gaps = MAX_GAPS \/ sampling.next > Len(CanonicalBlocks)
    /\ IF Broken(sampling) THEN Unavailable /\ UNCHANGED series
       ELSE /\ Decide(Value(Output, sampling.taken, snapshots, bounds[1], bounds[2]))
            /\ series' = IF sampling.taken = <<>> THEN NoSeries ELSE sampling.taken
    /\ UNCHANGED <<env, tries, bounds, snapshots, misread, headCache, recorded, fetcher, votes>>

-----------------------------------------------------------------------------
(* A vote's pool window: _seeded_window, _tie_seed, chain_tie_seed.        *)

\* Mutant: seeds are forgotten with every vote.
RecentNone == {}

Recent == revealed - POOL_ROUNDS .. revealed

SeedKnown(r) == r \in seeds \cap Recent
SeedReadable(r) == Reachable /\ Time[final] >= Closes[r] + SeedDelay

Seed(r) ==
    /\ SeedKnown(r) \/ SeedReadable(r)
    /\ seeds' = (seeds \cap Recent) \cup {r}
    /\ window' = r

\* Newest round first; a read may fail although the archive could answer it.
Vote ==
    /\ pc = "idle" /\ revealed > 0
    /\ \/ Seed(revealed)
       \/ ~SeedKnown(revealed) /\ revealed > 1 /\ Seed(revealed - 1)
       \/ /\ ~SeedKnown(revealed) /\ ~SeedKnown(revealed - 1)
          /\ seeds' = seeds \cap Recent
          /\ UNCHANGED window
    /\ UNCHANGED <<env, pass, caches, recorded, fetcher, revealed>>

-----------------------------------------------------------------------------
(* The surroundings.                                                       *)

MarketInit ==
    /\ final = 0 /\ late = FALSE /\ spent = FALSE
    /\ pc = "idle" /\ tries = 0 /\ sampling = NoSampling /\ passTargets = NoTargets
    /\ bounds = <<NoBlock, NoBlock>> /\ snapshots = NoSnapshots /\ misread = {}
    /\ series = NoSeries /\ headCache = NoBlock
    /\ recorded = NoTargets
    /\ cooling = FALSE /\ abandoned = 0
    /\ revealed = 0 /\ seeds = {} /\ window = 0

\* A block is finalized, or a node a block behind or ahead answers.
MoveHead ==
    /\ final' \in (final - 1 .. final + 1) \cap 0 .. Height
    /\ UNCHANGED <<late, spent, pass, caches, recorded, fetcher, votes>>

GraceEnds ==
    /\ pc = "idle" /\ ~late /\ late' = TRUE
    /\ UNCHANGED <<final, spent, pass, caches, recorded, fetcher, votes>>

SpendBudget ==
    /\ pc # "idle" /\ ~spent /\ spent' = TRUE
    /\ UNCHANGED <<final, late, pass, caches, recorded, fetcher, votes>>

ExpireHead ==
    /\ headCache # NoBlock /\ headCache' = NoBlock
    /\ UNCHANGED <<env, pass, bounds, snapshots, misread, series, recorded, fetcher, votes>>

\* The cooldown ends, a hung worker returns.
Recover ==
    /\ \/ cooling /\ cooling' = FALSE /\ UNCHANGED abandoned
       \/ abandoned > 0 /\ abandoned' = abandoned - 1 /\ UNCHANGED cooling
    /\ UNCHANGED <<env, pass, caches, recorded, votes>>

Reveal ==
    /\ pc = "idle" /\ revealed < Len(Closes) /\ revealed' = revealed + 1
    /\ UNCHANGED <<env, pass, caches, recorded, fetcher, seeds, window>>

ProcessRestarts ==
    /\ EndPass
    /\ bounds' = <<NoBlock, NoBlock>> /\ snapshots' = NoSnapshots /\ misread' = {}
    /\ series' = NoSeries /\ headCache' = NoBlock
    /\ cooling' = FALSE /\ abandoned' = 0
    /\ seeds' = {} /\ window' = 0
    /\ UNCHANGED <<env, recorded, revealed>>

MarketNext ==
    \/ StartPass \/ StartBoundary \/ EndBoundary \/ BoundaryFails \/ BoundaryDeferred
    \/ NextOutput \/ HeadKnown \/ HeadFails \/ Sample \/ FinishSeries \/ FinishPass
    \/ Retry
    \/ Vote \/ Reveal
    \/ MoveHead \/ GraceEnds \/ SpendBudget \/ ExpireHead \/ Recover \/ ProcessRestarts

MarketSpec == MarketInit /\ [][MarketNext]_marketVars

-----------------------------------------------------------------------------
(* Properties.                                                             *)

\* The window, by its definition: from the first block stamped at or after the
\* reveal close to the last one stamped at or before its end.
TrueStart == Min({b \in 0 .. Height : Time[b] >= RevealClose})
TrueEnd == Max({b \in 0 .. Height : Time[b] <= RevealClose + Horizon})
Ascending(S) == [k \in 1 .. Cardinality(S) |->
                    CHOOSE b \in S : Cardinality({c \in S : c < b}) = k - 1]
TrueBlocks ==
    Ascending({b \in TrueStart + 1 .. TrueEnd :
                 (b - TrueStart) % CADENCE = 0 /\ HasReserves(b)})

\* Whatever the archive's outages, throttles, hangs and lags, the budgets and the
\* restarts did to the passes, a target recorded as resolved is what every complete
\* reading of the chain gives, and one voided before the grace ends is void in the
\* chain itself: two validators never score against different values.  Not so for a
\* process that was answered wrongly: the code takes what a node behind its cached
\* head says, and what no node says, for the chain's (_snapshot_at, SeriesSampling).
RecordedIsCanonical ==
    \A o \in DOMAIN recorded :
      LET r == recorded[o]
      IN r.sound /\ (r.target # Void \/ ~r.late) =>
           r.target = Value(o, TrueBlocks, Reserves, TrueStart, TrueEnd)

\* While a process lives, its votes never go back to the pool window of an
\* earlier round, whichever seeds the archive can show (_last_seeded_window).
WindowNeverGoesBack == [][window' >= window \/ window' = 0]_marketVars
=============================================================================
