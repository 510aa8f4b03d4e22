----------------------------- MODULE PublicReads -----------------------------
(***************************************************************************)
(* The validator's read API (endure/api/app.py) and its risk feed          *)
(* (endure/publication/risk_feed.py) beside the round they publish: the    *)
(* rows are those of RoundLifecycle, and every query of a response is an   *)
(* action of its own, which the tick thread and the handlers may overtake. *)
(*                                                                         *)
(* Two rounds are on record: FIRST, closed long ago, and LIVE, the one     *)
(* RoundLifecycle runs.  Of the forecasts the tier horizon is kept, of a   *)
(* feed what it says of each subnet's tier and whether it shows LIVE.      *)
(***************************************************************************)
EXTENDS RoundLifecycle, Sequences, FiniteSetsExt, Totals

CONSTANTS
    PERIOD,         \* from a commit window to the next round's
    GRACE,          \* _OVERDUE_GRACE_SECONDS
    TIER_HORIZON,   \* HORIZON_30D_SECONDS
    Netuids,        \* ALPHA_RISK_WHITELISTED_NETUIDS
    Universe,       \* the frozen universe of each round
    Kinds,          \* the kinds of requests readers make
    Forecast,       \* the forecasts of each payload: [netuid -> [output -> value]]
    FirstBundles,   \* FIRST's snapshot: [miner -> payload], of other miners too
    FirstTargets,   \* FIRST's realized targets, like a value of "targets"
    Blends,         \* blended accuracy of each miner, in hundredths
    TierLimits      \* TIER_A_ .. TIER_D_MAX_*: a sequence of output limits

FIRST == 1
LIVE == 2
Rounds == {FIRST, LIVE}
TierOutputs == {"max_drawdown", "realized_volatility"}
Statuses == {"none", "resolved", "voided"}

ASSUME PublicAssumption ==
    /\ PERIOD \in Nat /\ GRACE \in Nat
    /\ TIER_HORIZON \in Horizons
    /\ Universe \in [Rounds -> SUBSET Netuids]
    /\ Kinds \subseteq {"meta", "feed", "progress"}
    /\ COMMIT_CLOSE + PERIOD >= REVEAL_CLOSE
    /\ IsFiniteSet(Hotkeys) /\ IsFiniteSet(DOMAIN FirstBundles)
    /\ \A m \in Hotkeys \union DOMAIN FirstBundles : Blends[m] \in Nat
    /\ \A p \in Payloads \union Range(FirstBundles) :
          p # NoPayload =>
            \A n \in DOMAIN Forecast[p], o \in TierOutputs : Forecast[p][n][o] \in Int

VARIABLES
    targets,    \* assessment_realized_targets of LIVE at the tier horizon
    reader,     \* the request an API thread is serving
    disclosed,  \* history: the sets of LIVE's forecasts that responses were made of
    feed,       \* history: the last feed served
    health      \* history: the horizons the last /health vouched for

reads == <<reader, disclosed, feed, health>>
allvars == <<vars, targets, reads>>

NoTargets == [n \in Universe[LIVE] |-> [o \in TierOutputs |-> "none"]]
NoTiers == [n \in Netuids |-> 0]
NoReader == [kind |-> "none", pc |-> "idle", now |-> 0, stage |-> "absent", bundles |-> Nothing,
             pending |-> {}, latest |-> 0, tiers |-> NoTiers]
NoFeed == [latest |-> 0, tiers |-> NoTiers, labels |-> [n \in Netuids |-> "unrated"]]

\* From the last moment of the reveal window: how the rows came about is the
\* subject of RoundLifecycle, and nothing could be read of them before.
Submitted == [Hotkeys -> {NoRow} \union
                {[hash |-> p, payload |-> p, verdict |-> "accepted",
                  commits |-> 1, reveals |-> 1] : p \in WellFormed}]

PublicInit ==
    /\ clock = REVEAL_CLOSE /\ round = "open"
    /\ sub \in Submitted
    /\ snapshot = Nothing /\ consensus = Nothing /\ resolved = {}
    /\ req = [s \in Slots |-> NoRequest] /\ tick = NoTick /\ acked = {}
    /\ targets = NoTargets
    /\ reader \in {[NoReader EXCEPT !.kind = kind] : kind \in Kinds}
    /\ disclosed = {} /\ feed = NoFeed /\ health = {}

-----------------------------------------------------------------------------
(* Consensus *)

\* consensus_weight: an unproven miner still counts for MIN_CONSENSUS_WEIGHT.
ConsensusWeight(m) == IF Blends[m] > 1 THEN Blends[m] ELSE 1

\* The miners whose bundle has the asset; compute_assessment_consensus leaves no
\* row for an asset nobody forecast.
Forecasters(bundles, n) ==
    {m \in DOMAIN bundles : bundles[m] # NoPayload /\ n \in DOMAIN Forecast[bundles[m]]}

Value(bundles, m, n, o) == Forecast[bundles[m]][n][o]

WeightOf(miners) == Total([m \in miners |-> ConsensusWeight(m)])

\* weighted_median: the first value, in ascending order, at which the cumulated
\* weight reaches half of the total.
WeightedMedian(bundles, n, o) ==
    LET miners == Forecasters(bundles, n)
        upTo(v) == {m \in miners : Value(bundles, m, n, o) <= v}
        reached == {v \in {Value(bundles, m, n, o) : m \in miners} :
                      2 * WeightOf(upTo(v)) >= WeightOf(miners)} IN
    Min(reached)

\* derive_risk_tier: both values below a tier's limits, the last tier otherwise.
TierOf(row) ==
    LET fits == {i \in 1 .. Len(TierLimits) :
                   \A o \in TierOutputs : row[o] < TierLimits[i][o]} IN
    Min(fits \union {Len(TierLimits) + 1})

-----------------------------------------------------------------------------
(* What the queries see *)

\* Mutant: open_round's default, the round's own reveal close.
AvailableAtReveal(r) == IF r = LIVE THEN REVEAL_CLOSE ELSE REVEAL_CLOSE - PERIOD

\* FixedUtcScheduler.publication_available_at: when the next round stops taking
\* commits.
AvailableAt(r) ==
    IF r = LIVE THEN COMMIT_CLOSE + PERIOD ELSE COMMIT_CLOSE

StateOf(r) == IF r = LIVE THEN round ELSE "closed"
ConsensusOf(r) == IF r = LIVE THEN consensus ELSE FirstBundles
TargetsOf(r) == IF r = LIVE THEN targets ELSE FirstTargets

\* Mutant: only the rounds that are still being resolved.
PostEmbargoUnfinished(r, now) ==
    StateOf(r) \in PostReveal \ {"closed"} /\ AvailableAt(r) < now

\* _post_embargo_rounds.
PostEmbargo(r, now) == StateOf(r) \in PostReveal /\ AvailableAt(r) < now

\* latest_assessment_consensus_round; 0 where the code has None.
LatestConsensusRound(now) ==
    Max({0} \union {r \in Rounds : PostEmbargo(r, now) /\ ConsensusOf(r) # Nothing})

\* Mutant: one resolved output is enough.
HasSomeOutcome(r, n) ==
    /\ n \in Universe[r] /\ Forecasters(ConsensusOf(r), n) # {}
    /\ \E o \in TierOutputs : TargetsOf(r)[n][o] = "resolved"

\* The join and the HAVING of latest_assessment_rounds_with_resolved_outputs.
HasEveryOutcome(r, n) ==
    /\ n \in Universe[r] /\ Forecasters(ConsensusOf(r), n) # {}
    /\ \A o \in TierOutputs : TargetsOf(r)[n][o] = "resolved"

LatestTierRound(n, now) ==
    Max({0} \union {r \in Rounds : PostEmbargo(r, now) /\ HasEveryOutcome(r, n)})

\* _embargo_lifted, with the clock read after the round's row.
EmbargoLifted(stage) == stage \in PostReveal /\ clock > AvailableAt(LIVE)

\* Mutant: a scored round counts as finished.
UnfinishedUnscored == round \notin {"absent", "partially_scored", "closed"}

\* unfinished_assessment_resolution_progress.
Unfinished == round \notin {"absent", "closed"}

-----------------------------------------------------------------------------
(* The round, with the targets its passes record *)

\* Only new coordinates are inserted (on_conflict_do_nothing); a complete pass
\* leaves none without a target.
RecordTargets ==
    /\ targets' \in [Universe[LIVE] -> [TierOutputs -> Statuses]]
    /\ \A n \in Universe[LIVE], o \in TierOutputs :
          /\ targets[n][o] # "none" => targets'[n][o] = targets[n][o]
          /\ TIER_HORIZON \in resolved' => targets'[n][o] # "none"

RoundRuns ==
    /\ RoundStep
    /\ IF \E complete \in BOOLEAN : ResolveAndScore(TIER_HORIZON, complete)
       THEN RecordTargets
       ELSE UNCHANGED targets
    /\ UNCHANGED reads

-----------------------------------------------------------------------------
(* Requests of readers *)

\* Between two requests only the kind this client asks for is kept.
Idle == [NoReader EXCEPT !.kind = reader.kind]
Goes(pc) == [Idle EXCEPT !.pc = pc]
Ends == reader' = Idle

Asks ==
    /\ reader.pc = "idle"
    /\ reader' = [Goes(reader.kind) EXCEPT
                    !.now = IF reader.kind = "feed" THEN clock ELSE 0]
    /\ UNCHANGED <<disclosed, feed, health>>

\* The endpoints of one round read its row and its count of accepted submissions.
RoundMeta ==
    /\ reader.pc = "meta"
    /\ reader' = IF round = "absent" THEN Idle
                 ELSE [Goes("gate") EXCEPT !.stage = round,
                                           !.bundles = AcceptedBundles]
    /\ UNCHANGED <<disclosed, feed, health>>

\* /rounds/{id}: the count is withheld until the embargo is lifted.
AnswerMeta ==
    /\ reader.pc = "gate" /\ Ends
    /\ disclosed' = IF EmbargoLifted(reader.stage)
                    THEN disclosed \union {reader.bundles} ELSE disclosed
    /\ UNCHANGED <<feed, health>>

\* _ensure_embargo_lifted, before the rows of the four data endpoints are read.
PassGate ==
    /\ reader.pc = "gate"
    /\ IF EmbargoLifted(reader.stage)
       THEN reader' = Goes("rows") ELSE Ends
    /\ UNCHANGED <<disclosed, feed, health>>

\* /submissions reads the accepted rows, /consensus what was made of them.
AnswerRows ==
    /\ reader.pc = "rows" /\ Ends
    /\ \E bundles \in {AcceptedBundles, consensus} :
          disclosed' = disclosed \union {bundles}
    /\ UNCHANGED <<feed, health>>

\* _feed_payload: "now" is taken once, then the queries follow each other. A
\* round's consensus rows and universe do not change once the query lists it.
FeedLatest ==
    /\ reader.pc = "feed"
    /\ LET latest == LatestConsensusRound(reader.now) IN
       reader' = [reader EXCEPT !.pc = "tiers", !.latest = latest,
                    !.bundles = IF latest = LIVE THEN consensus ELSE Nothing]
    /\ UNCHANGED <<disclosed, feed, health>>

FeedTiers ==
    /\ reader.pc = "tiers"
    /\ LET tiers == [n \in Netuids |-> LatestTierRound(n, reader.now)] IN
       reader' = [reader EXCEPT !.pc = "outcomes", !.tiers = tiers,
                    !.bundles = IF \E n \in Netuids : tiers[n] = LIVE
                                THEN consensus ELSE @]
    /\ UNCHANGED <<disclosed, feed, health>>

\* _resolved_thirty_day_outputs, then the signed answer: a tier only where both
\* outputs of the tier round are resolved.
Label(n, r) ==
    IF /\ r # 0
       /\ \A o \in TierOutputs : TargetsOf(r)[n][o] = "resolved"
    THEN TierOf([o \in TierOutputs |-> WeightedMedian(ConsensusOf(r), n, o)])
    ELSE "unrated"

AnswerFeed ==
    /\ reader.pc = "outcomes" /\ Ends
    /\ feed' = [latest |-> reader.latest, tiers |-> reader.tiers,
                labels |-> [n \in Netuids |-> Label(n, reader.tiers[n])]]
    /\ disclosed' = IF reader.bundles = Nothing THEN disclosed
                    ELSE disclosed \union {reader.bundles}
    /\ UNCHANGED health

\* /health reads the progress of the unfinished rounds, then the clock.
HealthProgress ==
    /\ reader.pc = "progress"
    /\ reader' = [Goes("classify") EXCEPT !.stage = round,
                    !.pending = IF Unfinished THEN Horizons \ resolved ELSE {}]
    /\ UNCHANGED <<disclosed, feed, health>>

\* assessment_round_resolution_health: without an overdue horizon, whatever is
\* past its due time and the grace is taken to be done.
AnswerHealth ==
    /\ reader.pc = "classify" /\ Ends
    /\ LET due == {h \in Horizons : clock > DueAt(h) + GRACE} IN
       health' = IF reader.stage = "absent" \/ reader.pending \intersect due # {}
                 THEN {} ELSE due
    /\ UNCHANGED <<disclosed, feed>>

ReadStep ==
    /\ \/ Asks \/ RoundMeta \/ AnswerMeta \/ PassGate \/ AnswerRows
       \/ FeedLatest \/ FeedTiers \/ AnswerFeed
       \/ HealthProgress \/ AnswerHealth
    /\ UNCHANGED <<vars, targets>>

\* The API's threads die with the process.
ProcessDies ==
    /\ Crash /\ Ends
    /\ UNCHANGED <<targets, disclosed, feed, health>>

PublicNext == RoundRuns \/ ReadStep \/ ProcessDies

PublicSpec == PublicInit /\ [][PublicNext]_allvars

\* Readers need no fairness; the round keeps its own beside them.
PublicFairSpec == PublicSpec /\ Fairness

-----------------------------------------------------------------------------
(* Properties *)

\* No response lets a miner see the forecasts of this round, or how many there
\* are, while a commitment to the next round can still be made, and what responses
\* are made of is the one set the round scores from (the embargo of
\* _ensure_embargo_lifted, of the counter in /rounds/{id} and of _post_embargo_rounds).
EmbargoHolds ==
    disclosed # {} => clock > COMMIT_CLOSE + PERIOD /\ disclosed = {snapshot}

\* The smallest value with the least weighted distance to the forecasts.
Balance(bundles, n, o) ==
    LET miners == Forecasters(bundles, n)
        weight(m) == IF Blends[m] = 0 THEN 1 ELSE Blends[m]
        distance(v, m) == weight(m) * (IF Value(bundles, m, n, o) > v
                                       THEN Value(bundles, m, n, o) - v
                                       ELSE v - Value(bundles, m, n, o))
        cost(v) == Total([m \in miners |-> distance(v, m)])
        values == {Value(bundles, m, n, o) : m \in miners} IN
    Min({v \in values : \A w \in values : cost(v) <= cost(w)})

TierIsDerivable(n, r, label) ==
    /\ \A o \in TierOutputs : TargetsOf(r)[n][o] = "resolved"
    /\ label = TierOf([o \in TierOutputs |->
                         Balance(IF r = LIVE THEN snapshot ELSE FirstBundles, n, o)])

\* A subnet for which the feed names a round has that round's tier: both outcomes
\* are on record and both consensus values are where the scored forecasts balance,
\* although the feed takes them from separate queries.
TiersAreDerivable ==
    [][feed' # feed =>
          \A n \in Netuids : feed'.tiers[n] # 0 =>
              TierIsDerivable(n, feed'.tiers[n], feed'.labels[n])]_feed

\* A client that asks again never gets an older consensus round, or for any
\* subnet a tier of an older round, than in its previous answer.
FeedNeverGoesBack ==
    [][/\ feed'.latest >= feed.latest
       /\ \A n \in Netuids : feed'.tiers[n] >= feed.tiers[n]]_feed

\* When /health reports nothing overdue, every horizon of a round it could see that
\* was past its due time and the grace at the answer is resolved, whatever the tick
\* did between the query and the clock.
HealthIsNotFalse == health \subseteq resolved
=============================================================================
