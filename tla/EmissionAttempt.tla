--------------------------- MODULE EmissionAttempt ---------------------------
(***************************************************************************)
(* One validator deciding a vote: scores read from the durable EMAs, a     *)
(* plan made from one chain snapshot, the vector prepared from the local   *)
(* metagraph, the recheck at the submission block (neurons/validator.py,   *)
(* emission_policy.py, base/validator.py).  The chain moves between these  *)
(* steps.  The health of emission is kept beside, and API threads read a   *)
(* summary of the ledger through a cache.                                  *)
(*                                                                         *)
(* The ledger is here one flag, whether a batch is open: WeightEmission    *)
(* has its life.                                                           *)
(***************************************************************************)
EXTENDS EmissionVote

CONSTANTS
    Hotkeys, Self,  \* hotkeys, this validator's
    Coldkeys,
    Networks,       \* of "none", "testnet", "mainnet": owner_vote_network
    Limits,         \* chain limits <<min_allowed_weights, max_weight_limit>>
    Texts,          \* what owners commit to: rates in BPS, and what is no rate
    Earnings,       \* what scoring passes leave: EMAs and the revealed forecasts
    PinnedOwner,    \* SN30_OWNER_HOTKEY
    StartChains,    \* chains an attempt may find
    MaxMoves,       \* chain changes
    Readers         \* API threads

ASSUME AttemptAssumption ==
    /\ Self \in Hotkeys /\ Networks \subseteq {"none", "testnet", "mainnet"}
    /\ MaxMoves \in Nat
    /\ IsFiniteSet(Hotkeys)
    /\ \A d \in Earnings : /\ DOMAIN d.scores \subseteq Hotkeys
                          /\ \A h \in DOMAIN d.scores : d.scores[h] \in Nat

\* Sharpening keeps a score a number, and no score none.
ASSUME SharpeningAssumption ==
    \A d \in Earnings : \A h \in DOMAIN d.scores :
      LET powered == d.scores[h] ^ GAMMA
      IN powered \in Nat /\ (d.scores[h] = 0 => powered = 0)

\* A hotkey has one slot at most.
Chains == [hotkeys : Injection(Uids, Hotkeys), cold : [Hotkeys -> Coldkeys],
           owner : Hotkeys, ownerCold : Coldkeys, text : Texts,
           permit : BOOLEAN, late : BOOLEAN]

ASSUME ChainsAssumption == StartChains \subseteq Chains

VARIABLES
    network, limits,
    chain,          \* what a snapshot of the chain shows
    moves,
    local,          \* metagraph.hotkeys
    durable,        \* the durable EMAs, and the revealed rounds, newest first
    scores, pools,  \* self.scores, _pools
    attempt,        \* where the run loop is, and what it holds
    block,          \* _emission_block
    underlying,     \* _emission_block_underlying
    fault,          \* history: why the last plan was refused
    open,           \* the ledger has an open batch
    reader,         \* per API thread: what it read, and if its generation is current
    cache           \* _confirmation_summary_cache, and if its generation is current

chainVars == <<network, limits, chain, moves>>
scoreVars == <<local, durable, scores, pools>>
health == <<block, underlying, fault>>
api == <<reader, cache>>
vars == <<chainVars, scoreVars, attempt, health, open, api>>

None == "none"
NoForecast == 0
Idle == [pc |-> "idle"]
NoCache == [summary |-> FALSE, current |-> FALSE]
NotReading == [pc |-> "idle", summary |-> FALSE, current |-> FALSE]

\* _IMMEDIATE_EMISSION_BLOCKS
Immediate == {"owner_hotkey_mismatch", "owner_unregistered", "owner_vote_chain_mismatch"}
ScoreUnavailable == "score_state_unavailable"

-----------------------------------------------------------------------------
(* Scores, by hotkey in the durable state and by UID in memory.            *)

\* weights(): only hotkeys of the metagraph are paid, only scored ones pool.
Blended(d, l) == [h \in DOMAIN d.scores \cap {l[u] : u \in Uids} |-> d.scores[h]]
ScoredPools(d, l) ==
    DuplicatePools([i \in DOMAIN d.rounds |-> IdenticalGroups(d.rounds[i], NoForecast)],
                   {h \in DOMAIN Blended(d, l) : Blended(d, l)[h] > 0})

\* _apply_weights
ApplyWeights(d, l) ==
    LET weights == EarnedWeights(Blended(d, l), ScoredPools(d, l))
    IN /\ scores' = [u \in Uids |-> IF l[u] \in DOMAIN weights THEN weights[l[u]] ELSE 0]
       /\ pools' = ScoredPools(d, l)

\* _pool_uids, in the tie order of the pools.
PoolUids(withheld) ==
    LET uids(p) == {u \in Uids \ withheld : local[u] \in p}
    IN {SetToSeq(uids(p)) : p \in {q \in pools : Cardinality(uids(q)) > 1}}

-----------------------------------------------------------------------------
(* Health.                                                                 *)

\* Mutant: the interrupted fault is not remembered.
ParkedForgotten(reason) == underlying

\* What a failed score read interrupts.
Parked(reason) ==
    IF reason = ScoreUnavailable /\ block \notin {None, ScoreUnavailable}
    THEN block ELSE underlying

\* _block_emission
BlockEmission(reason) ==
    /\ underlying' = Parked(reason)
    /\ block' = reason

\* _clear_emission_block
ClearBlock == block' = None /\ underlying' = None

\* _refresh_scores_from_durable_state with the metagraph l, when it can read.
ScoresRead(l) ==
    /\ ApplyWeights(durable, l)
    /\ IF block = ScoreUnavailable
       THEN block' = underlying /\ underlying' = None
       ELSE UNCHANGED <<block, underlying>>

\* _align_state_with_current_metagraph: no score passes to another hotkey.
Aligned(l) == [u \in Uids |-> IF local[u] = l[u] THEN scores[u] ELSE 0]

\* The same, when it cannot: the scores stay, and nothing is emitted.
ScoresUnreadable(aligned) ==
    /\ scores' = aligned /\ UNCHANGED pools
    /\ BlockEmission(ScoreUnavailable)

\* _emission_block_degraded, for what pages at once.
PagesAtOnce == {block, underlying} \cap Immediate # {}

-----------------------------------------------------------------------------
(* The cached summary.                                                     *)

\* Mutant: the cache is dropped, reads under way stay current.
InvalidateCacheOnly ==
    /\ cache' = NoCache
    /\ UNCHANGED reader

\* _invalidate_confirmation_summary: no read begun before is current any more.
Invalidate ==
    /\ cache' = NoCache
    /\ reader' = [r \in Readers |-> [reader[r] EXCEPT !.current = FALSE]]

\* _confirmation_summary: the generation is taken before the read.
BeginRead(r) ==
    /\ reader[r].pc = "idle"
    /\ ~cache.current
    /\ reader' = [reader EXCEPT ![r] = [pc |-> "reading", summary |-> FALSE, current |-> TRUE]]
    /\ UNCHANGED <<chainVars, scoreVars, attempt, health, open, cache>>

\* weight_emission_confirmation_health
ReadLedger(r) ==
    /\ reader[r].pc = "reading"
    /\ reader' = [reader EXCEPT ![r].pc = "read", ![r].summary = open]
    /\ UNCHANGED <<chainVars, scoreVars, attempt, health, open, cache>>

Store(r) ==
    /\ reader[r].pc = "read"
    \* what is stored under an old generation is never served
    /\ cache' = IF reader[r].current THEN [summary |-> reader[r].summary, current |-> TRUE]
                ELSE NoCache
    /\ reader' = [reader EXCEPT ![r] = NotReading]
    /\ UNCHANGED <<chainVars, scoreVars, attempt, health, open>>

\* The time to live, or another head, ends what the cache serves.
Expire ==
    /\ cache.current
    /\ cache' = NoCache
    /\ UNCHANGED <<chainVars, scoreVars, attempt, health, open, reader>>

-----------------------------------------------------------------------------
(* The plan, from one snapshot.                                            *)

OwnerUids == {u \in Uids : chain.hotkeys[u] = chain.owner}
OwnerUid == CHOOSE u \in Uids : chain.hotkeys[u] = chain.owner

\* chain_withheld_uids
Withheld ==
    {u \in Uids : chain.cold[chain.hotkeys[u]] = chain.ownerCold} \cup {OwnerUid}

SelfUid == CHOOSE u \in Uids : local[u] = Self

\* submission_due
Due == chain.permit /\ chain.late

\* select_emission_mode
Mode == IF \E u \in Uids : scores[u] > 0 THEN "scored"
        ELSE IF network = "none" THEN "abstain" ELSE "owner_vote"

\* _local_owner_uid: the owner's slot is the owner's in the local metagraph too.
LocalOwnerAgrees == local[OwnerUid] = chain.owner

\* What plan_emission refuses, in its order.
Refusals == <<
    <<Mode = "scored" /\ \E u \in Uids : scores[u] > 0 /\ local[u] # chain.hotkeys[u],
      "chain_snapshot_inconsistent">>,
    <<network = "mainnet" /\ chain.owner # PinnedOwner, "owner_hotkey_mismatch">>,
    <<network # "none" /\ OwnerUids = {}, "owner_unregistered">>,
    <<network # "none" /\ OwnerUids # {} /\ ~LocalOwnerAgrees,
      "owner_snapshot_inconsistent">>,
    <<chain.hotkeys[SelfUid] # Self, "validator_identity_invalid">> >>

FirstRefusal ==
    LET raised == {i \in DOMAIN Refusals : Refusals[i][1]}
    IN IF raised = {} THEN None ELSE Refusals[Min(raised)][2]

Earned == [u \in Uids |-> IF u \in Withheld THEN 0 ELSE scores[u]]

\* Only a due scored vote asks for the owner's commitment.
AsksRate == network # "none" /\ Mode = "scored" /\ Total(Earned) > 0

\* observed_burn_rate: no read burns the whole vote.
ObservedBurnRate == IF AsksRate THEN BurnRate(chain.text) ELSE BPS

\* plan_emission
Plan ==
    IF network = "none"
    THEN [weights |-> scores, bps |-> 0, owner |-> -1, withheld |-> {}, groups |-> PoolUids({})]
    ELSE LET withheld == IF Mode = "scored" THEN Withheld ELSE {OwnerUid}
             vote == VoteNetworkWeights(Earned, OwnerUid, ObservedBurnRate)
         IN [weights |-> vote.weights, bps |-> vote.bps, owner |-> OwnerUid,
             withheld |-> withheld, groups |-> PoolUids(withheld)]

\* What the recheck compares with later, and what history keeps of the plan.
Facts == [hotkeys |-> chain.hotkeys, cold |-> chain.cold,
          owner |-> chain.owner, ownerCold |-> chain.ownerCold]

\* _owner_state_at: the chain as of the submission block, or nothing when the
\* retries of the read are spent.
OwnerStates == {{Facts}, {}}

-----------------------------------------------------------------------------
(* The recheck of the prepared vector.                                     *)

Unlimited == <<1, <<1, 1>>>>

\* recheck_owner_vote
VectorFits(plan, units) ==
    /\ limits = Unlimited
    /\ IF plan.bps = BPS THEN units = [u \in {plan.owner} |-> U16_MAX]
       ELSE /\ ShareIsBurned(units, plan.owner, plan.bps)
            /\ DOMAIN units \cap (plan.withheld \ IF plan.bps = 0 THEN {} ELSE {plan.owner}) = {}

\* Mutant: a UID that changed hands goes unnoticed.
StateHoldsForOwner(plan, at, now, units) ==
    /\ now.owner = at.owner /\ now.ownerCold = at.ownerCold

\* recheck_owner_state
StateHolds(plan, at, now, units) ==
    /\ now.owner = at.owner /\ now.ownerCold = at.ownerCold
    /\ \A u \in DOMAIN units \cup {plan.owner} :
         /\ now.hotkeys[u] = local[u]
         /\ (u = plan.owner \/ now.cold[now.hotkeys[u]] = now.ownerCold)
              <=> u \in plan.withheld

-----------------------------------------------------------------------------
(* The run loop.                                                           *)

Init ==
    /\ network \in Networks /\ limits \in Limits
    /\ chain \in StartChains /\ moves = 0
    /\ local = chain.hotkeys
    /\ durable \in Earnings
    /\ scores = Zero /\ pools = {}
    /\ attempt = Idle
    \* _load_durable_scores
    /\ block \in {None, ScoreUnavailable}
    /\ underlying = None /\ fault = None
    /\ open = FALSE
    /\ reader = [r \in Readers |-> NotReading] /\ cache = NoCache

\* A scoring pass; the weights are not applied while a tie seed is missing.
Tick ==
    /\ attempt = Idle
    /\ durable' \in Earnings
    /\ ApplyWeights(durable', local) \/ UNCHANGED <<scores, pools>>
    /\ UNCHANGED <<chainVars, local, attempt, health, open, api>>

\* resync_metagraph and _on_metagraph_synced, up to the reconciliation.
Resync ==
    /\ attempt = Idle
    /\ Self \in {chain.hotkeys[u] : u \in Uids}
    /\ local' = chain.hotkeys
    /\ \/ ScoresRead(local')
       \/ ScoresUnreadable(Aligned(local'))
    /\ attempt' = [pc |-> "synced"]
    /\ UNCHANGED <<chainVars, durable, fault, open, api>>

\* _resolve_weight_confirmations
Reconcile ==
    /\ attempt.pc = "synced"
    /\ open' \in {open, FALSE}
    /\ attempt' = [pc |-> "written"]
    /\ UNCHANGED <<chainVars, scoreVars, health, api>>

\* set_weights begins.
Refresh ==
    /\ attempt = Idle
    /\ \/ ScoresRead(local) /\ attempt' = [pc |-> "refreshed"]
       \/ ScoresUnreadable(scores) /\ UNCHANGED attempt
    /\ UNCHANGED <<chainVars, local, durable, fault, open, api>>

Abstain ==
    /\ attempt.pc = "refreshed" /\ Mode = "abstain"
    /\ ClearBlock /\ fault' = None
    /\ attempt' = Idle
    /\ UNCHANGED <<chainVars, scoreVars, open, api>>

\* _weight_emission_ready re-reads the ledger, and notes what it read.
AskLedger ==
    /\ attempt.pc = "refreshed" /\ Mode # "abstain"
    /\ Invalidate
    /\ attempt' = IF open THEN Idle ELSE [pc |-> "ready"]
    /\ UNCHANGED <<chainVars, scoreVars, health, open>>

\* The gate defers a read of the plan, or the head cannot be read: no verdict.
ReadRaises ==
    /\ attempt.pc \in {"ready", "planned"}
    /\ attempt' = Idle
    /\ UNCHANGED <<chainVars, scoreVars, health, open, api>>

PlanRefused ==
    /\ attempt.pc = "ready"
    /\ \E reason \in IF FirstRefusal # None THEN {FirstRefusal}
                     ELSE IF AsksRate /\ Due THEN {"owner_commitment_unavailable"} ELSE {} :
         BlockEmission(reason) /\ fault' = reason
    /\ attempt' = Idle
    /\ UNCHANGED <<chainVars, scoreVars, open, api>>

\* _plan_emission
PlanMade ==
    /\ attempt.pc = "ready" /\ FirstRefusal = None
    /\ ClearBlock /\ fault' = None
    /\ attempt' = IF Due THEN [pc |-> "planned", plan |-> Plan, at |-> Facts, text |-> chain.text]
                  ELSE Idle
    /\ UNCHANGED <<chainVars, scoreVars, open, api>>

\* _emit_weight_candidate up to _on_weights_prepared: the vector, the recheck,
\* and the prepared row or the refusal.
Prepare ==
    /\ attempt.pc = "planned"
    /\ \E state \in OwnerStates :
       LET plan == attempt.plan
           units == WeightVector(plan.weights, limits[1], limits[2], plan.groups)
           fits == \/ network = "none"
                   \/ /\ VectorFits(plan, units)
                      /\ \E now \in state : StateHolds(plan, attempt.at, now, units)
       IN /\ attempt' = [pc |-> IF fits THEN "prepared" ELSE "refused", plan |-> plan,
                         at |-> attempt.at, text |-> attempt.text, units |-> units,
                         facts |-> IF network = "none" THEN {attempt.at} ELSE state]
          /\ open' = (open \/ fits)
    /\ UNCHANGED <<chainVars, scoreVars, health, api>>

\* The row of the refusal leaves the summary's open batches alone.
RecordRefused ==
    /\ attempt.pc = "refused"
    /\ attempt' = Idle
    /\ UNCHANGED <<chainVars, scoreVars, health, open, api>>

\* _note_confirmation_state after the prepared row; then the SDK.
NotePrepared ==
    /\ attempt.pc = "prepared"
    /\ Invalidate
    /\ attempt' = [pc |-> "sending"]
    /\ UNCHANGED <<chainVars, scoreVars, health, open>>

\* The outcome is written; a send that failed closes the batch.
RecordOutcome ==
    /\ attempt.pc = "sending"
    /\ open' \in BOOLEAN
    /\ attempt' = [pc |-> "written"]
    /\ UNCHANGED <<chainVars, scoreVars, health, api>>

\* _note_confirmation_state of the outcome, or the end of a reconciliation.
NoteWritten ==
    /\ attempt.pc = "written"
    /\ Invalidate
    /\ attempt' = Idle
    /\ UNCHANGED <<chainVars, scoreVars, health, open>>

\* The chain moves: a slot changes hands, the subnet its owner, a hotkey or the
\* owner its coldkey, the owner its rate, the chain its mind about this validator.
MoveChain ==
    /\ moves < MaxMoves
    /\ moves' = moves + 1
    /\ \/ \E u \in Uids, h \in Hotkeys \ {chain.hotkeys[v] : v \in Uids} :
            chain' = [chain EXCEPT !.hotkeys[u] = h]
       \/ \E h \in Hotkeys : chain' = [chain EXCEPT !.owner = h]
       \/ \E h \in Hotkeys, c \in Coldkeys : chain' = [chain EXCEPT !.cold[h] = c]
       \/ \E c \in Coldkeys : chain' = [chain EXCEPT !.ownerCold = c]
       \/ \E t \in Texts : chain' = [chain EXCEPT !.text = t]
       \/ chain' = [chain EXCEPT !.permit = ~@]
       \/ chain' = [chain EXCEPT !.late = ~@]
    /\ UNCHANGED <<network, limits, scoreVars, attempt, health, open, api>>

Next ==
    \/ Tick \/ Resync \/ Reconcile
    \/ Refresh \/ Abstain \/ AskLedger \/ ReadRaises \/ PlanRefused \/ PlanMade
    \/ Prepare \/ RecordRefused \/ NotePrepared \/ RecordOutcome \/ NoteWritten
    \/ \E r \in Readers : BeginRead(r) \/ ReadLedger(r) \/ Store(r)
    \/ Expire
    \/ MoveChain

Spec == Init /\ [][Next]_vars

-----------------------------------------------------------------------------
(* Properties.                                                             *)

Prepared == attempt.pc = "prepared"

\* What is about to be sent gives the owner what its commitment said, at the
\* slot it holds at the submission block, and everyone else only for scores of
\* the hotkey that holds the slot then, none of it the owner's own: although
\* scores, plan and vector are of earlier moments (recheck_owner_state).  Where
\* there is no owner vote, a chain minimum pads the vector.
SentIsEarned ==
    Prepared /\ (network # "none" \/ limits = Unlimited) =>
      \A f \in attempt.facts :
        LET plan == attempt.plan IN
         /\ \A u \in DOMAIN attempt.units \ {plan.owner} :
              /\ f.hotkeys[u] \in DOMAIN durable.scores
              /\ durable.scores[f.hotkeys[u]] > 0
              /\ network = "none" \/ f.cold[f.hotkeys[u]] # f.ownerCold
         /\ network # "none" =>
              /\ f.hotkeys[plan.owner] = f.owner
              /\ plan.bps \in {BPS, BurnRate(attempt.text)}
              /\ plan.owner \in DOMAIN attempt.units <=> plan.bps > 0
              /\ plan.bps = BPS => DOMAIN attempt.units = {plan.owner}

\* The recheck refuses a vector only for what changed on the chain since the
\* plan, for facts it cannot read again, or for limits it does not know: the
\* rounding of an honest vector, pools included, is never taken for a wrong share
\* (_recheck_owner_burn_share).
HonestVoteIsNotRefused ==
    attempt.pc = "refused" /\ limits = Unlimited => attempt.facts # {attempt.at}

Together(units, uids) == Total([u \in uids \cap DOMAIN units |-> units[u]])
BestAlone(d, pool) == Max({d.scores[h] ^ GAMMA : h \in pool})

\* Copies of one forecast get, together, the units that the best of them alone
\* would round to (duplicate pools, _level_to_best, the encoder's groups).
CopiesEarnAsOne ==
    Prepared /\ limits = Unlimited =>
      LET plan == attempt.plan
          rest == IF network = "none" \/ plan.bps = 0 THEN 1 ELSE BPS - plan.bps
          slots(p) == {u \in Uids \ plan.withheld : local[u] \in p}
      IN plan.bps # BPS =>
           \A p \in pools :
             Cardinality(slots(p)) = Cardinality(p) =>
               Together(attempt.units, slots(p))
               = HalfUp(rest * CUT * BestAlone(durable, p) * U16_MAX, Largest(plan.weights))

\* A fault that must page at once does, until a plan or an abstention ends it,
\* even while score reads fail on top of it (_emission_block_underlying).
FaultStillPages == fault \in Immediate => PagesAtOnce

\* Outside the moments between a write and its note, the cache serves what the
\* ledger holds, however reads of API threads interleave with the writes.
ServedIsCurrent ==
    cache.current /\ attempt.pc \notin {"prepared", "written"} => cache.summary = open
=============================================================================
