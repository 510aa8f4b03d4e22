---------------------------- MODULE EmissionVote ----------------------------
(***************************************************************************)
(* What one vote is made of, as pure functions: the pools of identical     *)
(* forecasts (scoring/duplicates.py), the earned weights (weights.py), the *)
(* owner's burn and the checks of a plan (emission_policy.py), the chain's *)
(* limits and the u16 form (weight_processing.py).                         *)
(*                                                                         *)
(* A vector of weights holds natural numerators over a denominator of its  *)
(* own: every step of the code depends on ratios only.  The code rounds    *)
(* quotients to 28 digits, which the model does not.                       *)
(***************************************************************************)
EXTENDS Integers, FiniteSetsExt, SequencesExt, Totals

CONSTANTS
    Size,       \* UIDs of the subnet
    U16_MAX,    \* largest unit of the chain
    BPS,        \* BURN_BPS_DENOMINATOR
    GAMMA,      \* WEIGHT_SHARPENING_GAMMA
    PAD,        \* 1 / MIN_NON_ZERO_WEIGHT
    CUT         \* a multiple of every pool size: keeps a pool's cut a number

ASSUME VoteAssumption ==
    /\ {Size, U16_MAX, BPS, GAMMA, PAD, CUT} \subseteq Nat \ {0}
    /\ \A n \in 1 .. Size : CUT % n = 0
    \* the lowest rate is no less than half a unit: 10000 against 2 * 65535
    /\ BPS <= 2 * U16_MAX

Uids == 0 .. Size - 1
Zero == [u \in Uids |-> 0]
Largest(w) == Max({w[u] : u \in DOMAIN w} \cup {0})
HalfUp(n, d) == (2 * n + d) \div (2 * d)

-----------------------------------------------------------------------------
(* Pools.  A round is the set of its groups, a window a sequence of rounds *)
(* with the newest first.                                                  *)

\* identical_forecast_groups: hotkeys that submitted the same values, if any.
IdenticalGroups(values, none) ==
    LET same(h) == {g \in DOMAIN values : values[g] = values[h]}
    IN {same(h) : h \in {k \in DOMAIN values : values[k] # none /\ Cardinality(same(k)) > 1}}

Joined(group, scored, h) == h \in group \cap scored /\ Cardinality(group \cap scored) > 1

\* Each hotkey is assigned to the oldest group it joined.
Assigned(ages) == Max(ages)

\* duplicate_pools
DuplicatePools(window, scored) ==
    LET ages(h) == {i \in DOMAIN window : \E g \in window[i] : Joined(g, scored, h)}
        pooled == {h \in scored : ages(h) # {}}
        home(h) == LET i == Assigned(ages(h))
                   IN <<i, CHOOSE g \in window[i] : Joined(g, scored, h)>>
    IN {p \in {{k \in pooled : home(k) = home(h)} : h \in pooled} : Cardinality(p) > 1}

\* What every member with at least v gives up, for them to have together what the
\* best member has.
Cut(members, v) ==
    LET above == {h \in DOMAIN members : members[h] >= v}
    IN (Total([h \in above |-> members[h]]) - Largest(members)) \div Cardinality(above)

\* The loop over the members, largest first: it goes on as long as the next one has
\* more than the cut that would then be made.
Level(members) ==
    LET sharing == {members[h] : h \in {k \in DOMAIN members : members[k] > Cut(members, members[k])}}
    IN IF sharing = {} THEN 0 ELSE Cut(members, Min(sharing))

\* _level_to_best
LevelToBest(members) ==
    LET level == Level(members)
    IN [h \in DOMAIN members |-> IF members[h] > level THEN members[h] - level ELSE 0]

\* normalize_weights, up to its common denominator.
EarnedWeights(scores, pools) ==
    LET powered == [h \in DOMAIN scores |-> CUT * scores[h] ^ GAMMA]
        of(h) == {p \in pools : h \in p}
    IN [h \in DOMAIN scores |->
          IF of(h) = {} THEN powered[h]
          ELSE LET p == CHOOSE q \in of(h) : TRUE
               IN LevelToBest([k \in p \cap DOMAIN scores |-> powered[k]])[h]]

-----------------------------------------------------------------------------
(* The owner's share.                                                      *)

OneHot(owner) == [u \in Uids |-> IF u = owner THEN 1 ELSE 0]

\* owner_burn_weights: the published rate, and the earned rest.
OwnerBurnWeights(earned, owner, bps) ==
    [u \in Uids |-> IF u = owner THEN bps * Total(earned) ELSE (BPS - bps) * earned[u]]

\* _vote_network_weights: weights and the owner's share.
VoteNetworkWeights(earned, owner, bps) ==
    IF Total(earned) = 0 \/ bps = BPS THEN [weights |-> OneHot(owner), bps |-> BPS]
    ELSE [weights |-> IF bps = 0 THEN earned ELSE OwnerBurnWeights(earned, owner, bps),
          bps |-> bps]

\* parse_burn_rate of what commitment_text decodes: what is no rate burns all.
BurnRate(text) == IF text \in 0 .. BPS THEN text ELSE BPS

-----------------------------------------------------------------------------
(* Chain limits and units.  A limit is a fraction <<n, d>>.                *)

\* normalize_max_weight: uniform when no cap is feasible, otherwise whoever is
\* above the cut-off is brought down to it.  The 1e-7 that the code adds to a
\* denominator decides only that a share equal to the cap is below it.
Capped(w, limit) ==
    LET uids == DOMAIN w
        k == Cardinality(uids)
        below(u) == {v \in uids : w[v] < w[u]}
        upto(u) == MapThenSumSet(LAMBDA v : w[v], {v \in uids : w[v] <= w[u]})
        n == Cardinality({u \in uids :
               w[u] * limit[2] <= limit[1] *
                 (upto(u) + w[u] * Cardinality({v \in uids : w[v] > w[u]}))})
        small == CHOOSE s \in SUBSET uids :
                   Cardinality(s) = n /\ \A u \in s, v \in uids \ s : w[u] <= w[v]
        rest == limit[2] - limit[1] * (k - n)
    IN IF Total(w) = 0 \/ k * limit[1] <= limit[2] THEN [u \in uids |-> 1]
       ELSE IF Largest(w) * limit[2] <= limit[1] * Total(w) \/ n = 0 \/ rest <= 0 THEN w
       ELSE LET cutoff == limit[1] * MapThenSumSet(LAMBDA u : w[u], small)
            IN [u \in uids |-> Min({w[u] * rest, cutoff})]

\* process_weights with no quantile excluded: too few weights are padded.
ProcessWeights(w, minAllowed, limit) ==
    LET positive == {u \in DOMAIN w : w[u] > 0}
    IN IF positive = {} \/ Size < minAllowed THEN [u \in Uids |-> 1]
       ELSE IF Cardinality(positive) < minAllowed
       THEN Capped([u \in Uids |-> w[u] * PAD + Total(w)], limit)
       ELSE Capped([u \in positive |-> w[u]], limit)

\* Mutant: every member of a pool rounds on its own.
PoolUnitsAlone(w, top, pool) ==
    [u \in ToSet(pool) \cap DOMAIN w |-> HalfUp(w[u] * U16_MAX, top)]

\* What rounding down leaves of a weight, in parts of the largest.
Remainder(w, top, u) == (w[u] * U16_MAX) % top

\* Largest remainders first, ties in the pool's order.
Ahead(w, top, pool, u) ==
    LET place(v) == CHOOSE i \in DOMAIN pool : pool[i] = v
    IN {v \in ToSet(pool) \cap DOMAIN w :
          \/ Remainder(w, top, v) > Remainder(w, top, u)
          \/ Remainder(w, top, v) = Remainder(w, top, u) /\ place(v) < place(u)}

\* The present members of a pool have the units one entry with their total would:
\* those that the remainders round to go to the largest of them.
PoolUnits(w, top, pool) ==
    LET present == ToSet(pool) \cap DOMAIN w
        spare == HalfUp(Total([u \in present |-> Remainder(w, top, u)]), top)
    IN [u \in present |-> (w[u] * U16_MAX) \div top
                          + IF Cardinality(Ahead(w, top, pool, u)) < spare THEN 1 ELSE 0]

\* The unit of a UID, alone or among the present members of its pool.
Unit(w, groups, u) ==
    LET top == Largest(w)
        of == {g \in groups : u \in ToSet(g)}
    IN IF of = {} THEN HalfUp(w[u] * U16_MAX, top)
       ELSE PoolUnits(w, top, CHOOSE g \in of : TRUE)[u]

\* convert_weights_and_uids_for_emit: zeros are left out.
Units(w, groups) ==
    LET encoded == {u \in DOMAIN w : Unit(w, groups, u) > 0}
    IN IF Total(w) = 0 THEN <<>> ELSE [u \in encoded |-> Unit(w, groups, u)]

\* chain_weight_vector
WeightVector(w, minAllowed, limit, groups) ==
    Units(ProcessWeights(w, minAllowed, limit), groups)

Apart(x, y) == IF x >= y THEN x - y ELSE y - x

\* Mutant: the share must be exact.
ShareToleranceNone(n) == 0

\* Half a unit for each UID and half for the largest, over the denominator.
ShareTolerance(n) == BPS * (n + 1)

\* _recheck_owner_burn_share
ShareIsBurned(units, owner, bps) ==
    /\ DOMAIN units # {} /\ Largest(units) = U16_MAX
    /\ bps > 0 =>
         /\ owner \in DOMAIN units
         /\ 2 * Apart(BPS * units[owner], bps * Total(units)) <= ShareTolerance(Size)
=============================================================================
