------------------------ MODULE EmissionAttemptProofs ------------------------
(***************************************************************************)
(* Theorems about EmissionAttempt for any subnet, limits, owners, burn     *)
(* rates and earnings, any number of chain changes and of API threads.     *)
(***************************************************************************)
EXTENDS EmissionAttempt, TotalsProofs

-----------------------------------------------------------------------------
(***************************************************************************)
(* The inductive invariant.                                                *)
(***************************************************************************)
Deciding == {"refreshed", "ready", "planned", "prepared", "refused"}

\* A positive score is a positive durable score of the hotkey that the local
\* metagraph has at the slot.
ScoresAreEarned ==
    /\ scores \in [Uids -> Nat] /\ durable \in Earnings
    /\ attempt.pc \in Deciding =>
         \A u \in Uids : scores[u] > 0 =>
           local[u] \in DOMAIN durable.scores /\ durable.scores[local[u]] > 0

\* What a plan pays it pays for such a score, but for the owner's slot, which is
\* the owner's in the metagraph and on the chain of the plan.
PlanPays(plan) ==
    /\ plan.weights \in [Uids -> Nat]
    /\ \E u \in Uids : plan.weights[u] > 0
    /\ \A u \in Uids \ {plan.owner} : plan.weights[u] > 0 => scores[u] > 0

PlanIsSound ==
    /\ attempt.pc = "ready" /\ network = "none" => \E u \in Uids : scores[u] > 0
    /\ attempt.pc = "planned" =>
      LET plan == attempt.plan IN
      IF network = "none"
      THEN /\ PlanPays(plan) /\ plan.owner = -1
           /\ \A u \in Uids : scores[u] > 0 => attempt.at.hotkeys[u] = local[u]
      ELSE /\ plan.owner \in Uids /\ plan.owner \in plan.withheld
           /\ local[plan.owner] = attempt.at.owner
           /\ plan.bps \in {BPS, BurnRate(attempt.text)}
           /\ plan.bps # BPS => PlanPays(plan)

\* Only a failed score read parks a fault, and none is parked while a plan is
\* decided.
ParkedBelow ==
    /\ underlying # ScoreUnavailable
    /\ underlying # None => block = ScoreUnavailable
    /\ attempt.pc \in {"refreshed", "ready"} => block # ScoreUnavailable

ReaderTypes ==
    /\ open \in BOOLEAN
    /\ reader \in [Readers -> [pc : {"idle", "reading", "read"}, summary : BOOLEAN,
                               current : BOOLEAN]]

\* Outside the moments between a write and its note, whatever was read under the
\* current generation is what the ledger holds.
Noted == attempt.pc \notin {"prepared", "written"}
ReadIsCurrent ==
    Noted => \A r \in Readers :
               reader[r].pc = "read" /\ reader[r].current => reader[r].summary = open

AttemptInv ==
    /\ ScoresAreEarned /\ PlanIsSound /\ SentIsEarned
    /\ ParkedBelow /\ FaultStillPages
    /\ ReaderTypes /\ ReadIsCurrent /\ ServedIsCurrent

-----------------------------------------------------------------------------
(***************************************************************************)
(* What is earned.                                                         *)
(***************************************************************************)
LEMMA LargestIsNat ==
    ASSUME NEW S, IsFiniteSet(S), NEW w \in [S -> Nat]
    PROVE  Largest(w) \in Nat
<1> DEFINE T == {w[u] : u \in DOMAIN w} \cup {0}
<1>1. IsFiniteSet({w[u] : u \in S})
  BY FiniteImage
<1>2. IsFiniteSet(T) /\ T \in SUBSET Nat /\ T # {} /\ T \in SUBSET Int
  BY <1>1, FS_AddElement
<1>3. Largest(w) = Max(T)
  BY DEF Largest
<1> HIDE DEF T
<1> QED
  BY <1>2, <1>3, FiniteExtremes

LEMMA CutIsInt ==
    ASSUME NEW S, IsFiniteSet(S), NEW m \in [S -> Nat], NEW h \in S
    PROVE  Cut(m, m[h]) \in Int
<1> DEFINE above == {k \in DOMAIN m : m[k] >= m[h]}
<1>1. above \in SUBSET S /\ h \in above
  OBVIOUS
<1>2. IsFiniteSet(above) /\ Cardinality(above) \in Nat /\ Cardinality(above) # 0
  BY <1>1, FS_Subset, FS_CardinalityType, FS_EmptySet
<1>3. [k \in above |-> m[k]] \in [above -> Nat]
  OBVIOUS
<1> DEFINE t == Total([k \in above |-> m[k]])
           b == Largest(m)
           n == Cardinality(above)
<1>4. t \in Nat /\ b \in Nat
  BY <1>2, <1>3, TotalIsNat, LargestIsNat
<1>5. Cut(m, m[h]) = (t - b) \div n
  BY DEF Cut
<1> HIDE DEF t, b, n, above
<1>6. n \in Nat /\ n > 0 /\ t - b \in Int
  BY <1>2, <1>4 DEF n
<1> QED
  BY <1>5, <1>6

LEMMA LevelledIsNat ==
    ASSUME NEW S, IsFiniteSet(S), NEW m \in [S -> Nat], NEW h \in S
    PROVE  LevelToBest(m)[h] \in Nat
<1> DEFINE share == {k \in DOMAIN m : m[k] > Cut(m, m[k])}
           sharing == {m[k] : k \in share}
<1>1. Level(m) = IF sharing = {} THEN 0 ELSE Cut(m, Min(sharing))
  BY DEF Level
<1>2. sharing # {} => \E k \in S : Min(sharing) = m[k]
  <2> SUFFICES ASSUME sharing # {} PROVE \E k \in S : Min(sharing) = m[k]
    OBVIOUS
  <2>1. share \in SUBSET S
    OBVIOUS
  <2>2. IsFiniteSet(share)
    BY <2>1, FS_Subset
  <2> HIDE DEF share
  <2>3. IsFiniteSet(sharing) /\ sharing \in SUBSET Int
    BY <2>1, <2>2, FiniteImage
  <2>4. Min(sharing) \in sharing
    BY <2>3, FiniteExtremes
  <2> QED
    BY <2>1, <2>4
<1> HIDE DEF sharing
<1>3. Level(m) \in Int
  BY <1>1, <1>2, CutIsInt
<1>4. LevelToBest(m)[h] = IF m[h] > Level(m) THEN m[h] - Level(m) ELSE 0
  BY DEF LevelToBest
<1> QED
  BY <1>3, <1>4

LEMMA PoolsAreScored ==
    ASSUME NEW window, NEW scored, NEW p \in DuplicatePools(window, scored)
    PROVE  p \subseteq scored
  BY DEF DuplicatePools

\* A weight is a number, and positive for a positive score only.
LEMMA WeightsAreEarned ==
    ASSUME NEW d \in Earnings, NEW l,
           NEW h \in DOMAIN EarnedWeights(Blended(d, l), ScoredPools(d, l))
    PROVE  LET weight == EarnedWeights(Blended(d, l), ScoredPools(d, l))[h] IN
           /\ h \in DOMAIN d.scores
           /\ weight \in Nat
           /\ weight > 0 => d.scores[h] > 0
<1> DEFINE D == DOMAIN Blended(d, l)
           powered == [k \in D |-> CUT * Blended(d, l)[k] ^ GAMMA]
           of(k) == {p \in ScoredPools(d, l) : k \in p}
<1>1. D \subseteq DOMAIN d.scores /\ \A k \in D : Blended(d, l)[k] = d.scores[k]
  BY DEF Blended
<1>2. EarnedWeights(Blended(d, l), ScoredPools(d, l)) =
        [k \in D |-> IF of(k) = {} THEN powered[k]
                     ELSE LET p == CHOOSE q \in of(k) : TRUE
                          IN LevelToBest([j \in p \cap D |-> powered[j]])[k]]
  BY DEF EarnedWeights
<1>3. h \in D /\ h \in DOMAIN d.scores
  BY <1>1, <1>2
<1>4. \A k \in D : powered[k] \in Nat /\ (powered[k] > 0 => d.scores[k] > 0)
  <2> SUFFICES ASSUME NEW k \in D
               PROVE  powered[k] \in Nat /\ (powered[k] > 0 => d.scores[k] > 0)
    OBVIOUS
  <2>1. /\ d.scores[k] \in Nat /\ d.scores[k] ^ GAMMA \in Nat
        /\ d.scores[k] = 0 => d.scores[k] ^ GAMMA = 0
    BY <1>1, AttemptAssumption, SharpeningAssumption
  <2>2. PICK x \in Nat : x = d.scores[k] ^ GAMMA
    BY <2>1
  <2>3. Blended(d, l)[k] = d.scores[k]
    BY <1>1
  <2>4. CUT \in Nat /\ powered[k] = CUT * x
    BY <2>2, <2>3, VoteAssumption
  <2> QED
    BY <2>1, <2>2, <2>4
<1>5. IsFiniteSet(D)
  BY <1>1, AttemptAssumption, FS_Subset
<1> HIDE DEF powered, D
<1>6. CASE of(h) = {}
  BY <1>2, <1>3, <1>4, <1>6
<1>7. CASE of(h) # {}
  <2> DEFINE p == CHOOSE q \in of(h) : TRUE
  <2>1. p \in ScoredPools(d, l) /\ h \in p
    BY <1>7
  <2> HIDE DEF p
  <2>2. p \subseteq {k \in D : d.scores[k] > 0}
    <3>1. p \subseteq {k \in DOMAIN Blended(d, l) : Blended(d, l)[k] > 0}
      BY <2>1, PoolsAreScored DEF ScoredPools
    <3> QED
      BY <1>1, <3>1 DEF D
  <2> DEFINE S == p \cap D
             m == [j \in S |-> powered[j]]
  <2>3. IsFiniteSet(S) /\ m \in [S -> Nat] /\ h \in S
    BY <1>3, <1>4, <1>5, <2>1, FS_Subset
  <2> HIDE DEF S
  <2>4. LevelToBest(m)[h] \in Nat
    <3> HIDE DEF m
    <3> QED
      BY <2>3, LevelledIsNat
  <2>5. EarnedWeights(Blended(d, l), ScoredPools(d, l))[h] = LevelToBest(m)[h]
    BY <1>2, <1>3, <1>7 DEF p, S
  <2> QED
    BY <1>3, <2>1, <2>2, <2>4, <2>5
<1> QED
  BY <1>6, <1>7

-----------------------------------------------------------------------------
(***************************************************************************)
(* The vector, and the plan it is made from.                               *)
(***************************************************************************)
LEMMA UidsAreFinite == IsFiniteSet(Uids)
<1>1. 0 \in Int /\ Size - 1 \in Int
  BY VoteAssumption
<1> QED
  BY <1>1, FS_Interval DEF Uids

\* Without chain limits only positive weights are sent.
LEMMA VectorIsPositive ==
    ASSUME NEW w \in [Uids -> Nat], \E u \in Uids : w[u] > 0, NEW groups
    PROVE  DOMAIN WeightVector(w, Unlimited[1], Unlimited[2], groups)
             \subseteq {u \in Uids : w[u] > 0}
<1> DEFINE positive == {u \in DOMAIN w : w[u] > 0}
           x == ProcessWeights(w, 1, <<1, 1>>)
<1>1. positive # {} /\ positive \in SUBSET Uids
  OBVIOUS
<1>2. Cardinality(positive) \in Nat /\ Cardinality(positive) # 0
  BY <1>1, UidsAreFinite, FS_Subset, FS_CardinalityType, FS_EmptySet
<1>3. x = Capped([u \in positive |-> w[u]], <<1, 1>>)
  <2>1. ~(Cardinality(positive) < 1) /\ ~(Size < 1)
    BY <1>2, VoteAssumption
  <2> QED
    BY <1>1, <2>1 DEF ProcessWeights
<1>4. DOMAIN x = positive
  BY <1>3 DEF Capped
<1>5. DOMAIN Units(x, groups) \subseteq DOMAIN x
  <2> HIDE DEF x
  <2> QED
    BY DEF Units
<1>6. WeightVector(w, Unlimited[1], Unlimited[2], groups) = Units(x, groups)
  BY DEF WeightVector, Unlimited
<1> QED
  BY <1>4, <1>5, <1>6

\* A plan that no check refused.
LEMMA NoRefusal ==
    /\ FirstRefusal # ScoreUnavailable
    /\ FirstRefusal = None =>
         /\ Mode = "scored" => \A u \in Uids : scores[u] > 0 => local[u] = chain.hotkeys[u]
         /\ network # "none" => OwnerUids # {} /\ LocalOwnerAgrees
<1> DEFINE raised == {i \in DOMAIN Refusals : Refusals[i][1]}
<1>1. DOMAIN Refusals = 1 .. 5
  BY DEF Refusals
<1>2. \A i \in 1 .. 5 : Refusals[i][2] \notin {None, ScoreUnavailable}
  BY DEF Refusals, None, ScoreUnavailable
<1>3. raised # {} => Min(raised) \in 1 .. 5
  <2> SUFFICES ASSUME raised # {} PROVE Min(raised) \in 1 .. 5
    OBVIOUS
  <2>1. raised \in SUBSET (1 .. 5) /\ raised \in SUBSET Int
    BY <1>1
  <2>2. IsFiniteSet(1 .. 5)
    <3>1. 1 \in Int /\ 5 \in Int
      OBVIOUS
    <3> QED
      BY <3>1, FS_Interval
  <2> HIDE DEF raised
  <2>3. IsFiniteSet(raised)
    BY <2>1, <2>2, FS_Subset
  <2> QED
    BY <2>1, <2>3, FiniteExtremes
<1>4. FirstRefusal = IF raised = {} THEN None ELSE Refusals[Min(raised)][2]
  BY DEF FirstRefusal
<1>5. FirstRefusal # ScoreUnavailable /\ (FirstRefusal = None => raised = {})
  <2> HIDE DEF raised
  <2> QED
    BY <1>2, <1>3, <1>4 DEF None, ScoreUnavailable
<1>6. raised = {} => ~Refusals[1][1] /\ ~Refusals[3][1] /\ ~Refusals[4][1]
  BY <1>1
<1>7. ~Refusals[1][1] => ~(Mode = "scored" /\ \E u \in Uids : scores[u] > 0 /\ local[u] # chain.hotkeys[u])
  BY Zenon DEF Refusals
<1>8. ~Refusals[3][1] => ~(network # "none" /\ OwnerUids = {})
  BY Zenon DEF Refusals
<1>9. ~Refusals[4][1] => ~(network # "none" /\ OwnerUids # {} /\ ~LocalOwnerAgrees)
  BY Zenon DEF Refusals
<1> QED
  BY <1>5, <1>6, <1>7, <1>8, <1>9

\* A share below the whole leaves something for someone who earned it.
LEMMA VotePays ==
    ASSUME NEW earned \in [Uids -> Nat], NEW owner \in Uids, NEW bps \in 0 .. BPS, bps # BPS,
           Total(earned) > 0, earned[owner] = 0
    PROVE  LET vote == VoteNetworkWeights(earned, owner, bps) IN
           /\ vote.bps = bps /\ vote.weights \in [Uids -> Nat]
           /\ \E u \in Uids : vote.weights[u] > 0
           /\ \A u \in Uids \ {owner} : vote.weights[u] > 0 => earned[u] > 0
<1> USE VoteAssumption
<1>1. Total(earned) \in Nat /\ Total(earned) # 0 /\ \E u \in Uids : earned[u] > 0
  BY UidsAreFinite, TotalIsNat
<1>2. VoteNetworkWeights(earned, owner, bps) =
        [weights |-> IF bps = 0 THEN earned ELSE OwnerBurnWeights(earned, owner, bps),
         bps |-> bps]
  BY <1>1 DEF VoteNetworkWeights
<1>3. PICK rest \in Nat : rest = BPS - bps /\ rest > 0
  BY DEF VoteNetworkWeights
<1>4. CASE bps = 0
  BY <1>1, <1>2, <1>4
<1>5. CASE bps # 0
  <2> DEFINE w == OwnerBurnWeights(earned, owner, bps)
  <2>1. \A u \in Uids : w[u] = IF u = owner THEN bps * Total(earned) ELSE rest * earned[u]
    BY <1>3 DEF OwnerBurnWeights
  <2>2. DOMAIN w = Uids
    BY DEF OwnerBurnWeights
  <2>3. PICK t \in Nat : t = Total(earned) /\ t > 0
    BY <1>1
  <2>4. bps * t \in Nat
    BY <2>3
  <2>5. ASSUME NEW u \in Uids, u # owner
        PROVE  w[u] \in Nat /\ (w[u] > 0 <=> earned[u] > 0)
    <3>1. PICK e \in Nat : e = earned[u]
      OBVIOUS
    <3>2. w[u] = rest * e
      BY <2>1, <2>5, <3>1
    <3>3. rest * e \in Nat /\ (e = 0 => rest * e = 0) /\ (e > 0 => rest * e > 0)
      BY <1>3
    <3> QED
      BY <3>1, <3>2, <3>3
  <2>6. w[owner] \in Nat
    BY <2>1, <2>3, <2>4
  <2>7. w \in [Uids -> Nat]
    <3>1. \A u \in Uids : w[u] \in Nat
      BY <2>5, <2>6
    <3>2. w = [u \in Uids |-> w[u]]
      BY DEF OwnerBurnWeights
    <3> QED
      BY <3>1, <3>2
  <2>8. \E u \in Uids : w[u] > 0
    <3>1. PICK u \in Uids : earned[u] > 0
      BY <1>1
    <3>2. u # owner
      BY <3>1
    <3> QED
      BY <2>5, <3>1, <3>2
  <2> HIDE DEF w
  <2>9. VoteNetworkWeights(earned, owner, bps) = [weights |-> w, bps |-> bps]
    BY <1>2, <1>5 DEF w
  <2> QED
    BY <2>5, <2>7, <2>8, <2>9
<1> QED
  BY <1>4, <1>5

LEMMA PlanIsMadeSound ==
    ASSUME ScoresAreEarned, FirstRefusal = None,
           network = "none" => \E u \in Uids : scores[u] > 0,
           NEW plan, plan = Plan
    PROVE  IF network = "none"
           THEN /\ PlanPays(plan) /\ plan.owner = -1
                /\ \A u \in Uids : scores[u] > 0 => Facts.hotkeys[u] = local[u]
           ELSE /\ plan.owner \in Uids /\ plan.owner \in plan.withheld
                /\ local[plan.owner] = Facts.owner
                /\ plan.bps \in {BPS, BurnRate(chain.text)}
                /\ plan.bps # BPS => PlanPays(plan)
<1>1. scores \in [Uids -> Nat]
  BY DEF ScoresAreEarned
<1>2. CASE network = "none"
  <2>1. Mode = "scored"
    BY <1>2 DEF Mode
  <2>2. \A u \in Uids : scores[u] > 0 => Facts.hotkeys[u] = local[u]
    BY <2>1, NoRefusal DEF Facts
  <2>3. plan.weights = scores /\ plan.owner = -1
    BY <1>2 DEF Plan
  <2> QED
    BY <1>1, <1>2, <2>2, <2>3 DEF PlanPays
<1>3. CASE network # "none"
  <2>1. OwnerUids # {} /\ LocalOwnerAgrees
    BY <1>3, NoRefusal
  <2>2. OwnerUid \in Uids /\ chain.hotkeys[OwnerUid] = chain.owner
    BY <2>1 DEF OwnerUids, OwnerUid
  <2>3. PICK owner \in Uids : owner = OwnerUid
    BY <2>2
  <2>4. local[owner] = Facts.owner
    BY <2>1, <2>3 DEF LocalOwnerAgrees, Facts
  <2> DEFINE withheld == IF Mode = "scored" THEN Withheld ELSE {OwnerUid}
             vote == VoteNetworkWeights(Earned, OwnerUid, ObservedBurnRate)
  <2>5. /\ plan.weights = vote.weights /\ plan.bps = vote.bps /\ plan.owner = owner
        /\ plan.withheld = withheld
    BY <1>3, <2>3 DEF Plan
  <2>6. owner \in withheld
    BY <2>3 DEF Withheld
  <2>7. ObservedBurnRate \in {BPS, BurnRate(chain.text)} /\ BurnRate(chain.text) \in 0 .. BPS
    BY VoteAssumption DEF ObservedBurnRate, BurnRate
  <2>8. vote.bps \in {BPS, ObservedBurnRate}
    BY DEF VoteNetworkWeights
  <2>9. ASSUME vote.bps # BPS PROVE PlanPays(plan)
    <3>1. ObservedBurnRate # BPS
      BY <2>8, <2>9
    <3>2. AsksRate
      BY <3>1 DEF ObservedBurnRate
    <3>3. Total(Earned) > 0 /\ Mode = "scored"
      BY <3>2 DEF AsksRate
    <3>4. Earned \in [Uids -> Nat] /\ \A u \in Uids : Earned[u] > 0 => scores[u] > 0
      BY <1>1 DEF Earned
    <3>5. Earned[owner] = 0
      BY <2>3, <3>3 DEF Earned, Withheld
    <3>6. PICK earned \in [Uids -> Nat], bps \in 0 .. BPS :
            earned = Earned /\ bps = ObservedBurnRate /\ bps # BPS
      BY <2>7, <3>1, <3>4
    <3>7. vote = VoteNetworkWeights(earned, owner, bps)
      BY <2>3, <3>6
    <3> HIDE DEF vote
    <3>8. /\ vote.weights \in [Uids -> Nat] /\ \E u \in Uids : vote.weights[u] > 0
          /\ \A u \in Uids \ {owner} : vote.weights[u] > 0 => earned[u] > 0
      BY <3>3, <3>5, <3>6, <3>7, VotePays
    <3> QED
      BY <2>5, <3>4, <3>6, <3>8 DEF PlanPays
  <2> HIDE DEF vote, withheld
  <2> QED
    BY <1>3, <2>4, <2>5, <2>6, <2>7, <2>8, <2>9
<1> QED
  BY <1>2, <1>3

-----------------------------------------------------------------------------
(***************************************************************************)
(* The scores, the plan and the vector along an attempt.                   *)
(***************************************************************************)
LEMMA AppliedAreEarned ==
    ASSUME NEW d \in Earnings, NEW l, ApplyWeights(d, l)
    PROVE  /\ scores' \in [Uids -> Nat]
           /\ \A u \in Uids : scores'[u] > 0 => l[u] \in DOMAIN d.scores /\ d.scores[l[u]] > 0
<1> DEFINE w == EarnedWeights(Blended(d, l), ScoredPools(d, l))
<1>1. scores' = [u \in Uids |-> IF l[u] \in DOMAIN w THEN w[l[u]] ELSE 0]
  BY DEF ApplyWeights
<1>2. \A h \in DOMAIN w : h \in DOMAIN d.scores /\ w[h] \in Nat /\ (w[h] > 0 => d.scores[h] > 0)
  BY WeightsAreEarned
<1> HIDE DEF w
<1>3. \A u \in Uids : l[u] \in DOMAIN w => w[l[u]] \in Nat
  BY <1>2
<1>4. scores' \in [Uids -> Nat]
  BY <1>1, <1>3
<1> QED
  BY <1>1, <1>2, <1>4

\* How the steps move an attempt, and what they leave alone under it.
Waits == \/ \E r \in Readers : BeginRead(r) \/ ReadLedger(r) \/ Store(r)
         \/ Expire \/ MoveChain \/ UNCHANGED vars

LEMMA WaitsKeep ==
    ASSUME Waits
    PROVE  attempt' = attempt /\ UNCHANGED <<network, limits, scoreVars>>
<1>1. CASE \E r \in Readers : BeginRead(r) \/ ReadLedger(r) \/ Store(r)
  BY <1>1 DEF BeginRead, ReadLedger, Store, chainVars, scoreVars
<1>2. CASE Expire \/ MoveChain \/ UNCHANGED vars
  BY <1>2 DEF Expire, MoveChain, vars, chainVars, scoreVars
<1> QED
  BY <1>1, <1>2 DEF Waits

\* The vector that is rechecked, what of the chain the recheck saw, and its verdict.
LEMMA PrepareMakes ==
    ASSUME Prepare
    PROVE  /\ attempt.pc = "planned"
           /\ \E state \in OwnerStates, fits \in BOOLEAN :
                /\ attempt'.units = WeightVector(attempt.plan.weights, limits[1], limits[2],
                                                 attempt.plan.groups)
                /\ fits => \/ network = "none"
                           \/ /\ VectorFits(attempt.plan, attempt'.units)
                              /\ \E now \in state :
                                   StateHolds(attempt.plan, attempt.at, now, attempt'.units)
                /\ attempt'.pc = IF fits THEN "prepared" ELSE "refused"
                /\ attempt'.plan = attempt.plan /\ attempt'.at = attempt.at
                /\ attempt'.text = attempt.text
                /\ attempt'.facts = IF network = "none" THEN {attempt.at} ELSE state
                /\ open' = (open \/ fits)
<1>1. attempt.pc = "planned"
  BY DEF Prepare
<1> DEFINE vector == WeightVector(attempt.plan.weights, limits[1], limits[2],
                                  attempt.plan.groups)
           holds(state, units) ==
             \/ network = "none"
             \/ /\ VectorFits(attempt.plan, units)
                /\ \E now \in state : StateHolds(attempt.plan, attempt.at, now, units)
<1>2. PICK state \in OwnerStates :
        /\ attempt' = [pc |-> IF holds(state, vector) THEN "prepared" ELSE "refused",
                       plan |-> attempt.plan, at |-> attempt.at, text |-> attempt.text,
                       units |-> vector,
                       facts |-> IF network = "none" THEN {attempt.at} ELSE state]
        /\ open' = (open \/ holds(state, vector))
  BY Zenon DEF Prepare
<1>3. PICK fits \in BOOLEAN : fits <=> holds(state, vector)
  BY Zenon
<1> HIDE DEF holds
<1>4. attempt' = [pc |-> IF fits THEN "prepared" ELSE "refused",
                  plan |-> attempt.plan, at |-> attempt.at, text |-> attempt.text,
                  units |-> vector,
                  facts |-> IF network = "none" THEN {attempt.at} ELSE state]
  BY <1>2, <1>3
<1>5. open' = (open \/ fits)
  BY <1>2, <1>3
<1>6. fits => \/ network = "none"
             \/ /\ VectorFits(attempt.plan, vector)
                /\ \E now \in state : StateHolds(attempt.plan, attempt.at, now, vector)
  BY <1>3, Zenon DEF holds
<1> HIDE DEF vector
<1> QED
  BY <1>1, <1>4, <1>5, <1>6 DEF vector

LEMMA AttemptMoves ==
    /\ Tick => attempt.pc = "idle" /\ attempt' = attempt
    /\ Resync => attempt.pc = "idle" /\ attempt'.pc = "synced"
    /\ Refresh => attempt.pc = "idle" /\ (attempt' = attempt \/ attempt'.pc = "refreshed")
    /\ Reconcile => attempt.pc = "synced" /\ attempt'.pc = "written"
    /\ Abstain => attempt.pc = "refreshed" /\ attempt'.pc = "idle"
    /\ AskLedger => attempt.pc = "refreshed" /\ attempt'.pc \in {"idle", "ready"}
    /\ ReadRaises => attempt.pc \in {"ready", "planned"} /\ attempt'.pc = "idle"
    /\ PlanRefused => attempt.pc = "ready" /\ attempt'.pc = "idle"
    /\ PlanMade => attempt.pc = "ready" /\ attempt'.pc \in {"idle", "planned"}
    /\ Prepare => attempt.pc = "planned" /\ attempt'.pc \in {"prepared", "refused"}
    /\ RecordRefused => attempt.pc = "refused" /\ attempt'.pc = "idle"
    /\ NotePrepared => attempt.pc = "prepared" /\ attempt'.pc = "sending"
    /\ RecordOutcome => attempt.pc = "sending" /\ attempt'.pc = "written"
    /\ NoteWritten => attempt.pc = "written" /\ attempt'.pc = "idle"
<1>1. Idle.pc = "idle"
  BY DEF Idle
<1>2. Tick => attempt.pc = "idle" /\ attempt' = attempt
  BY <1>1 DEF Tick
<1>3. Resync => attempt.pc = "idle" /\ attempt'.pc = "synced"
  BY <1>1 DEF Resync
<1>4. Refresh => attempt.pc = "idle" /\ (attempt' = attempt \/ attempt'.pc = "refreshed")
  BY <1>1 DEF Refresh
<1>5. Reconcile => attempt.pc = "synced" /\ attempt'.pc = "written"
  BY DEF Reconcile
<1>6. Abstain => attempt.pc = "refreshed" /\ attempt'.pc = "idle"
  BY <1>1 DEF Abstain
<1>7. AskLedger => attempt.pc = "refreshed" /\ attempt'.pc \in {"idle", "ready"}
  BY <1>1 DEF AskLedger
<1>8. ReadRaises => attempt.pc \in {"ready", "planned"} /\ attempt'.pc = "idle"
  BY <1>1 DEF ReadRaises
<1>9. PlanRefused => attempt.pc = "ready" /\ attempt'.pc = "idle"
  BY <1>1 DEF PlanRefused
<1>10. PlanMade => attempt.pc = "ready" /\ attempt'.pc \in {"idle", "planned"}
  BY <1>1 DEF PlanMade
<1>11. Prepare => attempt.pc = "planned" /\ attempt'.pc \in {"prepared", "refused"}
  BY PrepareMakes
<1>12. RecordRefused => attempt.pc = "refused" /\ attempt'.pc = "idle"
  BY <1>1 DEF RecordRefused
<1>13. NotePrepared => attempt.pc = "prepared" /\ attempt'.pc = "sending"
  BY DEF NotePrepared
<1>14. RecordOutcome => attempt.pc = "sending" /\ attempt'.pc = "written"
  BY DEF RecordOutcome
<1>15. NoteWritten => attempt.pc = "written" /\ attempt'.pc = "idle"
  BY <1>1 DEF NoteWritten
<1> QED
  BY <1>2, <1>3, <1>4, <1>5, <1>6, <1>7, <1>8, <1>9, <1>10, <1>11, <1>12, <1>13, <1>14, <1>15

\* The steps that leave the scores alone go from one state of an attempt to a later.
LEMMA ScoresKeep ==
    ASSUME ScoresAreEarned, [Next]_vars
    PROVE  ScoresAreEarned'
<1> USE DEF ScoresAreEarned, Deciding
<1>1. CASE Tick
  <2>1. attempt'.pc = "idle" /\ durable' \in Earnings /\ local' = local
    BY <1>1 DEF Tick, Idle
  <2>2. scores' \in [Uids -> Nat]
    BY <1>1, <2>1, AppliedAreEarned DEF Tick
  <2> QED
    BY <2>1, <2>2
<1>2. CASE Resync
  <2>1. attempt'.pc = "synced" /\ durable' = durable
    BY <1>2 DEF Resync
  <2>2. scores' \in [Uids -> Nat]
    <3>1. CASE ScoresRead(local')
      BY <3>1, AppliedAreEarned DEF ScoresRead
    <3>2. CASE ScoresUnreadable(Aligned(local'))
      BY <3>2 DEF ScoresUnreadable, Aligned
    <3> QED
      BY <1>2, <3>1, <3>2 DEF Resync
  <2> QED
    BY <2>1, <2>2
<1>3. CASE Refresh
  <2>1. durable' = durable /\ local' = local /\ attempt.pc = "idle"
    BY <1>3 DEF Refresh, Idle
  <2>2. CASE ScoresRead(local)
    BY <2>1, <2>2, AppliedAreEarned DEF ScoresRead
  <2>3. CASE ScoresUnreadable(scores) /\ attempt' = attempt
    BY <2>1, <2>3 DEF ScoresUnreadable
  <2> QED
    BY <1>3, <2>2, <2>3 DEF Refresh
<1>4. CASE \/ Reconcile \/ Abstain \/ AskLedger \/ ReadRaises \/ PlanRefused \/ PlanMade
           \/ Prepare \/ RecordRefused \/ NotePrepared \/ RecordOutcome \/ NoteWritten
  <2>1. scores' = scores /\ durable' = durable /\ local' = local
    BY <1>4 DEF scoreVars, Reconcile, Abstain, AskLedger, ReadRaises, PlanRefused, PlanMade,
       Prepare, RecordRefused, NotePrepared, RecordOutcome, NoteWritten
  <2>2. attempt'.pc \in Deciding => attempt.pc \in Deciding
    BY <1>4, AttemptMoves
  <2> QED
    BY <2>1, <2>2
<1>5. CASE Waits
  BY <1>5, WaitsKeep DEF scoreVars
<1> QED
  BY <1>1, <1>2, <1>3, <1>4, <1>5 DEF Next, Waits

\* A plan is sound when it is made, and nothing its soundness is about changes
\* until its vector is prepared.
LEMMA PlanKeeps ==
    ASSUME ScoresAreEarned, PlanIsSound, [Next]_vars
    PROVE  PlanIsSound'
<1>1. CASE AskLedger
  <2>1. attempt'.pc \in {"idle", "ready"} /\ network' = network /\ scores' = scores
    BY <1>1, AttemptMoves DEF AskLedger, chainVars, scoreVars
  <2>2. network = "none" => \E u \in Uids : scores[u] > 0
    BY <1>1 DEF AskLedger, Mode
  <2>3. attempt'.pc # "planned"
    BY <2>1
  <2> QED
    BY <2>1, <2>2, <2>3 DEF PlanIsSound
<1>2. CASE PlanMade
  <2>1. attempt.pc = "ready" /\ FirstRefusal = None
    BY <1>2 DEF PlanMade
  <2>2. network' = network /\ scores' = scores /\ local' = local
    BY <1>2 DEF PlanMade, chainVars, scoreVars
  <2>3. CASE ~Due
    <3>1. attempt'.pc = "idle"
      BY <1>2, <2>3 DEF PlanMade, Idle
    <3> QED
      BY <3>1 DEF PlanIsSound
  <2>4. CASE Due
    <3>1. PICK plan, at, text : plan = Plan /\ at = Facts /\ text = chain.text
      OBVIOUS
    <3>2. attempt' = [pc |-> "planned", plan |-> plan, at |-> at, text |-> text]
      BY <1>2, <2>4, <3>1 DEF PlanMade
    <3>3. scores \in [Uids -> Nat] /\ (network = "none" => \E u \in Uids : scores[u] > 0)
      BY <2>1 DEF ScoresAreEarned, PlanIsSound
    <3>4. IF network = "none"
          THEN /\ PlanPays(plan) /\ plan.owner = -1
               /\ \A u \in Uids : scores[u] > 0 => at.hotkeys[u] = local[u]
          ELSE /\ plan.owner \in Uids /\ plan.owner \in plan.withheld
               /\ local[plan.owner] = at.owner
               /\ plan.bps \in {BPS, BurnRate(text)}
               /\ plan.bps # BPS => PlanPays(plan)
      BY <2>1, <3>1, <3>3, PlanIsMadeSound
    <3> QED
      BY <2>2, <3>2, <3>4 DEF PlanIsSound, PlanPays
  <2> QED
    BY <2>3, <2>4
<1>3. CASE \/ Tick \/ Resync \/ Reconcile \/ Refresh \/ Abstain \/ ReadRaises \/ PlanRefused
           \/ Prepare \/ RecordRefused \/ NotePrepared \/ RecordOutcome \/ NoteWritten
  <2>1. attempt'.pc \notin {"ready", "planned"}
    BY <1>3, AttemptMoves
  <2> QED
    BY <2>1 DEF PlanIsSound
<1>4. CASE Waits
  BY <1>4, WaitsKeep DEF scoreVars, PlanIsSound, PlanPays
<1> QED
  BY <1>1, <1>2, <1>3, <1>4 DEF Next, Waits

\* What a recheck lets through: a sound plan whose vector fits the state f.
Rechecked(plan, at, units, f) ==
    /\ network # "none" /\ limits = Unlimited
    /\ units = WeightVector(plan.weights, limits[1], limits[2], plan.groups)
    /\ plan.owner \in Uids /\ plan.owner \in plan.withheld /\ local[plan.owner] = at.owner
    /\ plan.bps \in 0 .. BPS /\ (plan.bps # BPS => PlanPays(plan))
    /\ VectorFits(plan, units) /\ StateHolds(plan, at, f, units)
    /\ \A u \in Uids : scores[u] > 0 =>
         local[u] \in DOMAIN durable.scores /\ durable.scores[local[u]] > 0

LEMMA RecheckedIsEarned ==
    ASSUME NEW plan, NEW at, NEW units, NEW f, Rechecked(plan, at, units, f)
    PROVE  /\ \A u \in DOMAIN units \ {plan.owner} :
                /\ f.hotkeys[u] \in DOMAIN durable.scores /\ durable.scores[f.hotkeys[u]] > 0
                /\ f.cold[f.hotkeys[u]] # f.ownerCold
           /\ f.hotkeys[plan.owner] = f.owner
           /\ plan.owner \in DOMAIN units <=> plan.bps > 0
           /\ plan.bps = BPS => DOMAIN units = {plan.owner}
<1> USE DEF Rechecked
<1>1. f.hotkeys[plan.owner] = f.owner
  BY DEF StateHolds
<1>2. CASE plan.bps = BPS
  <2>1. units = [u \in {plan.owner} |-> U16_MAX]
    BY <1>2 DEF VectorFits
  <2>2. DOMAIN units = {plan.owner}
    BY <2>1
  <2>3. plan.bps > 0
    BY <1>2, VoteAssumption
  <2> QED
    BY <1>1, <2>2, <2>3
<1>3. CASE plan.bps # BPS
  <2>1. /\ plan.weights \in [Uids -> Nat] /\ \E u \in Uids : plan.weights[u] > 0
        /\ \A u \in Uids \ {plan.owner} : plan.weights[u] > 0 => scores[u] > 0
    BY <1>3 DEF PlanPays
  <2>2. DOMAIN units \subseteq {u \in Uids : plan.weights[u] > 0}
    BY <2>1, VectorIsPositive
  <2>3. /\ DOMAIN units \cap (plan.withheld \ IF plan.bps = 0 THEN {} ELSE {plan.owner}) = {}
        /\ plan.bps > 0 => plan.owner \in DOMAIN units
    BY <1>3 DEF VectorFits, ShareIsBurned
  <2>4. ASSUME NEW u \in DOMAIN units \ {plan.owner}
        PROVE  /\ f.hotkeys[u] \in DOMAIN durable.scores /\ durable.scores[f.hotkeys[u]] > 0
               /\ f.cold[f.hotkeys[u]] # f.ownerCold
    <3>1. u \in Uids /\ scores[u] > 0
      BY <2>1, <2>2
    <3>2. f.hotkeys[u] = local[u] /\ (f.cold[f.hotkeys[u]] = f.ownerCold => u \in plan.withheld)
      BY <2>4 DEF StateHolds
    <3>3. u \notin plan.withheld
      BY <2>3
    <3> QED
      BY <3>1, <3>2, <3>3
  <2>5. plan.bps = 0 => plan.owner \notin DOMAIN units
    BY <2>3
  <2>6. plan.bps = 0 \/ plan.bps > 0
    BY VoteAssumption
  <2> QED
    BY <1>1, <1>3, <2>3, <2>4, <2>5, <2>6
<1> QED
  BY <1>2, <1>3

LEMMA SentIsMadeEarned ==
    ASSUME ScoresAreEarned, PlanIsSound, Prepare
    PROVE  SentIsEarned'
<1>0. PICK state \in OwnerStates, fits \in BOOLEAN :
        /\ attempt'.units = WeightVector(attempt.plan.weights, limits[1], limits[2],
                                         attempt.plan.groups)
        /\ fits => \/ network = "none"
                   \/ /\ VectorFits(attempt.plan, attempt'.units)
                      /\ \E now \in state :
                           StateHolds(attempt.plan, attempt.at, now, attempt'.units)
        /\ attempt'.pc = IF fits THEN "prepared" ELSE "refused"
        /\ attempt'.plan = attempt.plan /\ attempt'.at = attempt.at
        /\ attempt'.text = attempt.text
        /\ attempt'.facts = IF network = "none" THEN {attempt.at} ELSE state
  BY PrepareMakes
<1>00. PICK units : units = attempt'.units
  OBVIOUS
<1>1. /\ units = WeightVector(attempt.plan.weights, limits[1], limits[2], attempt.plan.groups)
      /\ fits => \/ network = "none"
                 \/ /\ VectorFits(attempt.plan, units)
                    /\ \E now \in state : StateHolds(attempt.plan, attempt.at, now, units)
      /\ attempt'.pc = IF fits THEN "prepared" ELSE "refused"
      /\ attempt'.plan = attempt.plan /\ attempt'.at = attempt.at
      /\ attempt'.text = attempt.text /\ attempt'.units = units
      /\ attempt'.facts = IF network = "none" THEN {attempt.at} ELSE state
  BY <1>0, <1>00
<1>2. attempt.pc = "planned" /\ network' = network /\ limits' = limits /\ durable' = durable
  BY DEF Prepare, chainVars, scoreVars
<1>3. PICK plan, at, text, earnings : /\ plan = attempt.plan /\ at = attempt.at
                                      /\ text = attempt.text /\ earnings = durable.scores
  OBVIOUS
<1>4. scores \in [Uids -> Nat] /\
      \A u \in Uids : scores[u] > 0 => local[u] \in DOMAIN earnings /\ earnings[local[u]] > 0
  BY <1>2, <1>3 DEF ScoresAreEarned, Deciding
<1>5. ASSUME fits, network # "none" \/ limits = Unlimited,
             NEW f, f \in (IF network = "none" THEN {at} ELSE state)
      PROVE  /\ \A u \in DOMAIN units \ {plan.owner} :
                  /\ f.hotkeys[u] \in DOMAIN earnings /\ earnings[f.hotkeys[u]] > 0
                  /\ network = "none" \/ f.cold[f.hotkeys[u]] # f.ownerCold
             /\ network # "none" =>
                  /\ f.hotkeys[plan.owner] = f.owner
                  /\ plan.bps \in {BPS, BurnRate(text)}
                  /\ plan.owner \in DOMAIN units <=> plan.bps > 0
                  /\ plan.bps = BPS => DOMAIN units = {plan.owner}
  <2>1. CASE network = "none"
    <3>1. /\ PlanPays(plan) /\ plan.owner = -1
          /\ \A u \in Uids : scores[u] > 0 => at.hotkeys[u] = local[u]
      BY <1>2, <1>3, <2>1 DEF PlanIsSound
    <3>2. /\ plan.weights \in [Uids -> Nat] /\ \E u \in Uids : plan.weights[u] > 0
          /\ \A u \in Uids : plan.weights[u] > 0 => scores[u] > 0
      BY <3>1 DEF PlanPays, Uids
    <3>3. units = WeightVector(plan.weights, Unlimited[1], Unlimited[2], plan.groups)
      BY <1>1, <1>3, <1>5, <2>1
    <3>4. DOMAIN units \subseteq {u \in Uids : plan.weights[u] > 0}
      BY <3>2, <3>3, VectorIsPositive
    <3> QED
      BY <1>4, <1>5, <2>1, <3>1, <3>2, <3>4
  <2>2. CASE network # "none"
    <3>1. /\ plan.owner \in Uids /\ plan.owner \in plan.withheld /\ local[plan.owner] = at.owner
          /\ plan.bps \in {BPS, BurnRate(text)} /\ (plan.bps # BPS => PlanPays(plan))
      BY <1>2, <1>3, <2>2 DEF PlanIsSound
    <3>2. plan.bps \in 0 .. BPS
      BY <3>1, VoteAssumption DEF BurnRate
    <3>3. /\ VectorFits(plan, units)
          /\ \E now \in state : StateHolds(plan, at, now, units)
      BY <1>1, <1>3, <1>5, <2>2
    <3>4. StateHolds(plan, at, f, units)
      BY <1>5, <2>2, <3>3 DEF OwnerStates
    <3>5. limits = Unlimited
      BY <3>3 DEF VectorFits
    <3>6. units = WeightVector(plan.weights, limits[1], limits[2], plan.groups)
      BY <1>1, <1>3
    <3>7. /\ \A u \in DOMAIN units \ {plan.owner} :
               /\ f.hotkeys[u] \in DOMAIN durable.scores /\ durable.scores[f.hotkeys[u]] > 0
               /\ f.cold[f.hotkeys[u]] # f.ownerCold
          /\ f.hotkeys[plan.owner] = f.owner
          /\ plan.owner \in DOMAIN units <=> plan.bps > 0
          /\ plan.bps = BPS => DOMAIN units = {plan.owner}
      <4>1. \A u \in Uids : scores[u] > 0 =>
              local[u] \in DOMAIN durable.scores /\ durable.scores[local[u]] > 0
        BY <1>3, <1>4
      <4>2. plan.owner \in Uids /\ plan.owner \in plan.withheld /\ local[plan.owner] = at.owner
        BY <3>1
      <4>3. plan.bps # BPS => PlanPays(plan)
        BY <3>1
      <4>4. VectorFits(plan, units)
        BY <3>3
      <4>5. Rechecked(plan, at, units, f)
        BY <2>2, <3>2, <3>4, <3>5, <3>6, <4>1, <4>2, <4>3, <4>4 DEF Rechecked
      <4> QED
        BY <4>5, RecheckedIsEarned
    <3>8. \A u \in DOMAIN units \ {plan.owner} :
             /\ f.hotkeys[u] \in DOMAIN earnings /\ earnings[f.hotkeys[u]] > 0
             /\ f.cold[f.hotkeys[u]] # f.ownerCold
      BY <1>3, <3>7
    <3>9. /\ f.hotkeys[plan.owner] = f.owner
          /\ plan.bps \in {BPS, BurnRate(text)}
          /\ plan.owner \in DOMAIN units <=> plan.bps > 0
          /\ plan.bps = BPS => DOMAIN units = {plan.owner}
      BY <3>1, <3>7
    <3> QED
      BY <3>8, <3>9
  <2> QED
    BY <2>1, <2>2
<1>6. SUFFICES ASSUME Prepared', network' # "none" \/ limits' = Unlimited, NEW f \in attempt'.facts
      PROVE  /\ \A u \in DOMAIN attempt'.units \ {attempt'.plan.owner} :
                  /\ f.hotkeys[u] \in DOMAIN durable'.scores
                  /\ durable'.scores[f.hotkeys[u]] > 0
                  /\ network' = "none" \/ f.cold[f.hotkeys[u]] # f.ownerCold
             /\ network' # "none" =>
                  /\ f.hotkeys[attempt'.plan.owner] = f.owner
                  /\ attempt'.plan.bps \in {BPS, BurnRate(attempt'.text)}
                  /\ attempt'.plan.owner \in DOMAIN attempt'.units <=> attempt'.plan.bps > 0
                  /\ attempt'.plan.bps = BPS => DOMAIN attempt'.units = {attempt'.plan.owner}
  BY Zenon DEF SentIsEarned
<1>7. fits
  BY <1>1, <1>6 DEF Prepared
<1>8. /\ attempt'.plan = plan /\ attempt'.text = text /\ attempt'.units = units
      /\ attempt'.facts = (IF network = "none" THEN {at} ELSE state)
      /\ durable'.scores = earnings
  BY <1>1, <1>2, <1>3
<1>9. f \in (IF network = "none" THEN {at} ELSE state)
  BY <1>6, <1>8
<1> HIDE DEF Prepared
<1> QED
  BY <1>2, <1>5, <1>6, <1>7, <1>8, <1>9

LEMMA SentKeeps ==
    ASSUME ScoresAreEarned, PlanIsSound, SentIsEarned, [Next]_vars
    PROVE  SentIsEarned'
<1>1. CASE Prepare
  BY <1>1, SentIsMadeEarned
<1>2. CASE \/ Tick \/ Resync \/ Reconcile \/ Refresh \/ Abstain \/ AskLedger \/ ReadRaises
           \/ PlanRefused \/ PlanMade \/ RecordRefused \/ NotePrepared \/ RecordOutcome
           \/ NoteWritten
  <2>1. attempt'.pc # "prepared"
    BY <1>2, AttemptMoves
  <2> QED
    BY <2>1 DEF SentIsEarned, Prepared
<1>3. CASE Waits
  <2>1. attempt' = attempt /\ network' = network /\ limits' = limits /\ durable' = durable
    BY <1>3, WaitsKeep DEF scoreVars
  <2> QED
    BY <2>1 DEF SentIsEarned, Prepared
<1> QED
  BY <1>1, <1>2, <1>3 DEF Next, Waits

-----------------------------------------------------------------------------
(***************************************************************************)
(* The health of emission.                                                 *)
(***************************************************************************)
\* A failed read parks the fault it interrupts, a read that succeeds restores it.
LEMMA ReadKeepsFault ==
    ASSUME ParkedBelow, FaultStillPages, NEW l, NEW aligned,
           ScoresRead(l) \/ ScoresUnreadable(aligned), fault' = fault
    PROVE  /\ underlying' # ScoreUnavailable
           /\ underlying' # None => block' = ScoreUnavailable
           /\ ScoresRead(l) => block' # ScoreUnavailable
           /\ FaultStillPages'
<1> USE DEF ParkedBelow, FaultStillPages, PagesAtOnce, None, ScoreUnavailable, Immediate
<1>1. CASE ScoresRead(l)
  <2>1. IF block = ScoreUnavailable
        THEN block' = underlying /\ underlying' = None
        ELSE block' = block /\ underlying' = underlying
    BY <1>1 DEF ScoresRead
  <2> QED
    BY <2>1
<1>2. CASE ScoresUnreadable(aligned) /\ ~ScoresRead(l)
  <2>1. /\ block' = ScoreUnavailable
        /\ underlying' = IF block \notin {None, ScoreUnavailable} THEN block ELSE underlying
    BY <1>2 DEF ScoresUnreadable, BlockEmission, Parked
  <2> QED
    BY <1>2, <2>1
<1> QED
  BY <1>1, <1>2

LEMMA HealthKeeps ==
    ASSUME ParkedBelow, FaultStillPages, [Next]_vars
    PROVE  ParkedBelow' /\ FaultStillPages'
<1>1. CASE Resync
  <2>1. fault' = fault /\ attempt'.pc = "synced"
        /\ (ScoresRead(local') \/ ScoresUnreadable(Aligned(local')))
    BY <1>1, AttemptMoves DEF Resync
  <2>2. PICK l, aligned : l = local' /\ aligned = Aligned(local')
    OBVIOUS
  <2>3. ScoresRead(l) \/ ScoresUnreadable(aligned)
    BY <2>1, <2>2 DEF ScoresRead, ScoresUnreadable
  <2> QED
    BY <2>1, <2>3, ReadKeepsFault DEF ParkedBelow
<1>2. CASE Refresh
  <2>1. fault' = fault /\ attempt.pc = "idle" /\ (ScoresRead(local) \/ attempt' = attempt)
        /\ (ScoresRead(local) \/ ScoresUnreadable(scores))
    BY <1>2, AttemptMoves DEF Refresh
  <2> QED
    BY <2>1, ReadKeepsFault DEF ParkedBelow
<1>3. CASE Abstain \/ PlanMade
  <2>1. block' = None /\ underlying' = None /\ fault' = None
    BY <1>3 DEF Abstain, PlanMade, ClearBlock
  <2> QED
    BY <2>1 DEF ParkedBelow, FaultStillPages, None, ScoreUnavailable, Immediate
<1>4. CASE PlanRefused
  <2>1. attempt.pc = "ready" /\ attempt'.pc = "idle"
    BY <1>4, AttemptMoves
  <2>2. PICK reason : /\ BlockEmission(reason) /\ fault' = reason
                      /\ reason \in {FirstRefusal, "owner_commitment_unavailable"}
    BY <1>4 DEF PlanRefused
  <2>3. reason # ScoreUnavailable
    BY <2>2, NoRefusal DEF ScoreUnavailable
  <2>4. underlying = None
    BY <2>1 DEF ParkedBelow
  <2>5. block' = reason /\ underlying' = None
    BY <2>2, <2>3, <2>4 DEF BlockEmission, Parked
  <2> QED
    BY <2>1, <2>2, <2>5 DEF ParkedBelow, FaultStillPages, PagesAtOnce, None, ScoreUnavailable
<1>5. CASE \/ Tick \/ Reconcile \/ AskLedger \/ ReadRaises \/ Prepare \/ RecordRefused
           \/ NotePrepared \/ RecordOutcome \/ NoteWritten
  <2>1. block' = block /\ underlying' = underlying /\ fault' = fault
    BY <1>5 DEF health, Tick, Reconcile, AskLedger, ReadRaises, Prepare, RecordRefused,
       NotePrepared, RecordOutcome, NoteWritten
  <2>2. attempt'.pc \in {"refreshed", "ready"} => attempt.pc \in {"refreshed", "ready"}
    BY <1>5, AttemptMoves
  <2> QED
    BY <2>1, <2>2 DEF ParkedBelow, FaultStillPages, PagesAtOnce
<1>6. CASE Waits
  <2>1. block' = block /\ underlying' = underlying /\ fault' = fault
    BY <1>6 DEF Waits, health, vars, BeginRead, ReadLedger, Store, Expire, MoveChain
  <2> QED
    BY <1>6, <2>1, WaitsKeep DEF ParkedBelow, FaultStillPages, PagesAtOnce
<1> QED
  BY <1>1, <1>2, <1>3, <1>4, <1>5, <1>6 DEF Next, Waits

-----------------------------------------------------------------------------
(***************************************************************************)
(* The cached summary.                                                     *)
(***************************************************************************)
\* The steps between a write of the ledger and its note, and the notes.
LEMMA NotesKeep ==
    ASSUME ReaderTypes, ReadIsCurrent, ServedIsCurrent,
           \/ Tick \/ Resync \/ Reconcile \/ Refresh \/ Abstain \/ AskLedger \/ ReadRaises
           \/ PlanRefused \/ PlanMade \/ Prepare \/ RecordRefused \/ NotePrepared
           \/ RecordOutcome \/ NoteWritten
    PROVE  ReaderTypes' /\ ReadIsCurrent' /\ ServedIsCurrent'
<1> USE DEF ReaderTypes, ReadIsCurrent, ServedIsCurrent, Noted
<1>1. CASE AskLedger \/ NotePrepared \/ NoteWritten
  <2>1. /\ open' = open /\ cache' = NoCache
        /\ reader' = [r \in Readers |-> [reader[r] EXCEPT !.current = FALSE]]
    BY <1>1 DEF AskLedger, NotePrepared, NoteWritten, Invalidate
  <2>2. \A r \in Readers : /\ reader'[r] \in [pc : {"idle", "reading", "read"},
                                              summary : BOOLEAN, current : BOOLEAN]
                           /\ ~reader'[r].current
    BY <2>1
  <2>3. reader' = [r \in Readers |-> reader'[r]]
    BY <2>1
  <2>4. ~cache'.current
    BY <2>1 DEF NoCache
  <2> QED
    BY <2>1, <2>2, <2>3, <2>4
<1>2. CASE Reconcile \/ RecordOutcome
  <2>1. attempt'.pc = "written" /\ reader' = reader
    <3>1. attempt'.pc = "written"
      BY <1>2, AttemptMoves
    <3> QED
      BY <1>2, <3>1 DEF Reconcile, RecordOutcome, api
  <2>2. open' \in BOOLEAN
    <3>1. CASE Reconcile
      <4>1. open' = open \/ open' = FALSE
        BY <3>1 DEF Reconcile
      <4> QED
        BY <4>1
    <3>2. CASE RecordOutcome
      BY <3>2 DEF RecordOutcome
    <3> QED
      BY <1>2, <3>1, <3>2
  <2> QED
    BY <2>1, <2>2
<1>3. CASE Prepare
  <2>1. PICK fits \in BOOLEAN : /\ attempt'.pc = IF fits THEN "prepared" ELSE "refused"
                                /\ open' = (open \/ fits)
    BY <1>3, PrepareMakes
  <2>2. attempt.pc = "planned" /\ reader' = reader /\ cache' = cache
    BY <1>3 DEF Prepare, api
  <2>3. CASE fits
    BY <2>1, <2>2, <2>3
  <2>4. CASE ~fits
    <3>1. open' = open
      BY <2>1, <2>4
    <3> QED
      BY <2>2, <3>1
  <2> QED
    BY <2>3, <2>4
<1>4. CASE \/ Tick \/ Resync \/ Refresh \/ Abstain \/ ReadRaises \/ PlanRefused \/ PlanMade
           \/ RecordRefused
  <2>1. open' = open /\ reader' = reader /\ cache' = cache
    BY <1>4 DEF api, Tick, Resync, Refresh, Abstain, ReadRaises, PlanRefused, PlanMade,
       RecordRefused
  <2>2. Noted
    BY <1>4, AttemptMoves
  <2> QED
    BY <2>1, <2>2
<1> QED
  BY <1>1, <1>2, <1>3, <1>4

LEMMA ReadsKeep ==
    ASSUME ReaderTypes, ReadIsCurrent, ServedIsCurrent, [Next]_vars
    PROVE  ReaderTypes' /\ ReadIsCurrent' /\ ServedIsCurrent'
<1> USE DEF ReaderTypes, ReadIsCurrent, ServedIsCurrent, Noted
<1>1. ASSUME NEW r \in Readers, BeginRead(r) \/ ReadLedger(r) \/ Store(r)
      PROVE  ReaderTypes' /\ ReadIsCurrent' /\ ServedIsCurrent'
  <2>1. attempt' = attempt /\ open' = open
    BY <1>1 DEF BeginRead, ReadLedger, Store
  <2>2. CASE BeginRead(r)
    BY <2>1, <2>2 DEF BeginRead
  <2>3. CASE ReadLedger(r)
    BY <2>1, <2>3 DEF ReadLedger
  <2>4. CASE Store(r)
    <3>1. /\ reader[r].pc = "read" /\ reader' = [reader EXCEPT ![r] = NotReading]
          /\ cache' = IF reader[r].current THEN [summary |-> reader[r].summary, current |-> TRUE]
                      ELSE NoCache
      BY <2>4 DEF Store
    <3>2. ReaderTypes' /\ ReadIsCurrent'
      BY <2>1, <3>1 DEF NotReading
    <3>3. Noted /\ cache'.current => cache'.summary = open
      BY <3>1 DEF NoCache
    <3> QED
      BY <2>1, <3>2, <3>3
  <2> QED
    BY <1>1, <2>2, <2>3, <2>4
<1>2. CASE Expire \/ MoveChain \/ UNCHANGED vars
  <2>1. /\ attempt' = attempt /\ open' = open /\ reader' = reader
        /\ cache' = cache \/ cache' = NoCache
    BY <1>2 DEF Expire, MoveChain, vars, api
  <2> QED
    BY <2>1 DEF NoCache
<1> QED
  BY <1>1, <1>2, NotesKeep DEF Next

-----------------------------------------------------------------------------
(***************************************************************************)
(* The theorems.                                                           *)
(***************************************************************************)
LEMMA InitAttempt ==
    ASSUME Init
    PROVE  AttemptInv
<1>1. ScoresAreEarned
  <2>1. scores \in [Uids -> Nat]
    BY DEF Init, Zero
  <2> QED
    BY <2>1 DEF Init, ScoresAreEarned, Idle, Deciding
<1>2. PlanIsSound /\ SentIsEarned
  BY DEF Init, Idle, PlanIsSound, SentIsEarned, Prepared
<1>3. ParkedBelow /\ FaultStillPages
  BY DEF Init, Idle, ParkedBelow, FaultStillPages, None, ScoreUnavailable, Immediate
<1>4. ReaderTypes /\ ReadIsCurrent /\ ServedIsCurrent
  BY DEF Init, ReaderTypes, ReadIsCurrent, ServedIsCurrent, NotReading, NoCache
<1> QED
  BY <1>1, <1>2, <1>3, <1>4 DEF AttemptInv

LEMMA AttemptStep ==
    ASSUME AttemptInv, [Next]_vars
    PROVE  AttemptInv'
<1>1. ScoresAreEarned' /\ PlanIsSound' /\ SentIsEarned'
  BY ScoresKeep, PlanKeeps, SentKeeps DEF AttemptInv
<1>2. ParkedBelow' /\ FaultStillPages'
  BY HealthKeeps DEF AttemptInv
<1>3. ReaderTypes' /\ ReadIsCurrent' /\ ServedIsCurrent'
  BY ReadsKeep DEF AttemptInv
<1> QED
  BY <1>1, <1>2, <1>3 DEF AttemptInv

\* The inductive invariant of an attempt (validator.py, emission_policy.py).
THEOREM AttemptInvariant == Spec => []AttemptInv
<1>1. Init => AttemptInv
  BY InitAttempt
<1>2. AttemptInv /\ [Next]_vars => AttemptInv'
  BY AttemptStep
<1> QED
  BY <1>1, <1>2, PTL DEF Spec

\* What is about to be sent pays, besides the committed share of the owner, only
\* scores of the hotkeys that hold the slots at the submission block
\* (recheck_owner_state, recheck_owner_vote).
THEOREM OnlyScoresAreSent == Spec => []SentIsEarned
<1>1. AttemptInv => SentIsEarned
  BY DEF AttemptInv
<1> QED
  BY <1>1, AttemptInvariant, PTL

\* A fault that must page at once does, also under failed score reads
\* (_emission_block_underlying).
THEOREM NoFaultIsMasked == Spec => []FaultStillPages
<1>1. AttemptInv => FaultStillPages
  BY DEF AttemptInv
<1> QED
  BY <1>1, AttemptInvariant, PTL

\* Outside the moments between a write and its note the cache serves what the
\* ledger holds, for any number of API threads (_confirmation_summary).
THEOREM CacheIsNotStale == Spec => []ServedIsCurrent
<1>1. AttemptInv => ServedIsCurrent
  BY DEF AttemptInv
<1> QED
  BY <1>1, AttemptInvariant, PTL

-----------------------------------------------------------------------------
(***************************************************************************)
(* The rounding of an honest vector.  First the units of a pool.           *)
(***************************************************************************)
\* As many elements as k have fewer than k ahead of them in a strict order.
LEMMA FirstOnes ==
    ASSUME NEW G, IsFiniteSet(G), NEW ahead \in [G -> SUBSET G],
           \A u \in G : u \notin ahead[u],
           \A u, v \in G : u = v \/ u \in ahead[v] \/ v \in ahead[u],
           \A u, v \in G : u \in ahead[v] => ahead[u] \subseteq ahead[v],
           NEW k \in 0 .. Cardinality(G)
    PROVE  Cardinality({u \in G : Cardinality(ahead[u]) < k}) = k
<1> DEFINE n == Cardinality(G)
           rank == [u \in G |-> Cardinality(ahead[u])]
           places == 0 .. n - 1
           first == {u \in G : Cardinality(ahead[u]) < k}
<1>1. n \in Nat /\ \A u \in G : IsFiniteSet(ahead[u]) /\ Cardinality(ahead[u]) \in Nat
  BY FS_CardinalityType, FS_Subset
<1>2. \A u \in G : Cardinality(ahead[u]) < n
  <2> SUFFICES ASSUME NEW u \in G PROVE Cardinality(ahead[u]) < n
    OBVIOUS
  <2>1. Cardinality(ahead[u]) <= n /\ (n = Cardinality(ahead[u]) => G = ahead[u])
    BY FS_Subset
  <2>2. G # ahead[u]
    OBVIOUS
  <2> QED
    BY <1>1, <2>1, <2>2
<1>3. ASSUME NEW u \in G, NEW v \in G, u \in ahead[v]
      PROVE  Cardinality(ahead[u]) < Cardinality(ahead[v])
  <2>1. ahead[u] \in SUBSET ahead[v] /\ ahead[u] # ahead[v]
    BY <1>3
  <2>2. /\ Cardinality(ahead[u]) <= Cardinality(ahead[v])
        /\ Cardinality(ahead[v]) = Cardinality(ahead[u]) => ahead[v] = ahead[u]
    BY <1>1, <2>1, FS_Subset
  <2> QED
    BY <1>1, <2>1, <2>2
<1>4. \A u, v \in G : Cardinality(ahead[u]) = Cardinality(ahead[v]) => u = v
  BY <1>1, <1>3
<1>5. rank \in [G -> places] /\ \A u, v \in G : rank[u] = rank[v] => u = v
  BY <1>1, <1>2, <1>4
<1>6. IsFiniteSet(places) /\ Cardinality(places) = n
  <2>1. 0 \in Int /\ n - 1 \in Int
    BY <1>1
  <2> QED
    BY <1>1, <2>1, FS_Interval
<1> HIDE DEF rank, n, places
<1>7. rank \in Injection(G, places)
  BY <1>5 DEF Injection, IsInjective
<1>8. rank \in Surjection(G, places)
  BY <1>6, <1>7, FS_Injection DEF n
<1>9. k \in Nat /\ k <= n
  BY <1>1 DEF n
<1>10. {rank[u] : u \in first} = 0 .. k - 1
  <2>1. \A u \in first : rank[u] \in 0 .. k - 1
    BY <1>1, <1>9 DEF rank
  <2>2. ASSUME NEW i \in 0 .. k - 1 PROVE \E u \in first : rank[u] = i
    <3>1. i \in places
      BY <1>1, <1>9 DEF places
    <3>2. PICK u \in G : rank[u] = i
      BY <1>8, <3>1 DEF Surjection
    <3>3. u \in first
      BY <1>9, <3>2 DEF rank
    <3> QED
      BY <3>2, <3>3
  <2> QED
    BY <2>1, <2>2
<1> DEFINE r == [u \in first |-> rank[u]]
<1>11. r \in Injection(first, 0 .. k - 1) /\ r \in Surjection(first, 0 .. k - 1)
  <2>1. first \in SUBSET G
    OBVIOUS
  <2> HIDE DEF first
  <2>2. r \in [first -> 0 .. k - 1] /\ \A u, v \in first : r[u] = r[v] => u = v
    BY <1>5, <1>10, <2>1
  <2>3. \A i \in 0 .. k - 1 : \E u \in first : r[u] = i
    BY <1>10
  <2> HIDE DEF r
  <2> QED
    BY <2>2, <2>3 DEF Injection, IsInjective, Surjection
<1>12. IsFiniteSet(0 .. k - 1) /\ Cardinality(0 .. k - 1) = k
  <2>1. 0 \in Int /\ k - 1 \in Int
    BY <1>9
  <2> QED
    BY <1>9, <2>1, FS_Interval
<1> HIDE DEF r, first
<1> QED
  BY <1>11, <1>12, FS_Injection DEF first

LEMMA Quotient ==
    ASSUME NEW a \in Nat, NEW d \in Nat \ {0}
    PROVE  /\ a \div d \in Nat /\ a % d \in Nat /\ a % d < d
           /\ a = d * (a \div d) + (a % d)
  OBVIOUS

LEMMA HalfUpIs ==
    ASSUME NEW n \in Nat, NEW d \in Nat \ {0}
    PROVE  /\ HalfUp(n, d) \in Nat
           /\ 2 * (d * HalfUp(n, d)) <= 2 * n + d
           /\ 2 * n + d < 2 * (d * HalfUp(n, d)) + 2 * d
<1>1. PICK x \in Nat, y \in Nat \ {0} : x = 2 * n + d /\ y = 2 * d
  OBVIOUS
<1>2. PICK q \in Nat, r \in Nat : q = x \div y /\ r < y /\ x = y * q + r
  BY Quotient
<1>3. HalfUp(n, d) = q
  BY <1>1, <1>2 DEF HalfUp
<1>4. (2 * d) * q = 2 * (d * q)
  OBVIOUS
<1>5. PICK p \in Nat : p = d * q
  OBVIOUS
<1>6. 2 * n + d = 2 * p + r /\ r < 2 * d
  BY <1>1, <1>2, <1>4, <1>5
<1> QED
  BY <1>3, <1>5, <1>6

\* The order in which a pool's members get the units left over.
LEMMA AheadOrders ==
    ASSUME NEW P, NEW w \in [P -> Nat], NEW top, NEW pool, DOMAIN pool \subseteq Int,
           \A u \in P : Remainder(w, top, u) \in Nat,
           NEW G, G = ToSet(pool) \cap P
    PROVE  /\ \A u \in G : Ahead(w, top, pool, u) \subseteq G
           /\ \A u \in G : u \notin Ahead(w, top, pool, u)
           /\ \A u, v \in G : \/ u = v \/ u \in Ahead(w, top, pool, v)
                              \/ v \in Ahead(w, top, pool, u)
           /\ \A u, v \in G : u \in Ahead(w, top, pool, v) =>
                Ahead(w, top, pool, u) \subseteq Ahead(w, top, pool, v)
<1> DEFINE place(v) == CHOOSE i \in DOMAIN pool : pool[i] = v
           r(v) == Remainder(w, top, v)
<1>1. \A v \in G : place(v) \in Int /\ pool[place(v)] = v
  BY DEF ToSet
<1>2. \A u, v \in G : place(u) = place(v) => u = v
  BY <1>1
<1>3. \A u : Ahead(w, top, pool, u) = {v \in G : r(v) > r(u) \/ (r(v) = r(u) /\ place(v) < place(u))}
  BY DEF Ahead
<1>4. \A v \in G : r(v) \in Nat
  OBVIOUS
<1> HIDE DEF place, r
<1> QED
  BY <1>1, <1>2, <1>3, <1>4

Scaled(w, P) == [u \in P |-> w[u] * U16_MAX]
IsScaled(a, w, P) == \A u \in P : a[u] = w[u] * U16_MAX
PoolRounded(units, a, top, G) ==
    /\ units \in [G -> Nat]
    /\ 2 * (top * Sum(units, G)) <= 2 * Sum(a, G) + top
    /\ 2 * Sum(a, G) + top < 2 * (top * Sum(units, G)) + 2 * top
    /\ \A u \in G : /\ units[u] <= a[u] \div top + 1
                    /\ a[u] % top = 0 => units[u] = a[u] \div top

\* Together a pool's members get what one entry with their total would, rounded as
\* HalfUp does.  A weight that needs no rounding is not rounded.
LEMMA PoolRounds ==
    ASSUME NEW P, IsFiniteSet(P), NEW w \in [P -> Nat], NEW top \in Nat \ {0},
           NEW pool, DOMAIN pool \subseteq Int,
           NEW G, G = ToSet(pool) \cap P,
           NEW a \in [G -> Nat], IsScaled(a, w, G),
           NEW units, units = PoolUnits(w, top, pool)
    PROVE  PoolRounded(units, a, top, G)
<1> DEFINE q == [u \in G |-> a[u] \div top]
           m == [u \in G |-> top * q[u]]
           r == [u \in G |-> a[u] % top]
           spare == HalfUp(Sum(r, G), top)
           ahead == [u \in G |-> Ahead(w, top, pool, u)]
           first == {u \in G : Cardinality(ahead[u]) < spare}
           e == [u \in G |-> IF u \in first THEN 1 ELSE 0]
<1>0. \A u \in G : a[u] = w[u] * U16_MAX
  BY DEF IsScaled
<1>1. IsFiniteSet(G)
  BY FS_Subset
<1>2. \A u \in G : /\ a[u] \div top \in Nat /\ a[u] % top \in Nat /\ a[u] % top < top
                   /\ a[u] = top * (a[u] \div top) + (a[u] % top)
  BY Quotient
<1>3. q \in [G -> Nat] /\ r \in [G -> Nat] /\ m \in [G -> Nat] /\ e \in [G -> Nat]
  BY <1>2
<1>4. \A u \in G : Remainder(w, top, u) = r[u]
  BY <1>0 DEF Remainder
<1>5. spare = HalfUp(Total([u \in G |-> Remainder(w, top, u)]), top)
  <2>1. [u \in G |-> Remainder(w, top, u)] = [u \in G |-> r[u]]
    BY <1>4
  <2> HIDE DEF r
  <2> QED
    BY <2>1 DEF Sum
<1>6. units = [u \in G |-> a[u] \div top + IF Cardinality(Ahead(w, top, pool, u)) < spare THEN 1 ELSE 0]
  <2>1. G = ToSet(pool) \cap DOMAIN w
    OBVIOUS
  <2> HIDE DEF spare
  <2>2. units = [u \in G |-> (w[u] * U16_MAX) \div top
                             + IF Cardinality(Ahead(w, top, pool, u)) < spare THEN 1 ELSE 0]
    BY <1>5, <2>1 DEF PoolUnits
  <2> QED
    BY <1>0, <2>2
<1>7. Adds(units, q, e, G)
  <2> HIDE DEF spare
  <2> QED
    BY <1>6 DEF Adds
<1>8. units \in [G -> Nat]
  <2> HIDE DEF spare
  <2> QED
    BY <1>2, <1>6
\* The sums: with as many ones as units are left over, those of the entry.
<1>9. Sum(a, G) = top * Sum(q, G) + Sum(r, G) /\ Sum(q, G) \in Nat /\ Sum(r, G) \in Nat
  <2>1. Adds(a, m, r, G) /\ Scales(m, top, q, G)
    BY <1>2 DEF Adds, Scales
  <2> HIDE DEF q, m, r
  <2>2. Sum(a, G) = Sum(m, G) + Sum(r, G)
    BY <1>1, <1>3, <2>1, SumOfSums
  <2>3. Sum(m, G) = top * Sum(q, G)
    BY <1>1, <1>3, <2>1, SumOfMultiples
  <2>4. SumLaws(q, G) /\ SumLaws(r, G)
    BY <1>1, <1>3, SumFacts
  <2> QED
    BY <2>2, <2>3, <2>4 DEF SumLaws
<1> DEFINE some == {u \in G : r[u] # 0}
           z == Cardinality(some)
<1>10. IsFiniteSet(some) /\ z \in Nat /\ z <= Cardinality(G) /\ Cardinality(G) \in Nat
  BY <1>1, FS_Subset, FS_CardinalityType
<1>11. Sum(r, G) + z <= top * z
  <2> DEFINE one == [u \in G |-> IF u \in some THEN 1 ELSE 0]
             more == [u \in G |-> r[u] + one[u]]
             full == [u \in G |-> top * one[u]]
  <2>1. r \in [G -> Nat] /\ one \in [G -> Nat] /\ more \in [G -> Nat] /\ full \in [G -> Nat]
    BY <1>3
  <2>2. ASSUME NEW u \in G PROVE more[u] <= full[u]
    <3>1. PICK x \in Nat : x = r[u] /\ x < top
      BY <1>2
    <3>2. CASE u \in some
      <4>1. x # 0 /\ more[u] = x + 1 /\ full[u] = top
        BY <3>1, <3>2
      <4> QED
        BY <3>1, <4>1
    <3>3. CASE u \notin some
      <4>1. x = 0 /\ more[u] = x /\ full[u] = 0
        BY <3>1, <3>3
      <4> QED
        BY <4>1
    <3> QED
      BY <3>2, <3>3
  <2>3. \A u \in G : /\ more[u] = r[u] + one[u] /\ full[u] = top * one[u]
                     /\ one[u] = IF u \in some THEN 1 ELSE 0
    OBVIOUS
  <2>4. G \cap some = some
    OBVIOUS
  <2> HIDE DEF one, more, full, some, r
  <2>5. Sum(one, G) = z
    <3>1. one \in [G -> Nat] /\ Marks(one, some, G)
      BY <2>1, <2>3 DEF Marks
    <3>2. Sum(one, G) = Cardinality(G \cap some)
      BY <1>1, <3>1, SumCounts
    <3> QED
      BY <2>4, <3>2
  <2>6. Sum(more, G) = Sum(r, G) + Sum(one, G)
    <3>1. Adds(more, r, one, G)
      BY <2>3 DEF Adds
    <3> QED
      BY <1>1, <2>1, <3>1, SumOfSums
  <2>7. Sum(full, G) = top * z
    <3>1. Scales(full, top, one, G) /\ top \in Nat
      BY <2>3 DEF Scales
    <3>2. Sum(full, G) = top * Sum(one, G)
      BY <1>1, <2>1, <3>1, SumOfMultiples
    <3> QED
      BY <2>5, <3>2
  <2>8. Sum(more, G) <= Sum(full, G)
    BY <1>1, <2>1, <2>2, SumIsMonotone
  <2>9. Sum(r, G) + z = Sum(more, G)
    BY <2>5, <2>6
  <2> QED
    BY <2>7, <2>8, <2>9
<1>12. /\ spare \in Nat /\ 2 * (top * spare) <= 2 * Sum(r, G) + top
       /\ 2 * Sum(r, G) + top < 2 * (top * spare) + 2 * top
  <2> HIDE DEF r
  <2> QED
    BY <1>9, HalfUpIs
<1>13. spare <= z
  <2> SUFFICES ASSUME spare >= z + 1 PROVE FALSE
    BY <1>10, <1>12
  <2>1. top * spare >= top * (z + 1)
    BY <1>10, <1>12
  <2>2. top * (z + 1) = top * z + top
    BY <1>10
  <2> HIDE DEF spare, z, r
  <2> QED
    BY <1>9, <1>10, <1>11, <1>12, <2>1, <2>2
<1>14. Cardinality(first) = spare
  <2>1. \A u \in P : Remainder(w, top, u) \in Nat
    <3>1. U16_MAX \in Nat
      BY VoteAssumption
    <3>2. ASSUME NEW u \in P PROVE w[u] * U16_MAX \in Nat
      BY <3>1
    <3> QED
      BY <3>2, Quotient DEF Remainder
  <2>2. /\ ahead \in [G -> SUBSET G]
        /\ \A u \in G : u \notin ahead[u]
        /\ \A u, v \in G : u = v \/ u \in ahead[v] \/ v \in ahead[u]
        /\ \A u, v \in G : u \in ahead[v] => ahead[u] \subseteq ahead[v]
    BY <2>1, AheadOrders
  <2>3. spare \in 0 .. Cardinality(G)
    BY <1>10, <1>12, <1>13
  <2> HIDE DEF ahead, spare
  <2> QED
    BY <1>1, <2>2, <2>3, FirstOnes
<1>15. Sum(units, G) = Sum(q, G) + spare
  <2>1. first \in SUBSET G /\ G \cap first = first
    OBVIOUS
  <2>2. Marks(e, first, G)
    BY DEF Marks
  <2> HIDE DEF first, e, q
  <2>3. Sum(e, G) = Cardinality(G \cap first)
    <3>1. e \in [G -> Nat]
      BY <1>3
    <3> QED
      BY <1>1, <2>2, <3>1, SumCounts
  <2>4. Sum(units, G) = Sum(q, G) + Sum(e, G)
    BY <1>1, <1>3, <1>7, <1>8, SumOfSums
  <2> QED
    BY <1>14, <2>1, <2>3, <2>4
<1>16. /\ 2 * (top * Sum(units, G)) <= 2 * Sum(a, G) + top
       /\ 2 * Sum(a, G) + top < 2 * (top * Sum(units, G)) + 2 * top
  <2>1. top * Sum(units, G) = top * Sum(q, G) + top * spare
    BY <1>9, <1>12, <1>15
  <2> HIDE DEF spare, q, r
  <2>2. PICK x \in Nat : x = top * spare
    BY <1>12
  <2>3. PICK y \in Nat : y = top * Sum(q, G)
    BY <1>9
  <2> QED
    BY <1>9, <1>12, <2>1, <2>2, <2>3
<1>17. ASSUME NEW u \in G
       PROVE  /\ units[u] <= a[u] \div top + 1
              /\ a[u] % top = 0 => units[u] = a[u] \div top
  <2>1. units[u] = a[u] \div top + e[u] /\ e[u] \in {0, 1} /\ a[u] \div top \in Nat
    BY <1>2, <1>7 DEF Adds
  <2>2. ASSUME a[u] % top = 0 PROVE u \notin first
    <3>1. some \subseteq ahead[u]
      <4>1. \A v \in some : v \in G /\ Remainder(w, top, v) > Remainder(w, top, u)
        BY <1>2, <1>4, <2>2
      <4>2. \A v \in some : v \in ToSet(pool) \cap DOMAIN w
        OBVIOUS
      <4> HIDE DEF some
      <4> QED
        BY <4>1, <4>2 DEF Ahead
    <3>2. ahead[u] \in SUBSET G
      BY DEF Ahead
    <3>3. IsFiniteSet(ahead[u])
      BY <1>1, <3>2, FS_Subset
    <3>4. z <= Cardinality(ahead[u]) /\ Cardinality(ahead[u]) \in Nat
      BY <3>1, <3>3, FS_Subset, FS_CardinalityType
    <3> HIDE DEF ahead, spare, z
    <3>5. ~(Cardinality(ahead[u]) < spare)
      BY <1>10, <1>12, <1>13, <3>4
    <3> QED
      BY <3>5
  <2>3. u \notin first => e[u] = 0
    OBVIOUS
  <2> HIDE DEF e, first
  <2> QED
    BY <2>1, <2>2, <2>3
<1> HIDE DEF q, m, r, spare, ahead, first, e
<1> QED
  BY <1>8, <1>16, <1>17 DEF PoolRounded

-----------------------------------------------------------------------------
(***************************************************************************)
(* The units of a vector.                                                  *)
(***************************************************************************)
\* x units of the size top stand for y, to within n halves of a unit.
Near(x, y, top, n) ==
    /\ 2 * (top * x) <= 2 * y + top * n
    /\ 2 * y <= 2 * (top * x) + top * n

LEMMA NearAdds ==
    ASSUME NEW top \in Nat, NEW x \in Nat, NEW y \in Nat, NEW n \in Nat,
           NEW v \in Nat, NEW z \in Nat, NEW k \in Nat,
           Near(x, y, top, n), Near(v, z, top, k)
    PROVE  Near(x + v, y + z, top, n + k)
<1>1. top * (x + v) = top * x + top * v /\ top * (n + k) = top * n + top * k
  OBVIOUS
<1>2. top * x \in Nat /\ top * v \in Nat /\ top * n \in Nat /\ top * k \in Nat
  OBVIOUS
<1>3. PICK a \in Nat, b \in Nat, c \in Nat, d \in Nat :
        a = top * x /\ b = top * v /\ c = top * n /\ d = top * k
  BY <1>2
<1> QED
  BY <1>1, <1>3 DEF Near

LEMMA NearGrows ==
    ASSUME NEW top \in Nat, NEW x \in Nat, NEW y \in Nat, NEW n \in Nat, NEW k \in Nat,
           n <= k, Near(x, y, top, n)
    PROVE  Near(x, y, top, k)
<1>1. top * k = top * n + top * (k - n) /\ k - n \in Nat
  OBVIOUS
<1>2. PICK a \in Nat, b \in Nat, c \in Nat : a = top * x /\ b = top * n /\ c = top * (k - n)
  BY <1>1
<1> QED
  BY <1>1, <1>2 DEF Near

LEMMA LargestIs ==
    ASSUME NEW S, IsFiniteSet(S), NEW w \in [S -> Nat]
    PROVE  /\ \A u \in S : w[u] <= Largest(w)
           /\ Largest(w) > 0 => \E u \in S : w[u] = Largest(w)
<1> DEFINE T == {w[u] : u \in DOMAIN w} \cup {0}
<1>1. IsFiniteSet({w[u] : u \in S})
  BY FiniteImage
<1>2. IsFiniteSet(T) /\ T \in SUBSET Nat /\ T # {} /\ T \in SUBSET Int
  BY <1>1, FS_AddElement
<1>3. Largest(w) = Max(T)
  BY DEF Largest
<1>4. \A u \in S : w[u] \in T
  OBVIOUS
<1>5. \A x \in T : x # 0 => \E u \in S : w[u] = x
  OBVIOUS
<1> HIDE DEF T
<1>6. Max(T) \in T /\ (\A x \in T : Max(T) >= x) /\ Max(T) \in Nat
  BY <1>2, FiniteExtremes
<1> QED
  BY <1>2, <1>3, <1>4, <1>5, <1>6

\* Pools are sequences of their members, and have none in common.
PoolsApart(groups) ==
    /\ \A g \in groups : DOMAIN g \subseteq Int
    /\ \A g, h \in groups : ToSet(g) \cap ToSet(h) # {} => g = h
Alone(groups, u) == \A g \in groups : u \notin ToSet(g)
Whole(T, P, groups) ==
    \A g \in groups : T \cap ToSet(g) # {} => ToSet(g) \cap P \subseteq T

LEMMA UnitAlone ==
    ASSUME NEW w, NEW groups, NEW u, Alone(groups, u)
    PROVE  Unit(w, groups, u) = HalfUp(w[u] * U16_MAX, Largest(w))
<1>1. {g \in groups : u \in ToSet(g)} = {}
  BY DEF Alone
<1> QED
  BY <1>1 DEF Unit

LEMMA UnitPooled ==
    ASSUME NEW w, NEW groups, PoolsApart(groups), NEW g \in groups, NEW u \in ToSet(g)
    PROVE  Unit(w, groups, u) = PoolUnits(w, Largest(w), g)[u]
<1>1. {h \in groups : u \in ToSet(h)} = {g}
  BY DEF PoolsApart
<1>2. (CHOOSE h \in {g} : TRUE) = g
  OBVIOUS
<1> QED
  BY <1>1, <1>2 DEF Unit

UnitsOf(w, groups, P) == [u \in P |-> Unit(w, groups, u)]

\* A unit is none too large, and the largest weight has the largest.
LEMMA UnitIs ==
    ASSUME NEW P, IsFiniteSet(P), NEW w \in [P -> Nat], Largest(w) > 0,
           NEW groups, PoolsApart(groups), NEW u \in P
    PROVE  /\ Unit(w, groups, u) \in Nat /\ Unit(w, groups, u) <= U16_MAX
           /\ w[u] = Largest(w) => Unit(w, groups, u) = U16_MAX
<1>1. U16_MAX \in Nat /\ U16_MAX > 0
  BY VoteAssumption
<1>2. PICK top \in Nat \ {0} : top = Largest(w) /\ w[u] <= top
  BY LargestIsNat, LargestIs
<1>3. PICK a \in Nat : a = w[u] * U16_MAX
  BY <1>1
<1>4. top * U16_MAX \in Nat /\ a <= top * U16_MAX /\ (w[u] = top => a = top * U16_MAX)
  BY <1>1, <1>2, <1>3
<1>5. w[u] # top => a + U16_MAX <= top * U16_MAX
  <2> SUFFICES ASSUME w[u] # top PROVE a + U16_MAX <= top * U16_MAX
    OBVIOUS
  <2>1. PICK x \in Nat, y \in Nat : x = w[u] /\ y = top - x /\ y >= 1
    BY <1>2
  <2>2. top * U16_MAX = x * U16_MAX + y * U16_MAX /\ y * U16_MAX >= U16_MAX
    BY <1>1, <1>2, <2>1
  <2> QED
    BY <1>1, <1>3, <2>1, <2>2
<1>6. /\ a \div top \in Nat /\ a % top \in Nat /\ a % top < top
      /\ a = top * (a \div top) + (a % top)
  BY Quotient
<1>7. CASE Alone(groups, u)
  <2>1. Unit(w, groups, u) = HalfUp(a, top)
    BY <1>2, <1>3, <1>7, UnitAlone
  <2>2. /\ HalfUp(a, top) \in Nat
        /\ 2 * (top * HalfUp(a, top)) <= 2 * a + top
        /\ 2 * a + top < 2 * (top * HalfUp(a, top)) + 2 * top
    BY HalfUpIs
  <2>3. PICK h \in Nat : h = HalfUp(a, top)
    BY <2>2
  <2>4. h <= U16_MAX
    <3> SUFFICES ASSUME h >= U16_MAX + 1 PROVE FALSE
      BY <1>1
    <3>1. top * h >= top * U16_MAX + top
      <4>1. top * h >= top * (U16_MAX + 1)
        BY <1>1
      <4>2. top * (U16_MAX + 1) = top * U16_MAX + top
        BY <1>1
      <4> QED
        BY <4>1, <4>2
    <3> QED
      BY <1>4, <2>2, <2>3, <3>1
  <2>5. w[u] = top => h >= U16_MAX
    <3> SUFFICES ASSUME w[u] = top, h + 1 <= U16_MAX PROVE FALSE
      BY <1>1
    <3>1. top * U16_MAX >= top * h + top
      <4>1. top * U16_MAX >= top * (h + 1)
        BY <1>1
      <4>2. top * (h + 1) = top * h + top
        OBVIOUS
      <4> QED
        BY <4>1, <4>2
    <3>2. 2 * (top * U16_MAX) + top < 2 * (top * h) + 2 * top
      BY <1>4, <2>2, <2>3
    <3> QED
      BY <1>4, <3>1, <3>2
  <2> QED
    BY <1>1, <1>2, <2>1, <2>3, <2>4, <2>5
<1>8. CASE ~Alone(groups, u)
  <2>1. PICK g \in groups : u \in ToSet(g)
    BY <1>8 DEF Alone
  <2> DEFINE G == ToSet(g) \cap P
             pu == PoolUnits(w, top, g)
             s == Scaled(w, G)
  <2>2. Unit(w, groups, u) = pu[u]
    BY <1>2, <2>1, UnitPooled
  <2>3. DOMAIN g \subseteq Int /\ u \in G /\ s \in [G -> Nat] /\ s[u] = a
    BY <1>1, <1>3, <2>1 DEF PoolsApart, Scaled
  <2>4. /\ pu \in [G -> Nat] /\ pu[u] <= a \div top + 1
        /\ a % top = 0 => pu[u] = a \div top
    <3>1. IsScaled(s, w, G)
      BY DEF Scaled, IsScaled
    <3>2. PoolRounded(pu, s, top, G)
      <4> HIDE DEF s
      <4> QED
        BY <2>3, <3>1, PoolRounds
    <3> QED
      BY <2>3, <3>2 DEF PoolRounded
  <2> HIDE DEF pu, s
  <2> HIDE DEF G
  <2>5. pu[u] \in Nat
    BY <2>3, <2>4
  <2>6. PICK q \in Nat, r \in Nat : q = a \div top /\ r = a % top /\ a = top * q + r /\ r < top
    BY <1>6
  <2>7. w[u] = top => q = U16_MAX /\ r = 0
    <3> SUFFICES ASSUME top * U16_MAX = top * q + r PROVE q = U16_MAX /\ r = 0
      BY <1>4, <2>6
    <3>1. CASE q >= U16_MAX + 1
      <4>1. top * q >= top * (U16_MAX + 1) /\ top * (U16_MAX + 1) = top * U16_MAX + top
        BY <1>1, <3>1
      <4> QED
        BY <1>4, <2>6, <4>1
    <3>2. CASE q + 1 <= U16_MAX
      <4>1. top * U16_MAX >= top * (q + 1) /\ top * (q + 1) = top * q + top
        BY <1>1, <3>2
      <4> QED
        BY <1>4, <2>6, <4>1
    <3>3. CASE q = U16_MAX
      BY <1>4, <3>3
    <3> QED
      BY <1>1, <3>1, <3>2, <3>3
  <2>8. w[u] # top => q + 1 <= U16_MAX
    <3> SUFFICES ASSUME a + U16_MAX <= top * U16_MAX, q >= U16_MAX PROVE FALSE
      BY <1>1, <1>5
    <3>1. top * q >= top * U16_MAX
      BY <1>1
    <3> QED
      BY <1>1, <1>4, <2>6, <3>1
  <2>9. pu[u] <= U16_MAX /\ (w[u] = top => pu[u] = U16_MAX)
    <3>1. CASE w[u] = top
      <4>1. pu[u] = q /\ q = U16_MAX
        BY <2>4, <2>6, <2>7, <3>1
      <4> QED
        BY <1>1, <4>1
    <3>2. CASE w[u] # top
      BY <1>1, <2>4, <2>5, <2>6, <2>8, <3>2
    <3> QED
      BY <3>1, <3>2
  <2> QED
    BY <1>2, <2>2, <2>5, <2>9
<1> QED
  BY <1>7, <1>8

\* Together the units of whole pools, and of UIDs alone, are what their weights
\* scale to: within half a unit for each.
LEMMA UnitsRound ==
    ASSUME NEW P, IsFiniteSet(P), NEW w \in [P -> Nat], Largest(w) > 0,
           NEW groups, PoolsApart(groups), NEW S \in SUBSET P, Whole(S, P, groups)
    PROVE  Near(Sum(UnitsOf(w, groups, P), S), Sum(Scaled(w, P), S), Largest(w), Cardinality(S))
<1>1. PICK top \in Nat \ {0} : top = Largest(w)
  BY LargestIsNat
<1>2. PICK x : x = UnitsOf(w, groups, P)
  OBVIOUS
<1>3. PICK y : y = Scaled(w, P)
  OBVIOUS
<1>4. x \in [P -> Nat] /\ \A u \in P : x[u] = Unit(w, groups, u)
  BY <1>2, UnitIs DEF UnitsOf
<1>5. U16_MAX \in Nat
  BY VoteAssumption
<1>6. y \in [P -> Nat] /\ \A u \in P : y[u] = w[u] * U16_MAX
  BY <1>3, <1>5 DEF Scaled
<1>7. SumLaws(x, P) /\ SumLaws(y, P) /\ SumSplits(x, P) /\ SumSplits(y, P)
  BY <1>4, <1>6, SumFacts, SumsSplit
<1> DEFINE Rounds(T) == Near(Sum(x, T), Sum(y, T), top, Cardinality(T))
           Good == {T \in SUBSET P : Whole(T, P, groups) => Rounds(T)}
\* The part of a whole subset that rounds together with one UID of it.
<1>8. ASSUME NEW T \in SUBSET P, Whole(T, P, groups), NEW t \in T
      PROVE  \E C \in SUBSET T : /\ t \in C /\ Near(Sum(x, C), Sum(y, C), top, 1)
                                 /\ Whole(T \ C, P, groups)
  <2>1. CASE Alone(groups, t)
    <3>1. Sum(x, {t}) = x[t] /\ Sum(y, {t}) = y[t]
      <4>1. {t} \in SUBSET P /\ t \in {t} /\ {t} \ {t} = {}
        OBVIOUS
      <4>2. Sum(x, {t}) = x[t] + 0 /\ Sum(y, {t}) = y[t] + 0
        BY <1>7, <4>1 DEF SumLaws
      <4>3. x[t] \in Nat /\ y[t] \in Nat
        BY <1>4, <1>6
      <4> QED
        BY <4>2, <4>3
    <3>2. PICK a \in Nat : a = w[t] * U16_MAX
      BY <1>5
    <3>3. x[t] = HalfUp(a, top) /\ y[t] = a
      BY <1>1, <1>4, <1>6, <2>1, <3>2, UnitAlone
    <3>4. PICK h \in Nat : /\ h = HalfUp(a, top) /\ 2 * (top * h) <= 2 * a + top
                           /\ 2 * a + top < 2 * (top * h) + 2 * top
      BY HalfUpIs
    <3>5. PICK p \in Nat : p = top * h
      BY <3>4
    <3>6. Near(h, a, top, 1)
      BY <3>4, <3>5 DEF Near
    <3>7. Whole(T \ {t}, P, groups)
      BY <1>8, <2>1 DEF Whole, Alone
    <3> QED
      BY <3>1, <3>3, <3>4, <3>6, <3>7
  <2>2. CASE ~Alone(groups, t)
    <3>1. PICK g \in groups : t \in ToSet(g)
      BY <2>2 DEF Alone
    <3> DEFINE G == ToSet(g) \cap P
               a == [u \in G |-> y[u]]
               pu == PoolUnits(w, top, g)
    <3>2. t \in G /\ G \in SUBSET T /\ DOMAIN g \subseteq Int
      BY <1>8, <3>1 DEF Whole, PoolsApart
    <3>3. Whole(T \ G, P, groups)
      BY <1>8 DEF Whole, PoolsApart
    <3>4. a \in [G -> Nat] /\ IsScaled(a, w, G)
      BY <1>6 DEF IsScaled
    <3>5. PoolRounded(pu, a, top, G)
      <4> HIDE DEF a
      <4> QED
        BY <3>2, <3>4, PoolRounds
    <3>6. Agree(x, pu, G) /\ Agree(y, a, G)
      <4>1. \A u \in G : Unit(w, groups, u) = pu[u]
        BY <1>1, UnitPooled
      <4>2. \A u \in G : a[u] = y[u]
        OBVIOUS
      <4> HIDE DEF a, pu
      <4> QED
        BY <1>4, <4>1, <4>2 DEF Agree
    <3>7. Sum(x, G) = Sum(pu, G) /\ Sum(y, G) = Sum(a, G)
      BY <3>6, SumsAgree
    <3>8. Sum(x, G) \in Nat /\ Sum(y, G) \in Nat
      BY <1>7 DEF SumLaws
    <3> HIDE DEF a, pu, G
    <3>9. /\ 2 * (top * Sum(x, G)) <= 2 * Sum(y, G) + top
          /\ 2 * Sum(y, G) <= 2 * (top * Sum(x, G)) + top
      <4>1. /\ 2 * (top * Sum(x, G)) <= 2 * Sum(y, G) + top
            /\ 2 * Sum(y, G) + top < 2 * (top * Sum(x, G)) + 2 * top
        BY <3>5, <3>7 DEF PoolRounded
      <4>2. PICK i \in Nat : i = top * Sum(x, G)
        BY <3>8
      <4> QED
        BY <3>8, <4>1, <4>2
    <3>10. top * 1 = top
      OBVIOUS
    <3>11. Near(Sum(x, G), Sum(y, G), top, 1)
      BY <3>9, <3>10 DEF Near
    <3> QED
      BY <3>2, <3>3, <3>11
  <2> QED
    BY <2>1, <2>2
<1>9. ASSUME NEW T \in SUBSET P, \A U \in (SUBSET T) \ {T} : U \in Good
      PROVE  T \in Good
  <2> SUFFICES ASSUME Whole(T, P, groups) PROVE Rounds(T)
    OBVIOUS
  <2>1. CASE T = {}
    <3>1. Sum(x, T) = 0 /\ Sum(y, T) = 0 /\ Cardinality(T) = 0 /\ top * 0 = 0
      BY <1>7, <2>1, FS_EmptySet DEF SumLaws
    <3> QED
      BY <3>1 DEF Near
  <2>2. CASE T # {}
    <3>1. PICK t \in T : TRUE
      BY <2>2
    <3>2. PICK C \in SUBSET T : /\ t \in C /\ Near(Sum(x, C), Sum(y, C), top, 1)
                                /\ Whole(T \ C, P, groups)
      BY <1>8, <3>1
    <3>3. T \ C \in (SUBSET T) \ {T}
      BY <3>2
    <3>4. Rounds(T \ C)
      BY <1>9, <3>2, <3>3
    <3>5. Sum(x, T) = Sum(x, C) + Sum(x, T \ C) /\ Sum(y, T) = Sum(y, C) + Sum(y, T \ C)
      BY <1>7 DEF SumSplits
    <3>6. /\ Sum(x, C) \in Nat /\ Sum(x, T \ C) \in Nat
          /\ Sum(y, C) \in Nat /\ Sum(y, T \ C) \in Nat /\ Sum(x, T) \in Nat /\ Sum(y, T) \in Nat
      BY <1>7 DEF SumLaws
    <3>7. /\ Cardinality(T \ C) \in Nat /\ Cardinality(T) \in Nat
          /\ 1 + Cardinality(T \ C) <= Cardinality(T)
      <4>1. IsFiniteSet(T) /\ IsFiniteSet(T \ {t})
        BY FS_Subset
      <4>2. Cardinality(T \ {t}) = Cardinality(T) - 1
        BY <3>1, <4>1, FS_RemoveElement
      <4>3. Cardinality(T \ C) <= Cardinality(T \ {t}) /\ IsFiniteSet(T \ C)
        BY <3>2, <4>1, FS_Subset
      <4> QED
        BY <4>1, <4>2, <4>3, FS_CardinalityType
    <3>8. PICK n \in Nat, k \in Nat : n = Cardinality(T \ C) /\ k = Cardinality(T) /\ 1 + n <= k
      BY <3>7
    <3>9. PICK a \in Nat, b \in Nat, c \in Nat, d \in Nat :
            /\ a = Sum(x, C) /\ b = Sum(x, T \ C) /\ c = Sum(y, C) /\ d = Sum(y, T \ C)
      BY <3>6
    <3>10. Near(a, c, top, 1) /\ Near(b, d, top, n) /\ 1 \in Nat /\ top \in Nat
      BY <3>2, <3>4, <3>8, <3>9
    <3>11. Near(a + b, c + d, top, 1 + n)
      BY <3>10, NearAdds
    <3>12. Near(a + b, c + d, top, k)
      <4>1. a + b \in Nat /\ c + d \in Nat /\ 1 + n \in Nat
        OBVIOUS
      <4> QED
        BY <3>8, <3>10, <3>11, <4>1, NearGrows
    <3> QED
      BY <3>5, <3>8, <3>9, <3>12
  <2> QED
    BY <2>1, <2>2
<1>10. S \in Good
  <2>1. \A T \in SUBSET P : (\A U \in (SUBSET T) \ {T} : U \in Good) => T \in Good
    BY <1>9
  <2> HIDE DEF Good
  <2>2. \A T \in SUBSET P : T \in Good
    BY <2>1, SubsetsAreGood
  <2> QED
    BY <2>2
<1> QED
  BY <1>1, <1>2, <1>3, <1>10

-----------------------------------------------------------------------------
(***************************************************************************)
(* The vector of a plan where the chain sets no limits, and the owner's    *)
(* share of it.                                                            *)
(***************************************************************************)
VectorOf(v, w, P) ==
    /\ \A groups : WeightVector(w, Unlimited[1], Unlimited[2], groups) = Units(v, groups)
    /\ Largest(v) > 0 /\ Total(v) # 0
    /\ v = [u \in P |-> w[u]] \/ \E p : P = {p}

\* Without limits the vector is made of the positive weights, or of one.
LEMMA VectorIs ==
    ASSUME NEW w \in [Uids -> Nat], NEW P, P = {u \in Uids : w[u] > 0}, P # {}
    PROVE  \E v \in [P -> Nat] : VectorOf(v, w, P)
<1> DEFINE r == [u \in P |-> w[u]]
           x == ProcessWeights(w, 1, <<1, 1>>)
<1>1. P \in SUBSET Uids /\ IsFiniteSet(P)
  BY UidsAreFinite, FS_Subset
<1>2. Cardinality(P) \in Nat /\ Cardinality(P) # 0
  BY <1>1, FS_CardinalityType, FS_EmptySet
<1>3. x = Capped(r, <<1, 1>>)
  <2>1. P = {u \in DOMAIN w : w[u] > 0}
    OBVIOUS
  <2>2. ~(Cardinality(P) < 1) /\ ~(Size < 1)
    BY <1>2, VoteAssumption
  <2> HIDE DEF r
  <2>3. x = Capped([u \in P |-> w[u]], <<1, 1>>)
    BY <2>1, <2>2 DEF ProcessWeights
  <2> QED
    BY <2>3 DEF r
<1>4. \A groups : WeightVector(w, Unlimited[1], Unlimited[2], groups) = Units(x, groups)
  BY DEF WeightVector, Unlimited
<1>5. r \in [P -> Nat] /\ \A u \in P : r[u] > 0
  OBVIOUS
<1>6. PICK k \in Nat : k = Cardinality(P) /\ k >= 1
  BY <1>2
<1>7. ASSUME NEW v \in [P -> Nat], NEW u \in P, v[u] > 0
      PROVE  /\ Largest(v) \in Nat /\ Total(v) \in Nat
             /\ Largest(v) > 0 /\ Total(v) # 0 /\ Largest(v) <= Total(v)
  <2>1. Largest(v) \in Nat /\ Total(v) \in Nat
    BY <1>1, LargestIsNat, TotalIsNat
  <2>2. v[u] <= Largest(v)
    BY <1>1, LargestIs
  <2>3. Largest(v) > 0
    BY <1>7, <2>1, <2>2
  <2>4. PICK t \in P : v[t] = Largest(v)
    BY <1>1, <2>3, LargestIs
  <2>5. v[t] <= Sum(v, P)
    BY <1>1, AddendIsInSum
  <2>6. Sum(v, P) = Total(v)
    <3>1. [y \in P |-> v[y]] = v
      OBVIOUS
    <3> QED
      BY <3>1 DEF Sum
  <2> QED
    BY <2>1, <2>3, <2>4, <2>5, <2>6
<1>8. CASE k <= 1
  <2> DEFINE one == [u \in P |-> 1]
  <2>1. DOMAIN r = P /\ <<1, 1>>[1] = 1 /\ <<1, 1>>[2] = 1
    OBVIOUS
  <2>2. k * 1 <= 1
    BY <1>6, <1>8
  <2> HIDE DEF r
  <2>3. x = one
    BY <1>3, <1>6, <2>1, <2>2 DEF Capped
  <2>4. \E p : P = {p}
    BY <1>1, <1>6, <1>8, FS_Singleton
  <2>5. one \in [P -> Nat] /\ \E u \in P : one[u] > 0
    OBVIOUS
  <2> HIDE DEF one, x
  <2>6. Largest(one) > 0 /\ Total(one) # 0
    BY <1>7, <2>5
  <2> QED
    BY <1>4, <2>3, <2>4, <2>5, <2>6 DEF VectorOf
<1>9. CASE k > 1
  <2>1. DOMAIN r = P /\ <<1, 1>>[1] = 1 /\ <<1, 1>>[2] = 1
    OBVIOUS
  <2>2. PICK u \in P : TRUE
    OBVIOUS
  <2> HIDE DEF r
  <2>3. /\ Largest(r) \in Nat /\ Total(r) \in Nat
        /\ Largest(r) > 0 /\ Total(r) # 0 /\ Largest(r) <= Total(r)
    BY <1>5, <1>7, <2>2
  <2>4. ~(Total(r) = 0) /\ ~(k * 1 <= 1) /\ Largest(r) * 1 <= 1 * Total(r)
    BY <1>6, <1>9, <2>3
  <2>5. x = r
    BY <1>3, <1>6, <2>1, <2>4 DEF Capped
  <2> HIDE DEF x
  <2> QED
    BY <1>4, <1>5, <2>3, <2>5 DEF r, VectorOf
<1>10. k <= 1 \/ k > 1
  BY <1>6
<1> QED
  BY <1>8, <1>9, <1>10

Encoded(units, x, P) ==
    /\ x \in [P -> Nat]
    /\ DOMAIN units = {u \in P : x[u] > 0} /\ DOMAIN units # {}
    /\ \A u \in DOMAIN units : units[u] = x[u]
    /\ Total(units) = Sum(x, P) /\ Largest(units) = U16_MAX

\* The encoder leaves out zeros, which changes no total, and gives the largest
\* weight the largest unit.
LEMMA UnitsAre ==
    ASSUME NEW P, IsFiniteSet(P), NEW v \in [P -> Nat], Largest(v) > 0, Total(v) # 0,
           NEW groups, PoolsApart(groups),
           NEW x, x = UnitsOf(v, groups, P), NEW units, units = Units(v, groups)
    PROVE  Encoded(units, x, P)
<1>1. U16_MAX \in Nat /\ U16_MAX > 0
  BY VoteAssumption
<1>2. /\ x \in [P -> Nat]
      /\ \A u \in P : /\ x[u] = Unit(v, groups, u) /\ x[u] <= U16_MAX
                      /\ v[u] = Largest(v) => x[u] = U16_MAX
  BY UnitIs DEF UnitsOf
<1> DEFINE pos == {u \in P : x[u] > 0}
<1>3. units = [u \in pos |-> x[u]]
  <2>1. {u \in DOMAIN v : Unit(v, groups, u) > 0} = pos
    BY <1>2
  <2>2. units = [u \in pos |-> Unit(v, groups, u)]
    BY <2>1 DEF Units
  <2> QED
    BY <1>2, <2>2
<1>4. PICK t \in P : v[t] = Largest(v)
  BY LargestIs
<1>5. t \in pos /\ x[t] = U16_MAX
  BY <1>1, <1>2, <1>4
<1>6. pos \in SUBSET P /\ IsFiniteSet(pos)
  BY FS_Subset
<1>7. Total(units) = Sum(x, P)
  <2>1. P \in SUBSET P
    OBVIOUS
  <2>2. Sum(x, P) = Sum(x, pos)
    BY <1>2, <2>1, SumOfPositives
  <2> HIDE DEF pos
  <2> QED
    BY <1>3, <2>2 DEF Sum
<1>8. Largest(units) = U16_MAX
  <2>1. units \in [pos -> Nat] /\ units[t] = U16_MAX /\ \A u \in pos : units[u] <= U16_MAX
    BY <1>2, <1>3, <1>5, <1>6
  <2> HIDE DEF pos
  <2>2. U16_MAX <= Largest(units) /\ Largest(units) \in Nat
    BY <1>5, <1>6, <2>1, LargestIs, LargestIsNat
  <2>3. Largest(units) > 0
    BY <1>1, <2>2
  <2>4. PICK u \in pos : units[u] = Largest(units)
    BY <1>6, <2>1, <2>3, LargestIs
  <2>5. Largest(units) <= U16_MAX
    BY <2>1, <2>4
  <2> QED
    BY <1>1, <2>2, <2>5
<1>9. DOMAIN units = pos /\ \A u \in pos : units[u] = x[u]
  BY <1>3
<1> QED
  BY <1>2, <1>5, <1>7, <1>8, <1>9 DEF Encoded

LEMMA NearScales ==
    ASSUME NEW top \in Nat, NEW x \in Nat, NEW y \in Nat, NEW n \in Nat, NEW c \in Nat,
           Near(x, y, top, n)
    PROVE  Near(c * x, c * y, top, c * n)
<1>1. PICK p \in Nat, q \in Nat : p = top * x /\ q = top * n
  OBVIOUS
<1>2. 2 * p <= 2 * y + q /\ 2 * y <= 2 * p + q
  BY <1>1 DEF Near
<1>3. c * (2 * p) <= c * (2 * y + q) /\ c * (2 * y) <= c * (2 * p + q)
  BY <1>1, <1>2
<1>4. /\ c * (2 * p) = 2 * (c * p) /\ c * (2 * y) = 2 * (c * y)
      /\ c * (2 * y + q) = 2 * (c * y) + c * q /\ c * (2 * p + q) = 2 * (c * p) + c * q
  BY <1>1
<1>5. c * p = top * (c * x) /\ c * q = top * (c * n)
  BY <1>1
<1> QED
  BY <1>3, <1>4, <1>5 DEF Near

LEMMA Cancels ==
    ASSUME NEW top \in Nat \ {0}, NEW x \in Nat, NEW y \in Nat, top * x <= top * y
    PROVE  x <= y
<1> SUFFICES ASSUME x >= y + 1 PROVE FALSE
  OBVIOUS
<1>1. top * x >= top * (y + 1) /\ top * (y + 1) = top * y + top
  OBVIOUS
<1>2. top * x \in Nat /\ top * y \in Nat
  OBVIOUS
<1> QED
  BY <1>1, <1>2

\* One share of what the owner has together with the rest: when the exact values
\* are in the proportion of the rate, the rounded ones are nearly.
LEMMA ShareRounds ==
    ASSUME NEW top \in Nat \ {0}, NEW b \in Nat, NEW c \in Nat,
           NEW x \in Nat, NEW y \in Nat, NEW a \in Nat, NEW r \in Nat,
           NEW m \in Nat, NEW n \in Nat, m <= n,
           Near(x, a, top, 1), Near(y, r, top, m), c * a = b * r
    PROVE  2 * Apart((b + c) * x, b * (x + y)) <= (b + c) * (n + 1)
<1>1. PICK cx \in Nat, by \in Nat, z \in Nat, bm \in Nat :
        cx = c * x /\ by = b * y /\ z = c * a /\ bm = b * m
  OBVIOUS
<1>2. Near(cx, z, top, c) /\ Near(by, z, top, bm)
  <2>1. Near(c * x, c * a, top, c * 1) /\ Near(b * y, b * r, top, b * m) /\ c * 1 = c
    <3>1. 1 \in Nat /\ top \in Nat /\ c * 1 = c
      OBVIOUS
    <3> QED
      BY <3>1, NearScales
  <2> QED
    BY <1>1, <2>1
<1>3. 2 * cx <= 2 * by + (c + bm) /\ 2 * by <= 2 * cx + (c + bm)
  <2>1. PICK p \in Nat, q \in Nat, d \in Nat, e \in Nat :
          p = top * cx /\ q = top * by /\ d = top * c /\ e = top * bm
    BY <1>1
  <2>2. 2 * p <= 2 * z + d /\ 2 * z <= 2 * p + d /\ 2 * q <= 2 * z + e /\ 2 * z <= 2 * q + e
    BY <1>2, <2>1 DEF Near
  <2>3. 2 * p <= 2 * q + (d + e) /\ 2 * q <= 2 * p + (d + e)
    BY <1>1, <2>1, <2>2
  <2>4. /\ top * (2 * cx) = 2 * p /\ top * (2 * by) = 2 * q
        /\ top * (2 * by + (c + bm)) = 2 * q + (d + e)
        /\ top * (2 * cx + (c + bm)) = 2 * p + (d + e)
    BY <1>1, <2>1
  <2>5. top * (2 * cx) <= top * (2 * by + (c + bm)) /\ top * (2 * by) <= top * (2 * cx + (c + bm))
    BY <2>3, <2>4
  <2>6. 2 * cx \in Nat /\ 2 * by \in Nat /\ 2 * by + (c + bm) \in Nat /\ 2 * cx + (c + bm) \in Nat
    BY <1>1
  <2> QED
    BY <2>5, <2>6, Cancels
<1>4. c + bm <= (b + c) * (n + 1)
  <2>1. b * n = bm + b * (n - m) /\ b * (n - m) \in Nat
    BY <1>1
  <2>2. (b + c) * (n + 1) = b * n + b + c * n + c /\ b * n \in Nat /\ c * n \in Nat
    OBVIOUS
  <2> QED
    BY <1>1, <2>1, <2>2
<1>5. (b + c) * x = b * x + cx /\ b * (x + y) = b * x + by /\ b * x \in Nat
  BY <1>1
<1>6. PICK f \in Nat, t \in Nat : f = b * x /\ t = (b + c) * (n + 1)
  BY <1>5
<1>7. 2 * Apart(f + cx, f + by) <= t
  BY <1>1, <1>3, <1>4, <1>6 DEF Apart
<1> QED
  BY <1>5, <1>6, <1>7

Burned(w, earned, owner, bps, rest) ==
    /\ w \in [Uids -> Nat] /\ Total(earned) \in Nat
    /\ w[owner] = bps * Total(earned)
    /\ \A u \in Uids : w[u] <= BPS * Total(earned)
    /\ \A u \in Uids \ {owner} : w[u] = rest * earned[u]
    /\ rest * w[owner] = bps * Sum(w, Uids \ {owner})

\* owner_burn_weights gives the owner its rate, to the digit.
LEMMA BurnIsExact ==
    ASSUME NEW earned \in [Uids -> Nat], NEW owner \in Uids, earned[owner] = 0,
           NEW bps \in Nat, NEW rest \in Nat, bps + rest = BPS,
           NEW w, w = OwnerBurnWeights(earned, owner, bps)
    PROVE  Burned(w, earned, owner, bps, rest)
<1> DEFINE Others == Uids \ {owner}
<1>1. PICK e \in Nat : e = Total(earned)
  BY UidsAreFinite, TotalIsNat
<1>2. rest = BPS - bps
  BY VoteAssumption
<1>3. w = [u \in Uids |-> IF u = owner THEN bps * e ELSE rest * earned[u]]
  BY <1>1, <1>2 DEF OwnerBurnWeights
<1>4. bps * e \in Nat /\ \A u \in Uids : rest * earned[u] \in Nat
  BY <1>1
<1>5. w \in [Uids -> Nat] /\ w[owner] = bps * e /\ \A u \in Others : w[u] = rest * earned[u]
  BY <1>3, <1>4
<1>6. e = Sum(earned, Uids) /\ Sum(earned, Uids) = Sum(earned, Others)
  <2>1. [u \in Uids |-> earned[u]] = earned
    OBVIOUS
  <2>2. SumLaws(earned, Uids)
    BY UidsAreFinite, SumFacts
  <2>3. Sum(earned, Uids) = earned[owner] + Sum(earned, Others) /\ Sum(earned, Others) \in Nat
    BY <2>2 DEF SumLaws
  <2> QED
    BY <1>1, <2>1, <2>3 DEF Sum
<1>7. Sum(w, Others) = rest * e
  <2> DEFINE k == [u \in Uids |-> rest * earned[u]]
  <2>1. k \in [Uids -> Nat] /\ Scales(k, rest, earned, Uids)
    BY <1>4 DEF Scales
  <2>2. Agree(w, k, Others)
    BY <1>5 DEF Agree
  <2>3. Others \in SUBSET Uids
    OBVIOUS
  <2> HIDE DEF k, Others
  <2>4. Sum(k, Others) = rest * Sum(earned, Others)
    BY <2>1, <2>3, UidsAreFinite, SumOfMultiples
  <2> QED
    BY <1>6, <2>2, <2>4, SumsAgree
<1>8. ASSUME NEW u \in Uids PROVE w[u] <= BPS * e
  <2>1. BPS * e = bps * e + rest * e /\ bps * e \in Nat /\ rest * e \in Nat
    BY <1>1, VoteAssumption
  <2>2. CASE u = owner
    BY <1>5, <2>1, <2>2
  <2>3. CASE u # owner
    <3>1. PICK x \in Nat, d \in Nat : x = earned[u] /\ e = x + d
      <4>1. Uids \in SUBSET Uids
        OBVIOUS
      <4>2. earned[u] <= e /\ earned[u] \in Nat
        BY <1>6, <4>1, UidsAreFinite, AddendIsInSum
      <4>3. e - earned[u] \in Nat /\ e = earned[u] + (e - earned[u])
        BY <1>1, <4>2
      <4> QED
        BY <4>2, <4>3
    <3>2. rest * e = rest * x + rest * d /\ rest * d \in Nat /\ rest * x \in Nat
      BY <3>1
    <3>3. w[u] = rest * x
      BY <1>5, <2>3, <3>1
    <3> QED
      BY <2>1, <3>2, <3>3
  <2> QED
    BY <2>2, <2>3
<1>9. rest * (bps * e) = bps * (rest * e)
  BY <1>1
<1> QED
  BY <1>1, <1>5, <1>7, <1>8, <1>9 DEF Burned

\* The vector of a rate between none and all passes the check of the share.
LEMMA HonestShareIsBurned ==
    ASSUME NEW earned \in [Uids -> Nat], Total(earned) # 0,
           NEW owner \in Uids, earned[owner] = 0,
           NEW bps \in Nat, 0 < bps, bps < BPS,
           NEW groups, PoolsApart(groups), Alone(groups, owner),
           NEW units,
           units = WeightVector(OwnerBurnWeights(earned, owner, bps),
                                Unlimited[1], Unlimited[2], groups)
    PROVE  ShareIsBurned(units, owner, bps)
<1>1. PICK w : w = OwnerBurnWeights(earned, owner, bps)
  OBVIOUS
<1>2. PICK rest \in Nat \ {0} : bps + rest = BPS
  <2>1. BPS - bps \in Nat \ {0} /\ bps + (BPS - bps) = BPS
    BY VoteAssumption
  <2> QED
    BY <2>1
<1>3. PICK e \in Nat \ {0} : e = Total(earned)
  BY UidsAreFinite, TotalIsNat
<1>4. /\ w \in [Uids -> Nat] /\ w[owner] = bps * e
      /\ \A u \in Uids : w[u] <= BPS * e
      /\ \A u \in Uids \ {owner} : w[u] = rest * earned[u]
      /\ rest * w[owner] = bps * Sum(w, Uids \ {owner})
  <2>1. rest \in Nat
    OBVIOUS
  <2>2. Burned(w, earned, owner, bps, rest)
    BY <1>1, <1>2, <2>1, BurnIsExact
  <2> QED
    BY <1>3, <2>2 DEF Burned
<1>5. PICK P : P = {u \in Uids : w[u] > 0}
  OBVIOUS
<1>6. P \in SUBSET Uids /\ IsFiniteSet(P)
  BY <1>5, UidsAreFinite, FS_Subset
<1>7. owner \in P
  <2>1. bps * e > 0
    BY <1>3
  <2> QED
    BY <1>4, <1>5, <2>1
<1>8. \E u \in P : u # owner
  <2>1. PICK u \in Uids : earned[u] > 0
    BY <1>3, UidsAreFinite, TotalIsNat
  <2>2. u # owner
    BY <2>1
  <2>3. PICK x \in Nat \ {0} : x = earned[u]
    BY <2>1
  <2>4. rest * x > 0
    BY <1>2, <2>3
  <2>5. u \in P
    BY <1>4, <1>5, <2>2, <2>3, <2>4
  <2> QED
    BY <2>2, <2>5
\* What is encoded.
<1>9. PICK v \in [P -> Nat] :
         /\ units = Units(v, groups) /\ Largest(v) > 0 /\ Total(v) # 0
         /\ v = [u \in P |-> w[u]]
  <2>1. ~\E p : P = {p}
    BY <1>7, <1>8
  <2>2. P # {}
    BY <1>7
  <2>3. units = WeightVector(w, Unlimited[1], Unlimited[2], groups)
    BY <1>1
  <2>4. PICK v \in [P -> Nat] : VectorOf(v, w, P)
    BY <1>4, <1>5, <2>2, VectorIs
  <2>5. v = [u \in P |-> w[u]]
    BY <2>1, <2>4 DEF VectorOf
  <2>6. units = Units(v, groups) /\ Largest(v) > 0 /\ Total(v) # 0
    BY <2>3, <2>4 DEF VectorOf
  <2> QED
    BY <2>5, <2>6
<1>10. PICK x : x = UnitsOf(v, groups, P)
  OBVIOUS
<1>11. /\ x \in [P -> Nat]
       /\ DOMAIN units = {u \in P : x[u] > 0} /\ DOMAIN units # {}
       /\ \A u \in DOMAIN units : units[u] = x[u]
       /\ Total(units) = Sum(x, P) /\ Largest(units) = U16_MAX
  <2>1. Encoded(units, x, P)
    BY <1>6, <1>9, <1>10, UnitsAre
  <2> QED
    BY <2>1 DEF Encoded
<1>12. PICK top \in Nat \ {0} : top = Largest(v)
  BY <1>6, <1>9, LargestIsNat
<1>13. PICK y : y = Scaled(v, P)
  OBVIOUS
<1>14. U16_MAX \in Nat /\ U16_MAX > 0 /\ BPS \in Nat /\ BPS <= 2 * U16_MAX
  BY VoteAssumption
<1>15. y \in [P -> Nat] /\ \A u \in P : y[u] = v[u] * U16_MAX /\ v[u] = w[u]
  BY <1>9, <1>13, <1>14 DEF Scaled
<1>16. SumLaws(x, P) /\ SumLaws(y, P) /\ SumLaws(v, P)
  BY <1>6, <1>11, <1>15, SumFacts
\* The owner's slot and the others, each together near what they scale to.
<1> DEFINE Others == P \ {owner}
<1>17. {owner} \in SUBSET P /\ Others \in SUBSET P
  BY <1>7
<1>18. Whole({owner}, P, groups) /\ Whole(Others, P, groups)
  BY DEF Whole, Alone
<1>19. /\ Near(Sum(x, {owner}), Sum(y, {owner}), top, Cardinality({owner}))
       /\ Near(Sum(x, Others), Sum(y, Others), top, Cardinality(Others))
  <2> HIDE DEF Others
  <2> QED
    BY <1>6, <1>9, <1>10, <1>12, <1>13, <1>17, <1>18, UnitsRound
<1>20. Sum(x, {owner}) = x[owner] /\ Sum(y, {owner}) = y[owner] /\ Cardinality({owner}) = 1
  <2>1. owner \in {owner} /\ {owner} \ {owner} = {}
    OBVIOUS
  <2>2. Sum(x, {owner}) = x[owner] + 0 /\ Sum(y, {owner}) = y[owner] + 0
    BY <1>16, <1>17, <2>1 DEF SumLaws
  <2>3. x[owner] \in Nat /\ y[owner] \in Nat
    BY <1>7, <1>11, <1>15
  <2> QED
    BY <2>2, <2>3, FS_Singleton
<1>21. Sum(x, P) = x[owner] + Sum(x, Others)
  <2>1. P \in SUBSET P
    OBVIOUS
  <2> QED
    BY <1>7, <1>16, <2>1 DEF SumLaws
<1>22. Sum(y, Others) = U16_MAX * Sum(v, Others)
  <2>1. Scales(y, U16_MAX, v, P)
    <3>1. ASSUME NEW u \in P PROVE y[u] = U16_MAX * v[u]
      <4>1. PICK z \in Nat : z = v[u]
        BY <1>9
      <4> QED
        BY <1>14, <1>15, <4>1
    <3> QED
      BY <3>1 DEF Scales
  <2> HIDE DEF Others
  <2> QED
    BY <1>6, <1>9, <1>14, <1>15, <1>17, <2>1, SumOfMultiples
<1>23. Sum(v, Others) = Sum(w, Uids \ {owner})
  <2>1. Others = {u \in Uids \ {owner} : w[u] > 0} /\ Uids \ {owner} \in SUBSET Uids
    BY <1>5
  <2>2. Sum(w, Uids \ {owner}) = Sum(w, Others)
    <3>1. Sum(w, Uids \ {owner}) = Sum(w, {u \in Uids \ {owner} : w[u] > 0})
      BY <1>4, <2>1, UidsAreFinite, SumOfPositives
    <3> QED
      BY <2>1, <3>1
  <2>3. Agree(v, w, Others)
    BY <1>15 DEF Agree
  <2> QED
    BY <2>2, <2>3, SumsAgree
\* The share, in the units.
<1>24. PICK xo \in Nat, xr \in Nat, yo \in Nat, yr \in Nat, wo \in Nat, wr \in Nat :
          /\ xo = x[owner] /\ xr = Sum(x, Others) /\ yo = y[owner] /\ yr = Sum(y, Others)
          /\ wo = w[owner] /\ wr = Sum(v, Others)
  <2>1. x[owner] \in Nat /\ y[owner] \in Nat /\ w[owner] \in Nat
    BY <1>4, <1>7, <1>11, <1>15
  <2>2. Sum(x, Others) \in Nat /\ Sum(y, Others) \in Nat /\ Sum(v, Others) \in Nat
    BY <1>16, <1>17 DEF SumLaws
  <2> QED
    BY <2>1, <2>2
<1>25. rest * yo = bps * yr
  <2>1. yo = wo * U16_MAX /\ yr = U16_MAX * wr /\ rest * wo = bps * wr
    BY <1>4, <1>7, <1>15, <1>22, <1>23, <1>24
  <2>2. rest * yo = (rest * wo) * U16_MAX /\ bps * yr = (bps * wr) * U16_MAX
    BY <1>14, <2>1
  <2> QED
    BY <2>1, <2>2
<1>26. PICK m \in Nat : m = Cardinality(Others) /\ m <= Size
  <2>1. Others \in SUBSET Uids
    BY <1>6
  <2> HIDE DEF Others
  <2>2. 0 \in Int /\ Size - 1 \in Int /\ Size \in Nat /\ Size # 0
    BY VoteAssumption
  <2>3. Cardinality(Uids) = Size
    BY <2>2, FS_Interval DEF Uids
  <2>4. Cardinality(Others) <= Cardinality(Uids) /\ IsFiniteSet(Others)
    BY <2>1, UidsAreFinite, FS_Subset
  <2> QED
    BY <2>3, <2>4, FS_CardinalityType
<1>27. Near(xo, yo, top, 1) /\ Near(xr, yr, top, m)
  BY <1>19, <1>20, <1>24, <1>26
<1>28. 2 * Apart(BPS * xo, bps * (xo + xr)) <= BPS * (Size + 1)
  <2>1. Size \in Nat /\ rest \in Nat
    BY VoteAssumption
  <2>2. 2 * Apart((bps + rest) * xo, bps * (xo + xr)) <= (bps + rest) * (Size + 1)
    BY <1>25, <1>26, <1>27, <2>1, ShareRounds
  <2> QED
    BY <1>2, <2>2
\* The lowest rate is not rounded away.
<1>29. xo > 0
  <2> SUFFICES ASSUME xo = 0 PROVE FALSE
    BY <1>24
  <2>1. xo = HalfUp(yo, top)
    BY <1>7, <1>9, <1>10, <1>12, <1>15, <1>24, UnitAlone DEF UnitsOf
  <2>2. 2 * yo + top < 2 * (top * 0) + 2 * top
    BY <2>1, HalfUpIs
  <2>3. top <= BPS * e
    <3>1. PICK u \in P : v[u] = top
      BY <1>6, <1>9, <1>12, LargestIs
    <3> QED
      BY <1>4, <1>6, <1>15, <3>1
  <2>4. BPS * e <= 2 * yo
    <3>1. yo = (bps * e) * U16_MAX
      BY <1>4, <1>7, <1>15, <1>24
    <3>2. PICK p \in Nat : p = e * U16_MAX
      BY <1>3, <1>14
    <3>3. yo = bps * p
      BY <1>3, <1>14, <3>1, <3>2
    <3>4. bps * p >= p
      BY <3>2
    <3>5. BPS * e <= (2 * U16_MAX) * e /\ (2 * U16_MAX) * e = 2 * p
      BY <1>3, <1>14, <3>2
    <3> QED
      BY <1>3, <1>14, <3>2, <3>3, <3>4, <3>5
  <2>5. BPS * e \in Nat /\ top * 0 = 0
    BY <1>3, <1>14
  <2> QED
    BY <2>2, <2>3, <2>4, <2>5
<1>30. /\ owner \in DOMAIN units /\ units[owner] = xo /\ Total(units) = xo + xr
  BY <1>7, <1>11, <1>21, <1>24, <1>29
<1> QED
  BY <1>11, <1>28, <1>30 DEF ShareIsBurned, ShareTolerance

-----------------------------------------------------------------------------
(***************************************************************************)
(* A plan that the recheck refuses for nothing but what changed since.     *)
(***************************************************************************)
\* Pools have no member in common: each hotkey has one home.
Disjoint(ps) == \A p, q \in ps : p \cap q # {} => p = q

LEMMA PoolsAreDisjoint ==
    ASSUME NEW window, NEW scored
    PROVE  Disjoint(DuplicatePools(window, scored))
<1> DEFINE ages(h) == {i \in DOMAIN window : \E g \in window[i] : Joined(g, scored, h)}
           pooled == {h \in scored : ages(h) # {}}
           home(h) == LET i == Assigned(ages(h))
                      IN <<i, CHOOSE g \in window[i] : Joined(g, scored, h)>>
           class(h) == {k \in pooled : home(k) = home(h)}
<1>1. DuplicatePools(window, scored) =
        {p \in {class(h) : h \in pooled} : Cardinality(p) > 1}
  BY DEF DuplicatePools
<1> HIDE DEF home, pooled
<1>2. \A h, k, j : j \in class(h) /\ j \in class(k) => class(h) = class(k)
  OBVIOUS
<1>3. \A p \in DuplicatePools(window, scored) : \E h : p = class(h)
  BY <1>1
<1> HIDE DEF class
<1> QED
  BY <1>2, <1>3 DEF Disjoint

LEMMA SequenceOfSet ==
    ASSUME NEW S, IsFiniteSet(S)
    PROVE  DOMAIN SetToSeq(S) \subseteq Int /\ ToSet(SetToSeq(S)) \subseteq S
<1> DEFINE n == Cardinality(S)
           f == SetToSeq(S)
<1>1. \E g \in [1 .. n -> S] : \A i, j \in 1 .. n : g[i] = g[j] => i = j
  <2>1. ExistsBijection(1 .. n, S)
    BY FS_CardinalityType
  <2> QED
    BY <2>1 DEF ExistsBijection, Bijection, Injection, IsInjective
<1>2. \E g \in [1 .. n -> S] : IsInjective(g)
  BY <1>1 DEF IsInjective
<1>3. f \in [1 .. n -> S]
  BY <1>2 DEF SetToSeq
<1>4. 1 .. n \subseteq Int
  OBVIOUS
<1> HIDE DEF f, n
<1> QED
  BY <1>3, <1>4 DEF f, ToSet

\* What the encoder is given rounds no UID in two pools, and none that is withheld.
LEMMA GroupsAreApart ==
    ASSUME Disjoint(pools), NEW withheld, NEW groups, groups = PoolUids(withheld)
    PROVE  PoolsApart(groups) /\ \A g \in groups : ToSet(g) \cap withheld = {}
<1> DEFINE uids(p) == {u \in Uids \ withheld : local[u] \in p}
<1>1. \A g \in groups : \E p \in pools : g = SetToSeq(uids(p))
  BY DEF PoolUids
<1>2. \A p : DOMAIN SetToSeq(uids(p)) \subseteq Int /\ ToSet(SetToSeq(uids(p))) \subseteq uids(p)
  <2>1. \A p : uids(p) \in SUBSET Uids
    OBVIOUS
  <2>2. \A p : IsFiniteSet(uids(p))
    BY <2>1, UidsAreFinite, FS_Subset
  <2> HIDE DEF uids
  <2> QED
    BY <2>2, SequenceOfSet
<1>3. \A p : uids(p) \cap withheld = {}
  OBVIOUS
<1>4. \A p, q \in pools : uids(p) \cap uids(q) # {} => p = q
  BY DEF Disjoint
<1> HIDE DEF uids
<1> QED
  BY <1>1, <1>2, <1>3, <1>4 DEF PoolsApart

\* What an honest plan pays: all to the owner, or what was earned by hotkeys that
\* hold their slots and are not the owner's, with the owner's share of it.
Pays(plan, at, l, earned) ==
    /\ earned \in [Uids -> Nat] /\ Total(earned) # 0
    /\ plan.bps \in Nat /\ plan.bps < BPS
    /\ plan.weights = IF plan.bps = 0 THEN earned
                      ELSE OwnerBurnWeights(earned, plan.owner, plan.bps)
    /\ earned[plan.owner] = 0
    /\ \A u \in Uids : earned[u] > 0 =>
         /\ u \notin plan.withheld
         /\ at.hotkeys[u] = l[u] /\ at.cold[at.hotkeys[u]] # at.ownerCold

Honest(plan, at, l) ==
    /\ PoolsApart(plan.groups) /\ \A g \in plan.groups : ToSet(g) \cap plan.withheld = {}
    /\ plan.owner \in Uids /\ plan.owner \in plan.withheld /\ plan.withheld \subseteq Uids
    /\ at.hotkeys[plan.owner] = l[plan.owner]
    /\ \/ plan.bps = BPS /\ plan.weights = OneHot(plan.owner)
       \/ \E earned : Pays(plan, at, l, earned)

\* The owner alone gets all of it.
LEMMA OneHotFits ==
    ASSUME NEW owner \in Uids, NEW groups, PoolsApart(groups),
           NEW units, units = WeightVector(OneHot(owner), Unlimited[1], Unlimited[2], groups)
    PROVE  units = [u \in {owner} |-> U16_MAX]
<1> DEFINE w == OneHot(owner)
           P == {u \in Uids : w[u] > 0}
<1>1. w \in [Uids -> Nat] /\ P = {owner}
  BY DEF OneHot
<1>2. IsFiniteSet({owner})
  BY FS_Singleton
<1> HIDE DEF w
<1>3. PICK v \in [P -> Nat] : VectorOf(v, w, P)
  <2>1. P # {}
    BY <1>1
  <2> QED
    BY <1>1, <2>1, VectorIs
<1> HIDE DEF P
<1>4. v \in [{owner} -> Nat]
  BY <1>1
<1>5. units = Units(v, groups) /\ Largest(v) > 0 /\ Total(v) # 0
  BY <1>3 DEF VectorOf, w
<1>6. PICK x : x = UnitsOf(v, groups, {owner})
  OBVIOUS
<1>7. Encoded(units, x, {owner})
  BY <1>2, <1>4, <1>5, <1>6, UnitsAre
<1>8. v[owner] = Largest(v)
  BY <1>2, <1>4, <1>5, LargestIs
<1>9. x[owner] = U16_MAX
  <2>1. x[owner] = Unit(v, groups, owner) /\ owner \in {owner}
    BY <1>6 DEF UnitsOf
  <2> QED
    BY <1>2, <1>4, <1>5, <1>8, <2>1, UnitIs
<1>10. DOMAIN units = {owner} /\ units[owner] = U16_MAX
  BY <1>7, <1>9 DEF Encoded
<1>11. units = [u \in DOMAIN units |-> units[u]]
  BY <1>5 DEF Units
<1> QED
  BY <1>10, <1>11

\* An honest plan passes the recheck of the vector, and of the state it is from.
LEMMA HonestFits ==
    ASSUME limits = Unlimited, NEW plan, NEW at, Honest(plan, at, local),
           NEW units,
           units = WeightVector(plan.weights, Unlimited[1], Unlimited[2], plan.groups)
    PROVE  VectorFits(plan, units) /\ StateHolds(plan, at, at, units)
<1>1. PICK owner \in Uids : owner = plan.owner
  BY DEF Honest
<1>2. PICK groups, withheld : groups = plan.groups /\ withheld = plan.withheld
  OBVIOUS
<1>3. /\ PoolsApart(groups) /\ \A g \in groups : ToSet(g) \cap withheld = {}
      /\ owner \in withheld /\ withheld \subseteq Uids
      /\ at.hotkeys[owner] = local[owner]
  BY <1>1, <1>2 DEF Honest
<1>4. Alone(groups, owner)
  BY <1>3 DEF Alone
<1>5. CASE plan.bps = BPS /\ plan.weights = OneHot(plan.owner)
  <2>1. units = [u \in {owner} |-> U16_MAX]
    BY <1>1, <1>2, <1>3, <1>5, OneHotFits
  <2>2. VectorFits(plan, units)
    BY <1>1, <1>5, <2>1 DEF VectorFits
  <2>3. DOMAIN units \cup {owner} = {owner}
    BY <2>1
  <2> QED
    BY <1>1, <1>2, <1>3, <2>2, <2>3 DEF StateHolds
<1>6. CASE plan.bps # BPS
  <2>1. PICK earned : Pays(plan, at, local, earned)
    BY <1>6 DEF Honest
  <2>2. PICK bps \in Nat : bps = plan.bps /\ bps < BPS
    BY <2>1 DEF Pays
  <2>3. PICK w : w = plan.weights
    OBVIOUS
  <2>4. /\ earned \in [Uids -> Nat] /\ Total(earned) # 0 /\ earned[owner] = 0
        /\ w = IF bps = 0 THEN earned ELSE OwnerBurnWeights(earned, owner, bps)
        /\ \A u \in Uids : earned[u] > 0 =>
             /\ u \notin withheld
             /\ at.hotkeys[u] = local[u] /\ at.cold[at.hotkeys[u]] # at.ownerCold
    BY <1>1, <1>2, <2>1, <2>2, <2>3 DEF Pays
  <2>5. units = WeightVector(w, Unlimited[1], Unlimited[2], groups)
    BY <1>2, <2>3
  \* Only what was earned, and the owner's share, is in the vector.
  <2>6. /\ w \in [Uids -> Nat] /\ \E u \in Uids : w[u] > 0
        /\ \A u \in Uids \ {owner} : w[u] > 0 => earned[u] > 0
    <3>1. PICK u \in Uids : earned[u] > 0
      BY <2>4, UidsAreFinite, TotalIsNat
    <3>2. CASE bps = 0
      BY <2>4, <3>1, <3>2
    <3>3. CASE bps # 0
      <4>1. PICK rest \in Nat : rest > 0 /\ bps + rest = BPS
        <5>1. BPS - bps \in Nat /\ BPS - bps > 0 /\ bps + (BPS - bps) = BPS
          BY <2>2, VoteAssumption
        <5> QED
          BY <5>1
      <4>2. w = OwnerBurnWeights(earned, owner, bps)
        BY <2>4, <3>3
      <4>3. Burned(w, earned, owner, bps, rest)
        BY <2>4, <4>1, <4>2, BurnIsExact
      <4>4. w \in [Uids -> Nat] /\ \A t \in Uids \ {owner} : w[t] = rest * earned[t]
        BY <4>3 DEF Burned
      <4>5. ASSUME NEW t \in Uids \ {owner} PROVE w[t] > 0 <=> earned[t] > 0
        <5>1. PICK x \in Nat : x = earned[t]
          BY <2>4
        <5>2. (x = 0 => rest * x = 0) /\ (x > 0 => rest * x > 0)
          BY <4>1
        <5> QED
          BY <4>4, <5>1, <5>2
      <4>6. u # owner
        BY <2>4, <3>1
      <4> QED
        BY <3>1, <4>4, <4>5, <4>6
    <3> QED
      BY <3>2, <3>3
  <2>7. DOMAIN units \subseteq {u \in Uids : w[u] > 0}
    BY <2>5, <2>6, VectorIsPositive
  <2>8. ASSUME NEW u \in DOMAIN units, u # owner
        PROVE  /\ u \notin withheld
               /\ at.hotkeys[u] = local[u] /\ at.cold[at.hotkeys[u]] # at.ownerCold
    BY <2>4, <2>6, <2>7, <2>8
  <2>9. StateHolds(plan, at, at, units)
    BY <1>1, <1>2, <1>3, <2>8 DEF StateHolds
  <2>10. CASE bps = 0
    <3>1. w = earned /\ owner \notin DOMAIN units
      BY <2>4, <2>7, <2>10
    <3>2. DOMAIN units \cap withheld = {}
      BY <2>8, <3>1
    <3>3. ShareIsBurned(units, owner, bps)
      <4>1. PICK P : P = {u \in Uids : w[u] > 0}
        OBVIOUS
      <4>2. P # {} /\ IsFiniteSet(P)
        BY <2>6, <4>1, UidsAreFinite, FS_Subset
      <4>3. PICK v \in [P -> Nat] : VectorOf(v, w, P)
        BY <2>6, <4>1, <4>2, VectorIs
      <4>4. units = Units(v, groups) /\ Largest(v) > 0 /\ Total(v) # 0
        BY <2>5, <4>3 DEF VectorOf
      <4>5. PICK x : x = UnitsOf(v, groups, P)
        OBVIOUS
      <4>6. Encoded(units, x, P)
        BY <1>3, <4>2, <4>4, <4>5, UnitsAre
      <4> QED
        BY <2>10, <4>6 DEF Encoded, ShareIsBurned
    <3>4. VectorFits(plan, units)
      BY <1>1, <1>2, <1>6, <2>2, <2>10, <3>2, <3>3 DEF VectorFits
    <3> QED
      BY <2>9, <3>4
  <2>11. CASE bps # 0
    <3>1. ShareIsBurned(units, owner, bps)
      <4>1. 0 < bps /\ w = OwnerBurnWeights(earned, owner, bps)
        BY <2>4, <2>11
      <4>2. units = WeightVector(OwnerBurnWeights(earned, owner, bps),
                                 Unlimited[1], Unlimited[2], groups)
        BY <2>5, <4>1
      <4> QED
        BY <1>3, <1>4, <2>2, <2>4, <4>1, <4>2, HonestShareIsBurned
    <3>2. DOMAIN units \cap (withheld \ {owner}) = {}
      BY <2>8
    <3>3. VectorFits(plan, units)
      BY <1>1, <1>2, <1>6, <2>2, <2>11, <3>1, <3>2 DEF VectorFits
    <3> QED
      BY <2>9, <3>3
  <2> QED
    BY <2>10, <2>11
<1> QED
  BY <1>5, <1>6 DEF Honest, Pays

LEMMA PlanIsMadeHonest ==
    ASSUME ScoresAreEarned, Disjoint(pools), FirstRefusal = None, network # "none",
           NEW plan, plan = Plan, NEW at, at = Facts
    PROVE  Honest(plan, at, local)
<1>1. scores \in [Uids -> Nat]
  BY DEF ScoresAreEarned
<1>2. /\ OwnerUids # {} /\ LocalOwnerAgrees
      /\ Mode = "scored" => \A u \in Uids : scores[u] > 0 => local[u] = chain.hotkeys[u]
  BY NoRefusal
<1>3. PICK owner \in Uids : owner = OwnerUid /\ chain.hotkeys[owner] = chain.owner
  BY <1>2 DEF OwnerUids, OwnerUid
<1>4. at.hotkeys = chain.hotkeys /\ at.cold = chain.cold /\ at.ownerCold = chain.ownerCold
  BY DEF Facts
<1>5. at.hotkeys[owner] = local[owner]
  BY <1>2, <1>3, <1>4 DEF LocalOwnerAgrees
<1> DEFINE withheld == IF Mode = "scored" THEN Withheld ELSE {OwnerUid}
           vote == VoteNetworkWeights(Earned, OwnerUid, ObservedBurnRate)
<1>6. /\ plan.weights = vote.weights /\ plan.bps = vote.bps /\ plan.owner = owner
      /\ plan.withheld = withheld /\ plan.groups = PoolUids(withheld)
  BY <1>3 DEF Plan
<1>7. owner \in withheld /\ withheld \subseteq Uids
  BY <1>3 DEF Withheld
<1>8. PoolsApart(plan.groups) /\ \A g \in plan.groups : ToSet(g) \cap plan.withheld = {}
  <2> HIDE DEF withheld
  <2> QED
    BY <1>6, GroupsAreApart
<1>9. \/ plan.bps = BPS /\ plan.weights = OneHot(plan.owner)
      \/ \E earned : Pays(plan, at, local, earned)
  <2>1. CASE Total(Earned) = 0 \/ ObservedBurnRate = BPS
    <3>1. vote = [weights |-> OneHot(OwnerUid), bps |-> BPS]
      BY <2>1 DEF VoteNetworkWeights
    <3> QED
      BY <1>3, <1>6, <3>1
  <2>2. CASE Total(Earned) # 0 /\ ObservedBurnRate # BPS
    <3>1. PICK earned : earned = Earned
      OBVIOUS
    <3>2. PICK bps : bps = ObservedBurnRate
      OBVIOUS
    <3>3. AsksRate /\ Mode = "scored"
      BY <2>2 DEF ObservedBurnRate, AsksRate
    <3>4. bps \in Nat /\ bps < BPS
      <4>1. BurnRate(chain.text) \in 0 .. BPS /\ bps = BurnRate(chain.text)
        BY <3>2, <3>3, VoteAssumption DEF ObservedBurnRate, BurnRate
      <4> QED
        BY <2>2, <3>2, <4>1, VoteAssumption
    <3>5. vote = [weights |-> IF bps = 0 THEN earned ELSE OwnerBurnWeights(earned, owner, bps),
                  bps |-> bps]
      BY <1>3, <2>2, <3>1, <3>2 DEF VoteNetworkWeights
    <3>6. plan.bps = bps /\ plan.weights = IF bps = 0 THEN earned
                                           ELSE OwnerBurnWeights(earned, owner, bps)
      <4> HIDE DEF vote
      <4> QED
        BY <1>6, <3>5
    <3>7. plan.withheld = Withheld
      BY <1>6, <3>3
    <3>8. earned \in [Uids -> Nat] /\ Total(earned) # 0
      BY <1>1, <2>2, <3>1 DEF Earned
    <3>9. \A u \in Withheld : u \in Uids => earned[u] = 0
      BY <3>1 DEF Earned
    <3>10. ASSUME NEW u \in Uids, earned[u] > 0
           PROVE  /\ u \notin Withheld
                  /\ at.hotkeys[u] = local[u] /\ at.cold[at.hotkeys[u]] # at.ownerCold
      <4>1. u \notin Withheld /\ scores[u] > 0
        BY <3>1, <3>9, <3>10 DEF Earned
      <4>2. at.hotkeys[u] = local[u]
        BY <1>2, <1>4, <3>3, <4>1
      <4>3. chain.cold[chain.hotkeys[u]] # chain.ownerCold
        BY <4>1 DEF Withheld
      <4> QED
        BY <1>4, <4>1, <4>2, <4>3
    <3>11. earned[plan.owner] = 0
      BY <1>6, <1>7, <3>3, <3>9
    <3>12. Pays(plan, at, local, earned)
      BY <1>6, <3>4, <3>6, <3>7, <3>8, <3>10, <3>11 DEF Pays
    <3> QED
      BY <3>12
  <2> QED
    BY <2>1, <2>2
<1> HIDE DEF withheld
<1> QED
  BY <1>5, <1>6, <1>7, <1>8, <1>9 DEF Honest

\* A vector that is refused is not all of what the recheck lets through.
LEMMA RefusedMakes ==
    ASSUME Prepare, attempt'.pc = "refused"
    PROVE  \E state, units :
             /\ state \in OwnerStates
             /\ units = WeightVector(attempt.plan.weights, limits[1], limits[2],
                                     attempt.plan.groups)
             /\ network # "none"
             /\ ~(/\ VectorFits(attempt.plan, units)
                  /\ \E now \in state : StateHolds(attempt.plan, attempt.at, now, units))
             /\ attempt'.at = attempt.at /\ attempt'.facts = state
<1> DEFINE vector == WeightVector(attempt.plan.weights, limits[1], limits[2],
                                  attempt.plan.groups)
           holds(state, units) ==
             \/ network = "none"
             \/ /\ VectorFits(attempt.plan, units)
                /\ \E now \in state : StateHolds(attempt.plan, attempt.at, now, units)
<1>1. PICK state \in OwnerStates :
        attempt' = [pc |-> IF holds(state, vector) THEN "prepared" ELSE "refused",
                    plan |-> attempt.plan, at |-> attempt.at, text |-> attempt.text,
                    units |-> vector,
                    facts |-> IF network = "none" THEN {attempt.at} ELSE state]
  BY Zenon DEF Prepare
<1>2. PICK fits \in BOOLEAN : fits <=> holds(state, vector)
  BY Zenon
<1>3. PICK units : units = vector
  OBVIOUS
<1> HIDE DEF holds, vector
<1>4. ~fits /\ attempt'.at = attempt.at
  BY <1>1, <1>2
<1>5. ~holds(state, units)
  BY <1>2, <1>3, <1>4
<1>6. network # "none"
  BY <1>5 DEF holds
<1>7. ~(/\ VectorFits(attempt.plan, units)
        /\ \E now \in state : StateHolds(attempt.plan, attempt.at, now, units))
  BY <1>5, Zenon DEF holds
<1>8. attempt'.facts = state
  BY <1>1, <1>6
<1> QED
  BY <1>3, <1>4, <1>6, <1>7, <1>8 DEF vector

-----------------------------------------------------------------------------
(***************************************************************************)
(* The invariant of honest votes.                                          *)
(***************************************************************************)
\* While a vote is decided, nothing moves what its plan is honest for: this
\* validator's metagraph and its pools change between attempts.
PlanIsHonest ==
    attempt.pc = "planned" /\ network # "none" => Honest(attempt.plan, attempt.at, local)

HonestInv ==
    /\ AttemptInv
    /\ Disjoint(pools)
    /\ PlanIsHonest
    /\ HonestVoteIsNotRefused

LEMMA PoolsKeep ==
    ASSUME Disjoint(pools), [Next]_vars
    PROVE  Disjoint(pools)'
<1>1. ASSUME NEW d, NEW l, ApplyWeights(d, l) PROVE Disjoint(pools)'
  <2>1. PICK ps : ps = ScoredPools(d, l)
    OBVIOUS
  <2>2. Disjoint(ps)
    BY <2>1, PoolsAreDisjoint DEF ScoredPools
  <2>3. pools' = ps
    BY <1>1, <2>1 DEF ApplyWeights
  <2> QED
    BY <2>2, <2>3 DEF Disjoint
<1>2. pools' = pools => Disjoint(pools)'
  BY DEF Disjoint
<1>3. CASE Tick
  <2>1. CASE ApplyWeights(durable', local)
    <3>1. PICK d : d = durable'
      OBVIOUS
    <3>2. ApplyWeights(d, local)
      BY <2>1, <3>1
    <3> QED
      BY <1>1, <3>2
  <2>2. CASE pools' = pools
    BY <1>2, <2>2
  <2> QED
    BY <1>3, <2>1, <2>2 DEF Tick
<1>4. CASE Resync
  <2>1. CASE ScoresRead(local')
    <3>1. PICK l : l = local'
      OBVIOUS
    <3>2. ApplyWeights(durable, l)
      BY <2>1, <3>1 DEF ScoresRead
    <3> QED
      BY <1>1, <3>2
  <2>2. CASE ScoresUnreadable(Aligned(local'))
    BY <1>2, <2>2 DEF ScoresUnreadable
  <2> QED
    BY <1>4, <2>1, <2>2 DEF Resync
<1>5. CASE Refresh
  BY <1>1, <1>2, <1>5 DEF Refresh, ScoresRead, ScoresUnreadable
<1>6. CASE \/ Reconcile \/ Abstain \/ AskLedger \/ ReadRaises \/ PlanRefused \/ PlanMade
           \/ Prepare \/ RecordRefused \/ NotePrepared \/ RecordOutcome \/ NoteWritten
  BY <1>2, <1>6 DEF scoreVars, Reconcile, Abstain, AskLedger, ReadRaises, PlanRefused, PlanMade,
     Prepare, RecordRefused, NotePrepared, RecordOutcome, NoteWritten
<1>7. CASE Waits
  BY <1>2, <1>7, WaitsKeep DEF scoreVars
<1> QED
  BY <1>3, <1>4, <1>5, <1>6, <1>7 DEF Next, Waits

LEMMA HonestKeeps ==
    ASSUME AttemptInv, Disjoint(pools), PlanIsHonest, [Next]_vars
    PROVE  PlanIsHonest'
<1>1. CASE PlanMade
  <2>1. /\ FirstRefusal = None /\ ScoresAreEarned /\ local' = local /\ network' = network
    BY <1>1 DEF PlanMade, AttemptInv, chainVars, scoreVars
  <2>2. CASE ~Due \/ network = "none"
    <3>1. ~Due => attempt'.pc = "idle"
      BY <1>1 DEF PlanMade, Idle
    <3> QED
      BY <2>1, <2>2, <3>1 DEF PlanIsHonest
  <2>3. CASE Due /\ network # "none"
    <3>1. PICK plan, at, l : plan = Plan /\ at = Facts /\ l = local
      OBVIOUS
    <3>2. Honest(plan, at, l)
      BY <1>1, <2>1, <2>3, <3>1, PlanIsMadeHonest DEF AttemptInv
    <3>3. attempt'.plan = plan /\ attempt'.at = at /\ local' = l
      BY <1>1, <2>1, <2>3, <3>1 DEF PlanMade
    <3> QED
      BY <3>2, <3>3 DEF PlanIsHonest, Honest, Pays
  <2> QED
    BY <2>2, <2>3
<1>2. CASE Waits
  <2>1. attempt' = attempt /\ local' = local /\ network' = network
    BY <1>2, WaitsKeep DEF scoreVars
  <2> QED
    BY <2>1 DEF PlanIsHonest, Honest, Pays
<1>3. CASE \/ Tick \/ Resync \/ Reconcile \/ Refresh \/ Abstain \/ AskLedger \/ ReadRaises
           \/ PlanRefused \/ Prepare \/ RecordRefused \/ NotePrepared \/ RecordOutcome
           \/ NoteWritten
  <2>1. attempt'.pc # "planned"
    BY <1>3, AttemptMoves
  <2> QED
    BY <2>1 DEF PlanIsHonest
<1> QED
  BY <1>1, <1>2, <1>3 DEF Next, Waits

LEMMA RefusedKeeps ==
    ASSUME PlanIsHonest, HonestVoteIsNotRefused, [Next]_vars
    PROVE  HonestVoteIsNotRefused'
<1>1. CASE Prepare
  <2> SUFFICES ASSUME attempt'.pc = "refused", limits' = Unlimited
               PROVE  attempt'.facts # {attempt'.at}
    BY DEF HonestVoteIsNotRefused, Unlimited
  <2>1. attempt.pc = "planned" /\ limits' = limits
    BY <1>1 DEF Prepare, chainVars
  <2>2. PICK state, units :
          /\ state \in OwnerStates
          /\ units = WeightVector(attempt.plan.weights, limits[1], limits[2],
                                  attempt.plan.groups)
          /\ network # "none"
          /\ ~(/\ VectorFits(attempt.plan, units)
               /\ \E now \in state : StateHolds(attempt.plan, attempt.at, now, units))
          /\ attempt'.at = attempt.at /\ attempt'.facts = state
    BY <1>1, RefusedMakes
  <2>3. PICK plan, at : plan = attempt.plan /\ at = attempt.at
    OBVIOUS
  <2>4. Honest(plan, at, local) /\ limits = Unlimited
    BY <2>1, <2>2, <2>3 DEF PlanIsHonest
  <2>5. units = WeightVector(plan.weights, Unlimited[1], Unlimited[2], plan.groups)
    BY <2>2, <2>3, <2>4
  <2>6. VectorFits(plan, units) /\ StateHolds(plan, at, at, units)
    BY <2>4, <2>5, HonestFits
  <2>7. ~\E now \in state : StateHolds(plan, at, now, units)
    BY <2>2, <2>3, <2>6
  <2>8. at \notin state
    BY <2>6, <2>7
  <2> QED
    BY <2>2, <2>3, <2>8
<1>2. CASE Waits
  <2>1. attempt' = attempt /\ limits' = limits
    BY <1>2, WaitsKeep
  <2> QED
    BY <2>1 DEF HonestVoteIsNotRefused, Unlimited
<1>3. CASE \/ Tick \/ Resync \/ Reconcile \/ Refresh \/ Abstain \/ AskLedger \/ ReadRaises
           \/ PlanRefused \/ PlanMade \/ RecordRefused \/ NotePrepared \/ RecordOutcome
           \/ NoteWritten
  <2>1. attempt'.pc # "refused"
    BY <1>3, AttemptMoves
  <2> QED
    BY <2>1 DEF HonestVoteIsNotRefused
<1> QED
  BY <1>1, <1>2, <1>3 DEF Next, Waits

\* What a vote is honest for while it is decided: pools without a common member,
\* and a plan that pays what was earned or all to the owner.
THEOREM HonestInvariant == Spec => []HonestInv
<1>1. Init => HonestInv
  <2> SUFFICES ASSUME Init PROVE HonestInv
    OBVIOUS
  <2>1. Disjoint(pools) /\ PlanIsHonest /\ HonestVoteIsNotRefused
    BY DEF Init, Idle, Disjoint, PlanIsHonest, HonestVoteIsNotRefused
  <2> QED
    BY <2>1, InitAttempt DEF HonestInv
<1>2. HonestInv /\ [Next]_vars => HonestInv'
  <2> SUFFICES ASSUME HonestInv, [Next]_vars PROVE HonestInv'
    OBVIOUS
  <2>1. AttemptInv' /\ Disjoint(pools)' /\ PlanIsHonest' /\ HonestVoteIsNotRefused'
    BY AttemptStep, PoolsKeep, HonestKeeps, RefusedKeeps DEF HonestInv
  <2> QED
    BY <2>1 DEF HonestInv
<1> QED
  BY <1>1, <1>2, PTL DEF Spec

\* A vector that nothing on the chain changed under is never refused: the share of
\* an honest vote, with any rate, earnings and pools, is within the tolerance
\* after rounding (_recheck_owner_burn_share, recheck_owner_state).
THEOREM HonestVotesPass == Spec => []HonestVoteIsNotRefused
<1>1. HonestInv => HonestVoteIsNotRefused
  BY DEF HonestInv
<1> QED
  BY <1>1, HonestInvariant, PTL

-----------------------------------------------------------------------------
(***************************************************************************)
(* Copies of one forecast.  First what levelling leaves of a pool.         *)
(***************************************************************************)
\* Every cut of a pool is a number.
CutsAreExact(m, S) ==
    \A T \in SUBSET S : T # {} => \E c \in Int : Sum(m, T) - Largest(m) = Cardinality(T) * c

AtLeast(m, S, v) == {h \in S : m[h] >= v}

\* What a cut gives up is what the pool has above its best.
LEMMA CutIs ==
    ASSUME NEW S, IsFiniteSet(S), NEW m \in [S -> Nat], CutsAreExact(m, S),
           NEW h \in S, NEW A, A = AtLeast(m, S, m[h])
    PROVE  /\ Cut(m, m[h]) \in Int
           /\ Cardinality(A) \in Nat /\ Cardinality(A) > 0
           /\ Sum(m, A) = Largest(m) + Cardinality(A) * Cut(m, m[h])
<1>1. A \in SUBSET S /\ h \in A
  BY DEF AtLeast
<1>2. PICK n \in Nat : n = Cardinality(A) /\ n > 0
  <2>1. IsFiniteSet(A)
    BY <1>1, FS_Subset
  <2> QED
    BY <1>1, <2>1, FS_CardinalityType, FS_EmptySet
<1>3. PICK c \in Int : Sum(m, A) - Largest(m) = n * c
  BY <1>1, <1>2 DEF CutsAreExact
<1>4. Cut(m, m[h]) = (Sum(m, A) - Largest(m)) \div n
  <2>1. A = {k \in DOMAIN m : m[k] >= m[h]}
    BY DEF AtLeast
  <2> QED
    BY <1>2, <2>1 DEF Cut, Sum
<1>5. (n * c) \div n = c
  BY <1>2
<1>6. Sum(m, A) \in Nat /\ Largest(m) \in Nat
  BY <1>1, SumFacts, LargestIsNat DEF SumLaws
<1> QED
  BY <1>2, <1>3, <1>4, <1>5, <1>6

\* Levelled, a pool has together what its best member had alone (_level_to_best).
LEMMA LevellingLeaves ==
    ASSUME NEW S, IsFiniteSet(S), NEW m \in [S -> Nat], CutsAreExact(m, S),
           NEW lev, lev = LevelToBest(m)
    PROVE  lev \in [S -> Nat] /\ Sum(lev, S) = Largest(m)
<1> DEFINE share == {k \in S : m[k] > Cut(m, m[k])}
           sharing == {m[k] : k \in share}
<1>1. Level(m) = IF sharing = {} THEN 0 ELSE Cut(m, Min(sharing))
  <2>1. share = {k \in DOMAIN m : m[k] > Cut(m, m[k])}
    OBVIOUS
  <2> HIDE DEF share
  <2> QED
    BY <2>1 DEF Level
<1>2. lev = [h \in S |-> IF m[h] > Level(m) THEN m[h] - Level(m) ELSE 0]
  BY DEF LevelToBest
<1>3. lev \in [S -> Nat]
  <2>1. \A h \in S : lev[h] \in Nat
    BY LevelledIsNat
  <2> QED
    BY <1>2, <2>1
<1>4. PICK b \in Nat : b = Largest(m)
  BY LargestIsNat
<1>5. \A h \in S : m[h] <= b
  BY <1>4, LargestIs
<1>6. SumLaws(m, S) /\ SumSplits(m, S) /\ SumLaws(lev, S) /\ SumSplits(lev, S)
  BY <1>3, SumFacts, SumsSplit
\* The best member has more than its own cut, if it has anything.
<1>7. b > 0 => sharing # {}
  <2> SUFFICES ASSUME b > 0 PROVE \E h \in S : m[h] > Cut(m, m[h])
    OBVIOUS
  <2>1. PICK h \in S : m[h] = b
    BY <1>4, LargestIs
  <2>2. PICK A : A = AtLeast(m, S, b)
    OBVIOUS
  <2>3. /\ Cut(m, b) \in Int /\ Cardinality(A) \in Nat /\ Cardinality(A) > 0
        /\ Sum(m, A) = b + Cardinality(A) * Cut(m, b)
    BY <1>4, <2>1, <2>2, CutIs
  <2>4. Sum(m, A) = b * Cardinality(A)
    <3>1. A \in SUBSET S /\ IsConstant(m, b, A)
      BY <1>5, <2>2 DEF AtLeast, IsConstant
    <3> QED
      BY <3>1, SumOfConstant
  <2>5. PICK n \in Nat, c \in Int : n = Cardinality(A) /\ c = Cut(m, b) /\ n > 0
    BY <2>3
  <2>6. b * n = b + n * c
    BY <2>3, <2>4, <2>5
  <2>7. b > c
    <3> SUFFICES ASSUME c >= b PROVE FALSE
      BY <2>5
    <3>1. n * c >= n * b /\ n * b = b * n
      BY <2>5
    <3> QED
      BY <2>5, <2>6, <3>1
  <2> QED
    BY <2>1, <2>5, <2>7
<1>8. CASE sharing = {}
  <2>1. b = 0
    BY <1>4, <1>7, <1>8
  <2>2. \A h \in S : m[h] = 0
    BY <1>5, <2>1
  <2>3. Level(m) = 0
    BY <1>1, <1>8
  <2>4. IsConstant(lev, 0, S) /\ S \in SUBSET S /\ 0 \in Nat
    BY <1>2, <2>2, <2>3 DEF IsConstant
  <2>5. Sum(lev, S) = 0 * Cardinality(S)
    BY <1>3, <2>4, SumOfConstant
  <2>6. Cardinality(S) \in Nat
    BY FS_CardinalityType
  <2> QED
    BY <1>3, <1>4, <2>1, <2>5, <2>6
<1>9. CASE sharing # {}
  <2>1. PICK t \in S : m[t] = Min(sharing) /\ m[t] > Cut(m, m[t])
                       /\ \A k \in S : m[k] > Cut(m, m[k]) => m[t] <= m[k]
    <3>1. share \in SUBSET S /\ \A k \in share : m[k] > Cut(m, m[k])
      OBVIOUS
    <3>2. \A k \in S : m[k] > Cut(m, m[k]) => k \in share
      OBVIOUS
    <3>3. IsFiniteSet(share)
      BY <3>1, FS_Subset
    <3> HIDE DEF share
    <3>4. IsFiniteSet(sharing) /\ sharing \in SUBSET Int
      BY <3>1, <3>3, FiniteImage
    <3>5. Min(sharing) \in sharing /\ \A x \in sharing : Min(sharing) <= x
      BY <1>9, <3>4, FiniteExtremes
    <3>6. \A k \in share : m[k] \in sharing
      OBVIOUS
    <3> QED
      BY <3>1, <3>2, <3>5, <3>6
  <2>2. PICK v \in Nat : v = m[t]
    OBVIOUS
  <2>3. PICK A : A = AtLeast(m, S, v)
    OBVIOUS
  <2>4. A \in SUBSET S /\ \A h \in S : h \in A <=> m[h] >= v
    BY <2>3 DEF AtLeast
  <2>5. /\ Cut(m, v) \in Int /\ Cardinality(A) \in Nat /\ Cardinality(A) > 0
        /\ Sum(m, A) = b + Cardinality(A) * Cut(m, v)
    BY <1>4, <2>2, <2>3, CutIs
  <2>6. PICK n \in Nat, l \in Int : n = Cardinality(A) /\ l = Cut(m, v) /\ n > 0
    BY <2>5
  <2>7. Level(m) = l /\ l < v
    BY <1>1, <1>9, <2>1, <2>2, <2>6
  <2>8. Sum(m, A) = b + n * l
    BY <2>5, <2>6
  <2>9. l \in Nat
    <3>1. PICK h \in S : m[h] = b
      <4>1. m[t] = b \/ b > 0
        BY <1>4, <1>5
      <4> QED
        BY <1>4, <4>1, LargestIs
    <3>2. h \in A
      BY <1>5, <2>2, <2>4, <3>1
    <3>3. m[h] <= Sum(m, A)
      BY <2>4, <3>2, AddendIsInSum
    <3>4. n * l >= 0
      BY <1>6, <2>4, <2>6, <2>8, <3>1, <3>3 DEF SumLaws
    <3>5. l >= 0
      <4> SUFFICES ASSUME l <= -1 PROVE FALSE
        BY <2>6
      <4>1. n * l <= n * (-1) /\ n * (-1) = -n
        BY <2>6
      <4> QED
        BY <2>6, <3>4, <4>1
    <3> QED
      BY <2>6, <3>5
  \* Below the level of those that share nobody has more than the cut.
  <2>10. \A h \in S : h \notin A => m[h] <= l
    <3> DEFINE low == {h \in S : m[h] < v}
               values == {m[h] : h \in low}
    <3> SUFFICES ASSUME low # {} PROVE \A h \in low : m[h] <= l
      BY <2>2, <2>4
    <3>1. PICK k \in S : m[k] < v /\ \A h \in low : m[h] <= m[k]
      <4>1. low \in SUBSET S /\ \A h \in low : m[h] < v
        OBVIOUS
      <4>2. IsFiniteSet(low)
        BY <4>1, FS_Subset
      <4> HIDE DEF low
      <4>3. IsFiniteSet(values) /\ values \in SUBSET Int /\ values # {}
        BY <4>1, <4>2, FiniteImage
      <4>4. Max(values) \in values /\ \A x \in values : Max(values) >= x
        BY <4>3, FiniteExtremes
      <4>5. \A h \in low : m[h] \in values
        OBVIOUS
      <4> QED
        BY <4>1, <4>4, <4>5
    <3>2. PICK u \in Nat : u = m[k] /\ u < v
      BY <3>1
    <3>3. PICK B : B = AtLeast(m, S, u)
      OBVIOUS
    <3>4. B \in SUBSET S /\ \A h \in S : h \in B <=> m[h] >= u
      BY <3>3 DEF AtLeast
    <3>5. /\ Cut(m, u) \in Int /\ Cardinality(B) \in Nat /\ Cardinality(B) > 0
          /\ Sum(m, B) = b + Cardinality(B) * Cut(m, u)
      BY <1>4, <3>2, <3>3, CutIs
    <3>6. u <= Cut(m, u)
      BY <2>1, <2>2, <3>2, <3>5
    <3>7. A \in SUBSET B /\ B \ A \in SUBSET S /\ IsConstant(m, u, B \ A)
      <4>1. \A h \in B \ A : m[h] >= u /\ h \in low
        BY <2>2, <2>4, <3>4
      <4>2. \A h \in B \ A : m[h] = u
        BY <3>1, <3>2, <4>1
      <4> QED
        BY <2>2, <2>4, <3>2, <3>4, <4>2 DEF IsConstant
    <3>8. Sum(m, B) = Sum(m, A) + u * Cardinality(B \ A)
      <4>1. Sum(m, B) = Sum(m, A) + Sum(m, B \ A)
        BY <1>6, <3>4, <3>7 DEF SumSplits
      <4> QED
        BY <3>7, <4>1, SumOfConstant
    <3>9. /\ Cardinality(B \ A) \in Nat
          /\ Cardinality(B) = Cardinality(A) + Cardinality(B \ A)
      <4>1. IsFiniteSet(B) /\ IsFiniteSet(A) /\ IsFiniteSet(B \ A)
        BY <2>4, <3>4, <3>7, FS_Subset
      <4>2. A \cup (B \ A) = B /\ A \cap (B \ A) = {}
        BY <3>7
      <4>3. Cardinality(A \cup (B \ A)) =
              Cardinality(A) + Cardinality(B \ A) - Cardinality(A \cap (B \ A))
        BY <4>1, FS_Union
      <4>4. Cardinality({}) = 0
        BY FS_EmptySet
      <4>5. Cardinality(A) \in Nat /\ Cardinality(B \ A) \in Nat
        BY <4>1, FS_CardinalityType
      <4> QED
        BY <4>2, <4>3, <4>4, <4>5
    <3>10. PICK e \in Nat, c \in Int : e = Cardinality(B \ A) /\ c = Cut(m, u)
      BY <3>5, <3>9
    <3>11. b + (n + e) * c = b + n * l + u * e
      BY <2>6, <2>8, <3>5, <3>8, <3>9, <3>10
    <3>12. u <= l
      <4> SUFFICES ASSUME u >= l + 1 PROVE FALSE
        BY <2>6
      <4>1. (n + e) * c >= (n + e) * u
        BY <3>6, <3>10
      <4>2. (n + e) * u = n * u + u * e /\ n * u >= n * (l + 1) /\ n * (l + 1) = n * l + n
        BY <2>6, <3>10
      <4> QED
        BY <2>6, <2>9, <3>10, <3>11, <4>1, <4>2
    <3> QED
      BY <2>9, <3>1, <3>2, <3>12
  \* Those that share give up the level each, the others have nothing left.
  <2>11. \A h \in S : lev[h] = IF h \in A THEN m[h] - l ELSE 0
    BY <1>2, <2>2, <2>4, <2>7, <2>9, <2>10
  <2>12. Sum(lev, S) = Sum(lev, A) + Sum(lev, S \ A)
    <3>1. S \in SUBSET S
      OBVIOUS
    <3> QED
      BY <1>6, <2>4, <3>1 DEF SumSplits
  <2>13. Sum(lev, S \ A) = 0
    <3>1. IsConstant(lev, 0, S \ A) /\ S \ A \in SUBSET S /\ 0 \in Nat
      BY <2>11 DEF IsConstant
    <3>2. Sum(lev, S \ A) = 0 * Cardinality(S \ A)
      BY <1>3, <3>1, SumOfConstant
    <3>3. IsFiniteSet(S \ A)
      BY <3>1, FS_Subset
    <3> QED
      BY <3>2, <3>3, FS_CardinalityType
  <2>14. Sum(m, A) = Sum(lev, A) + l * n
    <3> DEFINE cut == [h \in S |-> l]
               both == [h \in S |-> lev[h] + cut[h]]
    <3>1. /\ cut \in [S -> Nat] /\ both \in [S -> Nat] /\ Adds(both, lev, cut, S)
          /\ IsConstant(cut, l, A)
      BY <1>3, <2>4, <2>9 DEF Adds, IsConstant
    <3>2. Agree(m, both, A)
      <4>1. ASSUME NEW h \in A PROVE m[h] = both[h]
        <5>1. h \in S /\ lev[h] = m[h] - l /\ m[h] \in Nat
          BY <2>4, <2>11
        <5> QED
          BY <2>9, <5>1
      <4> QED
        BY <4>1 DEF Agree
    <3> HIDE DEF cut, both
    <3>3. Sum(both, A) = Sum(lev, A) + Sum(cut, A)
      BY <1>3, <2>4, <3>1, SumOfSums
    <3>4. Sum(cut, A) = l * Cardinality(A)
      BY <2>4, <2>9, <3>1, SumOfConstant
    <3> QED
      BY <2>6, <3>2, <3>3, <3>4, SumsAgree
  <2>15. Sum(lev, A) \in Nat /\ l * n = n * l /\ n * l \in Int
    BY <1>6, <2>4, <2>6 DEF SumLaws
  <2>16. Sum(lev, S) = b
    BY <2>8, <2>12, <2>13, <2>14, <2>15
  <2> QED
    BY <1>3, <1>4, <2>16
<1> QED
  BY <1>8, <1>9

-----------------------------------------------------------------------------
(***************************************************************************)
(* What the members of a pool earn together.                               *)
(***************************************************************************)
IsSharpened(m, x, S) == \A h \in S : m[h] = CUT * x[h]

\* CUT makes the cuts of every pool numbers.
LEMMA SharpenedIsExact ==
    ASSUME NEW S, IsFiniteSet(S), S # {}, Cardinality(S) <= Size,
           NEW x \in [S -> Nat], NEW m \in [S -> Nat], IsSharpened(m, x, S),
           NEW X, X = {x[h] : h \in S}
    PROVE  CutsAreExact(m, S) /\ Max(X) \in Nat /\ Largest(m) = CUT * Max(X)
<1>1. CUT \in Nat /\ CUT > 0 /\ Size \in Nat /\ \A n \in 1 .. Size : CUT % n = 0
  BY VoteAssumption
<1>2. X \in SUBSET Int /\ IsFiniteSet(X) /\ X # {}
  BY FiniteImage
<1>3. PICK t \in S : x[t] = Max(X) /\ \A h \in S : x[h] <= x[t]
  <2>1. Max(X) \in X /\ \A y \in X : Max(X) >= y
    BY <1>2, FiniteExtremes
  <2> QED
    BY <2>1
<1>4. PICK b \in Nat : b = x[t]
  OBVIOUS
<1>5. m[t] = CUT * b /\ CUT * b \in Nat
  BY <1>1, <1>4 DEF IsSharpened
<1>6. \A h \in S : m[h] <= m[t]
  <2> SUFFICES ASSUME NEW h \in S PROVE m[h] <= m[t]
    OBVIOUS
  <2>1. PICK y \in Nat : y = x[h] /\ y <= b
    BY <1>3, <1>4
  <2>2. m[h] = CUT * y
    BY <2>1 DEF IsSharpened
  <2> QED
    BY <1>1, <1>5, <2>1, <2>2
<1>7. Largest(m) = m[t]
  <2>1. Largest(m) \in Nat /\ m[t] <= Largest(m)
    BY LargestIsNat, LargestIs
  <2>2. Largest(m) > 0 => \E h \in S : m[h] = Largest(m)
    BY LargestIs
  <2> QED
    BY <1>5, <1>6, <2>1, <2>2
<1>8. CutsAreExact(m, S)
  <2>1. ASSUME NEW T \in SUBSET S, T # {}
        PROVE  \E c \in Int : Sum(m, T) - Largest(m) = Cardinality(T) * c
    <3>1. IsFiniteSet(T) /\ Cardinality(T) <= Cardinality(S)
      BY FS_Subset
    <3>2. PICK n \in Nat \ {0} : n = Cardinality(T) /\ n <= Size
      <4>1. Cardinality(T) \in Nat /\ Cardinality(T) # 0 /\ Cardinality(S) \in Nat
        BY <2>1, <3>1, FS_CardinalityType, FS_EmptySet
      <4> QED
        BY <1>1, <3>1, <4>1
    <3>3. PICK k \in Nat : CUT = n * k
      <4>1. CUT % n = 0
        BY <1>1, <3>2
      <4>2. PICK c \in Nat : c = CUT
        BY <1>1
      <4>3. c \div n \in Nat /\ c % n \in Nat /\ c = n * (c \div n) + (c % n)
        BY Quotient
      <4>4. PICK k \in Nat : k = c \div n
        BY <4>3
      <4>5. c = n * k + 0
        BY <4>1, <4>2, <4>3, <4>4
      <4> QED
        BY <4>2, <4>5
    <3>4. PICK s \in Nat : s = Sum(x, T)
      BY SumFacts DEF SumLaws
    <3>5. Sum(m, T) = CUT * s
      <4>1. Scales(m, CUT, x, S)
        BY DEF Scales, IsSharpened
      <4> QED
        BY <1>1, <3>4, <4>1, SumOfMultiples
    <3>6. Sum(m, T) - Largest(m) = (n * k) * s - (n * k) * b
      BY <1>5, <1>7, <3>3, <3>5
    <3>7. (n * k) * s - (n * k) * b = n * (k * s - k * b) /\ k * s - k * b \in Int
      OBVIOUS
    <3> QED
      BY <3>2, <3>6, <3>7
  <2> QED
    BY <2>1 DEF CutsAreExact
<1> QED
  BY <1>3, <1>4, <1>5, <1>7, <1>8

LEMMA PoolsAreSmall ==
    ASSUME NEW l, NEW p, p \subseteq {l[u] : u \in Uids}
    PROVE  IsFiniteSet(p) /\ Cardinality(p) <= Size
<1> DEFINE L == {l[u] : u \in Uids}
           g == [u \in Uids |-> l[u]]
<1>1. g \in Surjection(Uids, L)
  BY DEF Surjection
<1>2. IsFiniteSet(L) /\ Cardinality(L) <= Cardinality(Uids)
  BY <1>1, UidsAreFinite, FS_Surjection
<1>3. Cardinality(Uids) = Size
  <2>1. PICK n \in Nat : n = Size /\ n > 0
    BY VoteAssumption
  <2>2. Cardinality(0 .. n - 1) = n
    <3>1. 0 \in Int /\ n - 1 \in Int /\ ~(0 > n - 1) /\ (n - 1) - 0 + 1 = n
      BY <2>1
    <3> QED
      BY <3>1, FS_Interval
  <2> QED
    BY <2>1, <2>2 DEF Uids
<1>4. IsFiniteSet(p) /\ Cardinality(p) <= Cardinality(L)
  BY <1>2, FS_Subset
<1>5. Cardinality(p) \in Nat /\ Cardinality(L) \in Nat /\ Size \in Nat
  BY <1>2, <1>4, FS_CardinalityType, VoteAssumption
<1> QED
  BY <1>2, <1>3, <1>4, <1>5

LEMMA PoolsHaveMembers ==
    ASSUME NEW window, NEW scored, NEW p \in DuplicatePools(window, scored)
    PROVE  p # {} /\ Cardinality(p) > 1
<1>1. Cardinality(p) > 1
  BY DEF DuplicatePools
<1>2. Cardinality({}) = 0
  BY FS_EmptySet
<1> QED
  BY <1>1, <1>2

EarnsAsOne(w, d, p) ==
    /\ p \subseteq DOMAIN w /\ \A h \in p : w[h] \in Nat
    /\ IsFiniteSet(p) /\ Cardinality(p) > 1
    /\ Max({d.scores[h] ^ GAMMA : h \in p}) \in Nat
    /\ Sum(w, p) = CUT * Max({d.scores[h] ^ GAMMA : h \in p})

\* Together the members of a pool earn what the best of them would alone.
LEMMA PoolEarnsAsOne ==
    ASSUME NEW d \in Earnings, NEW l, NEW p \in ScoredPools(d, l),
           NEW w, w = EarnedWeights(Blended(d, l), ScoredPools(d, l))
    PROVE  EarnsAsOne(w, d, p)
<1> DEFINE D == DOMAIN Blended(d, l)
           powered == [k \in D |-> CUT * Blended(d, l)[k] ^ GAMMA]
           of(k) == {q \in ScoredPools(d, l) : k \in q}
<1>1. /\ D \subseteq DOMAIN d.scores /\ D \subseteq {l[u] : u \in Uids}
      /\ \A k \in D : Blended(d, l)[k] = d.scores[k]
  BY DEF Blended
<1>2. w = [k \in D |-> IF of(k) = {} THEN powered[k]
                       ELSE LET q == CHOOSE q \in of(k) : TRUE
                            IN LevelToBest([j \in q \cap D |-> powered[j]])[k]]
  BY DEF EarnedWeights
<1>3. p \subseteq D
  BY PoolsAreScored DEF ScoredPools
<1>4. p # {} /\ Cardinality(p) > 1 /\ Disjoint(ScoredPools(d, l))
  BY PoolsHaveMembers, PoolsAreDisjoint DEF ScoredPools
<1>5. IsFiniteSet(p) /\ Cardinality(p) <= Size
  BY <1>1, <1>3, PoolsAreSmall
<1>6. PICK x \in [p -> Nat] : x = [h \in p |-> d.scores[h] ^ GAMMA]
  <2>1. \A h \in p : d.scores[h] ^ GAMMA \in Nat
    BY <1>1, <1>3, SharpeningAssumption
  <2> QED
    BY <2>1
<1>7. PICK m \in [p -> Nat] : IsSharpened(m, x, p) /\ m = [h \in p |-> powered[h]]
  <2> DEFINE y == [h \in p |-> CUT * x[h]]
  <2>1. y \in [p -> Nat] /\ IsSharpened(y, x, p)
    BY VoteAssumption DEF IsSharpened
  <2>2. ASSUME NEW h \in p PROVE y[h] = powered[h]
    <3>1. x[h] = d.scores[h] ^ GAMMA /\ h \in D /\ Blended(d, l)[h] = d.scores[h]
      BY <1>1, <1>3, <1>6
    <3> QED
      BY <3>1
  <2>3. y = [h \in p |-> powered[h]]
    BY <2>2
  <2> HIDE DEF y
  <2> QED
    BY <2>1, <2>3
<1> HIDE DEF powered, D
<1>8. PICK lev : lev = LevelToBest(m)
  OBVIOUS
<1>9. \A h \in p : w[h] = lev[h]
  <2> SUFFICES ASSUME NEW h \in p PROVE w[h] = lev[h]
    OBVIOUS
  <2>1. of(h) = {p}
    BY <1>4 DEF Disjoint
  <2>2. (CHOOSE q \in of(h) : TRUE) = p /\ of(h) # {}
    BY <2>1
  <2>3. p \cap D = p /\ h \in D
    BY <1>3
  <2> HIDE DEF of
  <2>4. w[h] = LevelToBest([j \in p \cap D |-> powered[j]])[h]
    BY <1>2, <2>2, <2>3
  <2> QED
    BY <1>7, <1>8, <2>3, <2>4
<1>10. PICK X : X = {x[h] : h \in p}
  OBVIOUS
<1>11. CutsAreExact(m, p) /\ Max(X) \in Nat /\ Largest(m) = CUT * Max(X)
  BY <1>4, <1>5, <1>7, <1>10, SharpenedIsExact
<1>12. lev \in [p -> Nat] /\ Sum(lev, p) = Largest(m)
  BY <1>5, <1>8, <1>11, LevellingLeaves
<1>13. Sum(w, p) = Sum(lev, p)
  BY <1>9, SumsAgree DEF Agree
<1>14. X = {d.scores[h] ^ GAMMA : h \in p}
  BY <1>6, <1>10
<1>15. p \subseteq DOMAIN w
  BY <1>2, <1>3
<1> QED
  BY <1>4, <1>5, <1>9, <1>11, <1>12, <1>13, <1>14, <1>15 DEF EarnsAsOne

-----------------------------------------------------------------------------
(***************************************************************************)
(* From hotkeys to the slots they hold.                                    *)
(***************************************************************************)
OneSlotEach(l) == \A u, v \in Uids : l[u] = l[v] => u = v
Scored(s, w, l, S) == \A u \in S : s[u] = w[l[u]]

\* A pool has its sum where all its members have a slot.
LEMMA SlotsHaveTheSum ==
    ASSUME NEW l, OneSlotEach(l), NEW p, IsFiniteSet(p),
           NEW S \in SUBSET Uids, \A u \in S : l[u] \in p, Cardinality(S) = Cardinality(p),
           NEW w, \A h \in p : w[h] \in Nat, NEW s, Scored(s, w, l, S)
    PROVE  Sum(s, S) = Sum(w, p)
<1> DEFINE j == [u \in S |-> l[u]]
           f == [u \in S |-> s[u]]
           g == [h \in p |-> w[h]]
<1>1. j \in Injection(S, p)
  BY DEF Injection, IsInjective, OneSlotEach
<1>2. IsFiniteSet(S)
  BY UidsAreFinite, FS_Subset
<1>3. j \in Bijection(S, p)
  <2> HIDE DEF j
  <2> QED
    BY <1>1, FS_Injection DEF Bijection
<1>4. f \in [S -> Nat] /\ g \in [p -> Nat] /\ Carries(f, g, j, S)
  BY DEF Scored, Carries
<1>5. Agree(s, f, S) /\ Agree(g, w, p)
  BY DEF Agree
<1> HIDE DEF j, f, g
<1>6. Sum(f, S) = Sum(g, p)
  BY <1>2, <1>3, <1>4, SumIsCarried
<1> QED
  BY <1>5, <1>6, SumsAgree

\* The sequence of a set has its elements.
LEMMA SequenceHasTheSet ==
    ASSUME NEW S, IsFiniteSet(S)
    PROVE  DOMAIN SetToSeq(S) \subseteq Int /\ ToSet(SetToSeq(S)) = S
<1> DEFINE n == Cardinality(S)
           f == SetToSeq(S)
<1>1. n \in Nat /\ \E g \in [1 .. n -> S] : IsInjective(g)
  <2>1. n \in Nat /\ ExistsBijection(1 .. n, S)
    BY FS_CardinalityType
  <2> QED
    BY <2>1 DEF ExistsBijection, Bijection, Injection
<1>2. f \in [1 .. n -> S] /\ IsInjective(f)
  BY <1>1 DEF SetToSeq
<1>3. f \in Injection(1 .. n, S)
  BY <1>2 DEF Injection
<1>4. Cardinality(1 .. n) = n
  <2>1. PICK k \in Nat : k = n
    BY <1>1
  <2>2. Cardinality(1 .. k) = k
    <3>1. 1 \in Int /\ k \in Int
      BY <2>1
    <3>2. Cardinality(1 .. k) = IF 1 > k THEN 0 ELSE k - 1 + 1
      BY <3>1, FS_Interval
    <3> QED
      BY <2>1, <3>2
  <2> QED
    BY <2>1, <2>2
<1> HIDE DEF f
<1>5. f \in Surjection(1 .. n, S)
  BY <1>3, <1>4, FS_Injection
<1>6. 1 .. n \subseteq Int /\ DOMAIN f = 1 .. n
  BY <1>2
<1>7. {f[i] : i \in DOMAIN f} = S
  BY <1>5, <1>6 DEF Surjection
<1> QED
  BY <1>6, <1>7 DEF f, ToSet

-----------------------------------------------------------------------------
(***************************************************************************)
(* The units of a pool in the vector.                                      *)
(***************************************************************************)
LEMMA HalfUpIsOnly ==
    ASSUME NEW n \in Nat, NEW d \in Nat \ {0}, NEW h \in Nat,
           2 * (d * h) <= 2 * n + d, 2 * n + d < 2 * (d * h) + 2 * d
    PROVE  HalfUp(n, d) = h
<1>1. PICK g \in Nat : /\ g = HalfUp(n, d)
                       /\ 2 * (d * g) <= 2 * n + d
                       /\ 2 * n + d < 2 * (d * g) + 2 * d
  BY HalfUpIs
<1>2. ~(g >= h + 1)
  <2> SUFFICES ASSUME g >= h + 1 PROVE FALSE
    OBVIOUS
  <2>1. d * g >= d * (h + 1) /\ d * (h + 1) = d * h + d
    OBVIOUS
  <2>2. PICK a \in Nat, b \in Nat : a = d * g /\ b = d * h
    OBVIOUS
  <2> QED
    BY <1>1, <2>1, <2>2
<1>3. ~(h >= g + 1)
  <2> SUFFICES ASSUME h >= g + 1 PROVE FALSE
    OBVIOUS
  <2>1. d * h >= d * (g + 1) /\ d * (g + 1) = d * g + d
    OBVIOUS
  <2>2. PICK a \in Nat, b \in Nat : a = d * g /\ b = d * h
    OBVIOUS
  <2> QED
    BY <1>1, <2>1, <2>2
<1> QED
  BY <1>1, <1>2, <1>3

LEMMA LargestOfPositives ==
    ASSUME NEW S, IsFiniteSet(S), NEW w \in [S -> Nat], NEW P, P = {u \in S : w[u] > 0},
           P # {}, NEW v \in [P -> Nat], Agree(v, w, P)
    PROVE  Largest(v) = Largest(w) /\ Largest(w) \in Nat \ {0}
<1>1. P \in SUBSET S /\ IsFiniteSet(P)
  BY FS_Subset
<1>2. PICK a \in Nat, b \in Nat : a = Largest(v) /\ b = Largest(w)
  BY <1>1, LargestIsNat
<1>3. /\ \A u \in P : v[u] = w[u] /\ w[u] > 0 /\ w[u] <= a
      /\ \A u \in S : w[u] <= b
  <2>1. \A u \in P : v[u] <= a
    BY <1>1, <1>2, LargestIs
  <2>2. \A u \in S : w[u] <= b
    BY <1>2, LargestIs
  <2> QED
    BY <2>1, <2>2 DEF Agree
<1>4. b > 0 /\ a > 0
  BY <1>1, <1>3
<1>5. PICK t \in P : v[t] = a
  BY <1>1, <1>2, <1>4, LargestIs
<1>6. PICK u \in S : w[u] = b
  BY <1>2, <1>4, LargestIs
<1>7. a <= b /\ b <= a
  BY <1>1, <1>3, <1>4, <1>5, <1>6
<1> QED
  BY <1>2, <1>4, <1>7

\* Whether its members are many or one, a pool is rounded as one entry.
LEMMA PoolIsRoundedOnce ==
    ASSUME NEW P, IsFiniteSet(P), NEW v \in [P -> Nat], Largest(v) > 0,
           NEW groups, PoolsApart(groups), NEW g \in groups,
           NEW G, G = ToSet(g) \cap P, NEW x, x = UnitsOf(v, groups, P)
    PROVE  Sum(x, G) = HalfUp(Sum(v, G) * U16_MAX, Largest(v))
<1>1. PICK top \in Nat \ {0} : top = Largest(v)
  BY LargestIsNat
<1>2. G \in SUBSET P /\ IsFiniteSet(G)
  BY FS_Subset
<1>3. PICK a \in [G -> Nat] : a = Scaled(v, G)
  <2>1. \A u \in G : v[u] * U16_MAX \in Nat
    <3>1. U16_MAX \in Nat /\ \A u \in G : v[u] \in Nat
      BY <1>2, VoteAssumption
    <3> QED
      BY <3>1
  <2> QED
    BY <2>1 DEF Scaled
<1>4. IsScaled(a, v, G) /\ Scales(a, U16_MAX, v, G)
  <2>1. \A u \in G : a[u] = v[u] * U16_MAX /\ v[u] * U16_MAX = U16_MAX * v[u]
    BY <1>2, <1>3, VoteAssumption DEF Scaled
  <2> QED
    BY <2>1 DEF IsScaled, Scales
<1>5. PICK units : units = PoolUnits(v, top, g)
  OBVIOUS
<1>6. DOMAIN g \subseteq Int
  BY DEF PoolsApart
<1>7. PoolRounded(units, a, top, G)
  BY <1>3, <1>4, <1>5, <1>6, PoolRounds
<1>8. Agree(x, units, G)
  <2>1. ASSUME NEW u \in G PROVE x[u] = units[u]
    <3>1. Unit(v, groups, u) = PoolUnits(v, Largest(v), g)[u]
      BY UnitPooled
    <3> QED
      BY <1>1, <1>2, <1>5, <3>1 DEF UnitsOf
  <2> QED
    BY <2>1 DEF Agree
<1>9. Sum(x, G) = Sum(units, G)
  BY <1>8, SumsAgree
<1>10. units \in [G -> Nat]
  BY <1>7 DEF PoolRounded
<1>11. PICK h \in Nat, n \in Nat : h = Sum(units, G) /\ n = Sum(a, G)
  <2>1. SumLaws(units, G) /\ SumLaws(a, G) /\ G \in SUBSET G
    BY <1>2, <1>10, SumFacts
  <2> QED
    BY <2>1 DEF SumLaws
<1>12. 2 * (top * h) <= 2 * n + top /\ 2 * n + top < 2 * (top * h) + 2 * top
  BY <1>7, <1>11 DEF PoolRounded
<1>13. HalfUp(n, top) = h
  BY <1>12, HalfUpIsOnly
<1>14. n = Sum(v, G) * U16_MAX
  <2>1. PICK f \in [G -> Nat] : Agree(f, v, G)
    <3>1. [u \in G |-> v[u]] \in [G -> Nat] /\ Agree([u \in G |-> v[u]], v, G)
      BY <1>2 DEF Agree
    <3> QED
      BY <3>1
  <2>2. Scales(a, U16_MAX, f, G)
    BY <1>4, <2>1 DEF Scales, Agree
  <2>3. Sum(a, G) = U16_MAX * Sum(f, G)
    <3>1. U16_MAX \in Nat /\ G \in SUBSET G
      BY VoteAssumption
    <3> QED
      BY <1>2, <2>2, <3>1, SumOfMultiples
  <2>4. Sum(f, G) = Sum(v, G)
    BY <2>1, SumsAgree
  <2>5. Sum(f, G) \in Nat
    <3>1. SumLaws(f, G) /\ G \in SUBSET G
      BY <1>2, SumFacts
    <3> QED
      BY <3>1 DEF SumLaws
  <2>6. U16_MAX * Sum(f, G) = Sum(f, G) * U16_MAX
    BY <2>5, VoteAssumption
  <2> QED
    BY <1>11, <2>3, <2>4, <2>6
<1> QED
  BY <1>1, <1>9, <1>11, <1>13, <1>14

\* Without limits, a pool's members have the units that their weight together
\* rounds to.
LEMMA PoolIsOneEntry ==
    ASSUME NEW w \in [Uids -> Nat], NEW P, P = {u \in Uids : w[u] > 0}, P # {},
           NEW groups, PoolsApart(groups), NEW g \in groups, NEW T \in SUBSET Uids,
           ToSet(g) = T,
           NEW units, units = WeightVector(w, Unlimited[1], Unlimited[2], groups)
    PROVE  Sum(units, T \cap DOMAIN units) = HalfUp(Sum(w, T) * U16_MAX, Largest(w))
<1>1. P \in SUBSET Uids /\ IsFiniteSet(P) /\ IsFiniteSet(Uids)
  BY UidsAreFinite, FS_Subset
<1>2. PICK v \in [P -> Nat] : VectorOf(v, w, P)
  BY VectorIs
<1>3. units = Units(v, groups) /\ Largest(v) > 0 /\ Total(v) # 0
  BY <1>2 DEF VectorOf
<1>4. PICK x : x = UnitsOf(v, groups, P)
  OBVIOUS
<1>5. Encoded(units, x, P)
  BY <1>1, <1>3, <1>4, UnitsAre
<1>6. /\ x \in [P -> Nat]
      /\ DOMAIN units = {u \in P : x[u] > 0}
      /\ \A u \in DOMAIN units : units[u] = x[u]
  BY <1>5 DEF Encoded
<1>7. PICK G \in SUBSET P : G = T \cap P
  OBVIOUS
<1>8. Sum(units, T \cap DOMAIN units) = Sum(x, G)
  <2>1. PICK E : E = {u \in G : x[u] > 0}
    OBVIOUS
  <2>2. T \cap DOMAIN units = E /\ Agree(units, x, E)
    BY <1>6, <1>7, <2>1 DEF Agree
  <2>3. Sum(x, G) = Sum(x, E)
    BY <1>1, <1>6, <2>1, SumOfPositives
  <2>4. Sum(units, E) = Sum(x, E)
    BY <2>2, SumsAgree
  <2> QED
    BY <2>2, <2>3, <2>4
<1>9. Sum(w, T) = Sum(w, G)
  <2>1. G = {u \in T : w[u] > 0}
    BY <1>7
  <2> QED
    BY <1>1, <2>1, SumOfPositives
<1>10. CASE v = [u \in P |-> w[u]]
  <2>1. Agree(v, w, P) /\ Agree(v, w, G)
    BY <1>10 DEF Agree
  <2>2. Largest(v) = Largest(w)
    BY <1>1, <2>1, LargestOfPositives
  <2>3. Sum(x, G) = HalfUp(Sum(v, G) * U16_MAX, Largest(v))
    BY <1>1, <1>3, <1>4, <1>7, PoolIsRoundedOnce
  <2>4. Sum(v, G) = Sum(w, G)
    BY <2>1, SumsAgree
  <2> QED
    BY <1>8, <1>9, <2>2, <2>3, <2>4
\* The chain sees one UID, which has all.
<1>11. CASE \E p : P = {p}
  <2>1. PICK p \in Uids : P = {p}
    BY <1>1, <1>11
  <2>2. PICK f \in [P -> Nat] : Agree(f, w, P)
    <3>1. [u \in P |-> w[u]] \in [P -> Nat] /\ Agree([u \in P |-> w[u]], w, P)
      BY <1>1 DEF Agree
    <3> QED
      BY <3>1
  <2>3. PICK top \in Nat \ {0} : top = Largest(w) /\ top = Largest(f)
    BY <1>1, <2>2, LargestOfPositives
  <2>4. w[p] = top
    <3>1. PICK u \in P : f[u] = top
      <4>1. Largest(f) > 0
        BY <2>3
      <4> QED
        BY <1>1, <2>3, <4>1, LargestIs
    <3> QED
      BY <2>1, <2>2, <3>1 DEF Agree
  <2>5. x[p] = U16_MAX
    <3>1. PICK u \in P : v[u] = Largest(v)
      BY <1>1, <1>3, LargestIs
    <3>2. v[p] = Largest(v) /\ p \in P
      BY <2>1, <3>1
    <3>3. Unit(v, groups, p) = U16_MAX
      BY <1>1, <1>3, <3>2, UnitIs
    <3> QED
      BY <1>4, <3>2, <3>3 DEF UnitsOf
  <2>6. U16_MAX \in Nat
    BY VoteAssumption
  <2>7. SumLaws(x, P) /\ SumLaws(w, Uids)
    BY <1>1, <1>6, SumFacts
  <2>8. CASE G = {}
    <3>1. Sum(x, G) = 0 /\ Sum(w, G) = 0
      BY <2>7, <2>8 DEF SumLaws
    <3>2. HalfUp(0, top) = 0
      <4>1. 2 * (top * 0) <= 2 * 0 + top /\ 2 * 0 + top < 2 * (top * 0) + 2 * top
        BY <2>3
      <4>2. 0 \in Nat
        OBVIOUS
      <4> QED
        BY <4>1, <4>2, HalfUpIsOnly
    <3>3. 0 * U16_MAX = 0
      BY <2>6
    <3> QED
      BY <1>8, <1>9, <2>3, <3>1, <3>2, <3>3
  <2>9. CASE G # {}
    <3>1. G = {p} /\ p \in G /\ G \ {p} = {} /\ G \in SUBSET Uids
      BY <1>1, <2>1, <2>9
    <3>2. Sum(x, G) = x[p] + Sum(x, {}) /\ Sum(x, {}) = 0
      BY <2>7, <3>1 DEF SumLaws
    <3>3. Sum(w, G) = w[p] + Sum(w, {}) /\ Sum(w, {}) = 0
      BY <2>7, <3>1 DEF SumLaws
    <3>4. Sum(x, G) = U16_MAX /\ Sum(w, G) = top
      BY <2>3, <2>4, <2>5, <2>6, <3>2, <3>3
    <3>5. HalfUp(top * U16_MAX, top) = U16_MAX
      <4>1. PICK n \in Nat : n = top * U16_MAX
        BY <2>3, <2>6
      <4>2. 2 * (top * U16_MAX) <= 2 * n + top /\ 2 * n + top < 2 * (top * U16_MAX) + 2 * top
        BY <2>3, <4>1
      <4> QED
        BY <2>6, <4>1, <4>2, HalfUpIsOnly
    <3> QED
      BY <1>8, <1>9, <2>3, <3>4, <3>5
  <2> QED
    BY <2>8, <2>9
<1> QED
  BY <1>2, <1>10, <1>11 DEF VectorOf

-----------------------------------------------------------------------------
(***************************************************************************)
(* The invariant of pools: what is decided on are the weights of the       *)
(* durable scores, and a plan gives everyone the same part of them.        *)
(***************************************************************************)
SlotScores(w, l) == [u \in Uids |-> IF l[u] \in DOMAIN w THEN w[l[u]] ELSE 0]
Applied(d, l, s, ps) ==
    /\ ps = ScoredPools(d, l)
    /\ s = SlotScores(EarnedWeights(Blended(d, l), ScoredPools(d, l)), l)

SlotsIn(p, l, withheld) == {u \in Uids \ withheld : l[u] \in p}
GroupsOf(withheld, l, ps) ==
    {SetToSeq(SlotsIn(p, l, withheld)) :
       p \in {q \in ps : Cardinality(SlotsIn(q, l, withheld)) > 1}}

\* The part of the vote that its scores earn.
Rest(plan) == IF network = "none" \/ plan.bps = 0 THEN 1 ELSE BPS - plan.bps

Spreads(plan, rest, s, l, ps) ==
    /\ rest \in Nat /\ s \in [Uids -> Nat]
    /\ plan.weights \in [Uids -> Nat] /\ \E u \in Uids : plan.weights[u] > 0
    /\ \A u \in Uids \ plan.withheld : plan.weights[u] = rest * s[u]
    /\ plan.groups = GroupsOf(plan.withheld, l, ps) /\ PoolsApart(plan.groups)

ScoresAreApplied == attempt.pc \in Deciding => Applied(durable, local, scores, pools)
PlanSpreads ==
    attempt.pc = "planned" /\ attempt.plan.bps # BPS =>
      Spreads(attempt.plan, Rest(attempt.plan), scores, local, pools)

CopiesInv ==
    /\ HonestInv
    /\ chain \in Chains /\ OneSlotEach(local)
    /\ ScoresAreApplied
    /\ PlanSpreads
    /\ CopiesEarnAsOne

\* A pool whose members all have a slot that is not withheld gets, together, what
\* its best member alone would round to.
LEMMA PoolSharesAsOne ==
    ASSUME NEW d \in Earnings, NEW l, OneSlotEach(l), NEW s, NEW ps, Applied(d, l, s, ps),
           NEW plan, NEW rest, Spreads(plan, rest, s, l, ps),
           NEW units,
           units = WeightVector(plan.weights, Unlimited[1], Unlimited[2], plan.groups),
           NEW p \in ps, NEW S, S = SlotsIn(p, l, plan.withheld),
           Cardinality(S) = Cardinality(p)
    PROVE  Together(units, S) =
             HalfUp(rest * CUT * BestAlone(d, p) * U16_MAX, Largest(plan.weights))
<1>1. PICK w : w = EarnedWeights(Blended(d, l), ScoredPools(d, l))
  OBVIOUS
<1>2. EarnsAsOne(w, d, p)
  BY <1>1, PoolEarnsAsOne DEF Applied
<1>3. PICK best \in Nat : best = BestAlone(d, p) /\ Sum(w, p) = CUT * best
  BY <1>2 DEF EarnsAsOne, BestAlone
<1>4. /\ p \subseteq DOMAIN w /\ (\A h \in p : w[h] \in Nat)
      /\ IsFiniteSet(p) /\ Cardinality(p) > 1
  BY <1>2 DEF EarnsAsOne
<1>5. S \in SUBSET Uids /\ \A u \in S : u \notin plan.withheld /\ l[u] \in p
  BY DEF SlotsIn
<1>6. Scored(s, w, l, S)
  <2>1. \A u \in S : s[u] = w[l[u]]
    BY <1>1, <1>4, <1>5 DEF Applied, SlotScores
  <2> QED
    BY <2>1 DEF Scored
<1>7. Sum(s, S) = CUT * best
  <2>1. Sum(s, S) = Sum(w, p)
    BY <1>4, <1>5, <1>6, SlotsHaveTheSum
  <2> QED
    BY <1>3, <2>1
<1>8. /\ rest \in Nat /\ s \in [Uids -> Nat]
      /\ plan.weights \in [Uids -> Nat] /\ \E u \in Uids : plan.weights[u] > 0
      /\ \A u \in Uids \ plan.withheld : plan.weights[u] = rest * s[u]
      /\ plan.groups = GroupsOf(plan.withheld, l, ps) /\ PoolsApart(plan.groups)
  BY DEF Spreads
<1>9. PICK weights, groups :
        /\ weights = plan.weights /\ weights \in [Uids -> Nat]
        /\ groups = plan.groups
  BY <1>8
<1>10. Sum(weights, S) = rest * (CUT * best)
  <2> DEFINE y == [u \in Uids |-> rest * s[u]]
  <2>1. y \in [Uids -> Nat] /\ Scales(y, rest, s, Uids)
    BY <1>8 DEF Scales
  <2>2. Agree(weights, y, S)
    <3>1. \A u \in S : u \in Uids \ plan.withheld
      BY <1>5
    <3> QED
      BY <1>8, <1>9, <3>1 DEF Agree
  <2> HIDE DEF y
  <2>3. Sum(y, S) = rest * Sum(s, S)
    BY <1>5, <1>8, <2>1, UidsAreFinite, SumOfMultiples
  <2>4. Sum(weights, S) = Sum(y, S)
    BY <2>2, SumsAgree
  <2> QED
    BY <1>7, <2>3, <2>4
<1>11. PICK g \in groups : ToSet(g) = S
  <2>1. SetToSeq(S) \in groups
    BY <1>4, <1>8, <1>9 DEF GroupsOf
  <2>2. IsFiniteSet(S)
    BY <1>5, UidsAreFinite, FS_Subset
  <2>3. ToSet(SetToSeq(S)) = S
    BY <2>2, SequenceHasTheSet
  <2> QED
    BY <2>1, <2>3
<1>12. PICK P : P = {u \in Uids : weights[u] > 0} /\ P # {}
  BY <1>8, <1>9
<1>13. Sum(units, S \cap DOMAIN units) = HalfUp(Sum(weights, S) * U16_MAX, Largest(weights))
  <2>1. PoolsApart(groups)
    BY <1>8, <1>9
  <2>2. units = WeightVector(weights, Unlimited[1], Unlimited[2], groups)
    BY <1>9
  <2> QED
    BY <1>5, <1>9, <1>11, <1>12, <2>1, <2>2, PoolIsOneEntry
<1>14. rest * (CUT * best) = rest * CUT * best
  BY <1>8, VoteAssumption
<1>15. Together(units, S) = Sum(units, S \cap DOMAIN units)
  BY DEF Together, Sum
<1> QED
  BY <1>3, <1>9, <1>10, <1>13, <1>14, <1>15

\* A plan that does not give the owner all gives every slot that is not withheld
\* the same part of its score.
LEMMA PlanIsMadeSpread ==
    ASSUME ScoresAreEarned, Disjoint(pools), FirstRefusal = None,
           network = "none" => \E u \in Uids : scores[u] > 0,
           NEW plan, plan = Plan, plan.bps # BPS
    PROVE  Spreads(plan, Rest(plan), scores, local, pools)
<1>1. scores \in [Uids -> Nat]
  BY DEF ScoresAreEarned
<1>2. PlanPays(plan)
  <2>1. network = "none" => PlanPays(plan)
    BY PlanIsMadeSound
  <2>2. network # "none" => PlanPays(plan)
    BY PlanIsMadeSound
  <2> QED
    BY <2>1, <2>2
<1>3. plan.weights \in [Uids -> Nat] /\ \E u \in Uids : plan.weights[u] > 0
  BY <1>2 DEF PlanPays
<1>4. plan.groups = PoolUids(plan.withheld)
  BY DEF Plan
<1>5. plan.groups = GroupsOf(plan.withheld, local, pools)
  BY <1>4 DEF PoolUids, GroupsOf, SlotsIn
<1>6. PoolsApart(plan.groups)
  BY <1>4, GroupsAreApart
<1>7. Rest(plan) \in Nat /\ \A u \in Uids \ plan.withheld : plan.weights[u] = Rest(plan) * scores[u]
  <2>1. CASE network = "none"
    <3>1. plan.weights = scores /\ Rest(plan) = 1
      BY <2>1 DEF Plan, Rest
    <3> QED
      BY <1>1, <3>1
  <2>2. CASE network # "none"
    <3> DEFINE withheld == IF Mode = "scored" THEN Withheld ELSE {OwnerUid}
               vote == VoteNetworkWeights(Earned, OwnerUid, ObservedBurnRate)
    <3>1. /\ plan.weights = vote.weights /\ plan.bps = vote.bps
          /\ plan.withheld = withheld
      BY <2>2 DEF Plan
    <3>2. PICK bps, earned, owner :
            bps = ObservedBurnRate /\ earned = Earned /\ owner = OwnerUid
      OBVIOUS
    <3>3. vote = IF Total(earned) = 0 \/ bps = BPS THEN [weights |-> OneHot(owner), bps |-> BPS]
                 ELSE [weights |-> IF bps = 0 THEN earned
                                   ELSE OwnerBurnWeights(earned, owner, bps),
                       bps |-> bps]
      BY <3>2 DEF VoteNetworkWeights
    <3> HIDE DEF vote
    <3>4. ~(Total(earned) = 0 \/ bps = BPS)
      BY <3>1, <3>3
    <3>5. plan.bps = bps /\ plan.weights = IF bps = 0 THEN earned
                                           ELSE OwnerBurnWeights(earned, owner, bps)
      BY <3>1, <3>3, <3>4
    <3>6. AsksRate /\ bps = BurnRate(chain.text)
      BY <3>2, <3>4 DEF ObservedBurnRate
    <3>7. bps \in Nat /\ bps < BPS /\ BPS \in Nat
      BY <3>4, <3>6, VoteAssumption DEF BurnRate
    <3>8. plan.withheld = Withheld /\ owner \in Withheld
      BY <3>1, <3>2, <3>6 DEF AsksRate, Withheld
    <3>9. \A u \in Uids \ plan.withheld : u # owner /\ earned[u] = scores[u]
      BY <3>2, <3>8 DEF Earned
    <3>10. PICK rest \in Nat : rest = Rest(plan) /\ rest = IF bps = 0 THEN 1 ELSE BPS - bps
      <4>1. Rest(plan) = IF bps = 0 THEN 1 ELSE BPS - bps
        BY ONLY <2>2, <3>5 DEF Rest
      <4>2. BPS - bps \in Nat /\ 1 \in Nat
        BY ONLY <3>7
      <4> QED
        BY <4>1, <4>2
    <3>11. CASE bps = 0
      <4>1. plan.weights = earned /\ rest = 1
        BY <3>5, <3>10, <3>11
      <4> QED
        BY <1>1, <3>9, <3>10, <4>1
    <3>12. CASE bps # 0
      <4>1. plan.weights = [u \in Uids |-> IF u = owner THEN bps * Total(earned)
                                           ELSE (BPS - bps) * earned[u]]
        BY <3>5, <3>12 DEF OwnerBurnWeights
      <4>2. \A u \in Uids \ plan.withheld : plan.weights[u] = (BPS - bps) * scores[u]
        BY <3>9, <4>1
      <4>3. rest = BPS - bps
        BY <3>10, <3>12
      <4> QED
        BY <3>10, <4>2, <4>3
    <3> QED
      BY <3>11, <3>12
  <2> QED
    BY <2>1, <2>2
<1> QED
  BY <1>1, <1>3, <1>5, <1>6, <1>7 DEF Spreads

LEMMA SlotsKeep ==
    ASSUME chain \in Chains, OneSlotEach(local), [Next]_vars
    PROVE  (chain \in Chains)' /\ OneSlotEach(local)'
<1>1. chain' \in Chains
  <2>1. CASE MoveChain
    <3> USE DEF Chains
    <3>1. /\ chain.hotkeys \in [Uids -> Hotkeys]
          /\ \A u, v \in Uids : chain.hotkeys[u] = chain.hotkeys[v] => u = v
      BY DEF Injection, IsInjective
    <3>2. ASSUME NEW u \in Uids, NEW h \in Hotkeys \ {chain.hotkeys[v] : v \in Uids},
                 chain' = [chain EXCEPT !.hotkeys[u] = h]
          PROVE  chain' \in Chains
      <4>1. PICK hotkeys : hotkeys = [chain.hotkeys EXCEPT ![u] = h]
        OBVIOUS
      <4>2. hotkeys \in [Uids -> Hotkeys] /\ \A v, x \in Uids : hotkeys[v] = hotkeys[x] => v = x
        BY <3>1, <4>1
      <4>3. hotkeys \in Injection(Uids, Hotkeys)
        BY <4>2 DEF Injection, IsInjective
      <4>4. chain' = [chain EXCEPT !.hotkeys = hotkeys]
        BY <3>2, <4>1
      <4> QED
        BY <4>3, <4>4
    <3>3. ASSUME NEW h \in Hotkeys, NEW c \in Coldkeys, chain' = [chain EXCEPT !.cold[h] = c]
          PROVE  chain' \in Chains
      <4>1. PICK cold : cold = [chain.cold EXCEPT ![h] = c]
        OBVIOUS
      <4>2. cold \in [Hotkeys -> Coldkeys]
        BY <4>1
      <4>3. chain' = [chain EXCEPT !.cold = cold]
        BY <3>3, <4>1
      <4> QED
        BY <4>2, <4>3
    <3>4. ASSUME \/ \E h \in Hotkeys : chain' = [chain EXCEPT !.owner = h]
                 \/ \E c \in Coldkeys : chain' = [chain EXCEPT !.ownerCold = c]
                 \/ \E t \in Texts : chain' = [chain EXCEPT !.text = t]
                 \/ chain' = [chain EXCEPT !.permit = ~@]
                 \/ chain' = [chain EXCEPT !.late = ~@]
          PROVE  chain' \in Chains
      BY <3>4
    <3> HIDE DEF Chains
    <3> QED
      BY <2>1, <3>2, <3>3, <3>4 DEF MoveChain
  <2>2. CASE ~MoveChain
    <3>1. CASE Tick \/ Resync \/ Reconcile \/ Refresh \/ Abstain \/ AskLedger
      BY <3>1 DEF chainVars, Tick, Resync, Reconcile, Refresh, Abstain, AskLedger
    <3>2. CASE ReadRaises \/ PlanRefused \/ PlanMade \/ Prepare \/ RecordRefused
      BY <3>2 DEF chainVars, ReadRaises, PlanRefused, PlanMade, Prepare, RecordRefused
    <3>3. CASE NotePrepared \/ RecordOutcome \/ NoteWritten
      BY <3>3 DEF chainVars, NotePrepared, RecordOutcome, NoteWritten
    <3>4. CASE \E r \in Readers : BeginRead(r) \/ ReadLedger(r) \/ Store(r)
      BY <3>4 DEF BeginRead, ReadLedger, Store, chainVars
    <3>5. CASE Expire \/ UNCHANGED vars
      BY <3>5 DEF Expire, vars, chainVars
    <3> QED
      BY <2>2, <3>1, <3>2, <3>3, <3>4, <3>5 DEF Next
  <2> QED
    BY <2>1, <2>2
<1>2. OneSlotEach(chain.hotkeys)
  BY DEF Chains, Injection, IsInjective, OneSlotEach
<1>3. local' = local \/ local' = chain.hotkeys
  <2>1. CASE Resync
    BY <2>1 DEF Resync
  <2>2. CASE Tick \/ Refresh
    BY <2>2 DEF Tick, Refresh
  <2>3. CASE \/ Reconcile \/ Abstain \/ AskLedger \/ ReadRaises \/ PlanRefused \/ PlanMade
             \/ Prepare \/ RecordRefused \/ NotePrepared \/ RecordOutcome \/ NoteWritten
    BY <2>3 DEF scoreVars, Reconcile, Abstain, AskLedger, ReadRaises, PlanRefused, PlanMade,
       Prepare, RecordRefused, NotePrepared, RecordOutcome, NoteWritten
  <2>4. CASE Waits
    BY <2>4, WaitsKeep DEF scoreVars
  <2> QED
    BY <2>1, <2>2, <2>3, <2>4 DEF Next, Waits
<1> QED
  BY <1>1, <1>2, <1>3 DEF OneSlotEach

\* Only a refresh begins a decision, with the weights it has just applied.
LEMMA AppliedKeeps ==
    ASSUME ScoresAreApplied, [Next]_vars
    PROVE  ScoresAreApplied'
<1>1. CASE Tick \/ Resync
  <2>1. attempt'.pc \in {"idle", "synced"}
    BY <1>1, AttemptMoves
  <2> QED
    BY <2>1 DEF ScoresAreApplied, Deciding
<1>2. CASE Refresh
  <2>1. CASE ScoresRead(local)
    <3>1. PICK d, l : d = durable /\ l = local
      OBVIOUS
    <3>2. durable' = d /\ local' = l
      BY <1>2, <3>1 DEF Refresh
    <3>3. ApplyWeights(d, l)
      BY <2>1, <3>1 DEF ScoresRead
    <3>4. PICK s, ps : s = scores' /\ ps = pools'
      OBVIOUS
    <3>5. Applied(d, l, s, ps)
      BY <3>3, <3>4 DEF ApplyWeights, Applied, SlotScores
    <3> QED
      BY <3>2, <3>4, <3>5 DEF ScoresAreApplied
  <2>2. CASE attempt' = attempt
    <3>1. attempt'.pc = "idle"
      BY <1>2, <2>2, AttemptMoves
    <3> QED
      BY <3>1 DEF ScoresAreApplied, Deciding
  <2> QED
    BY <1>2, <2>1, <2>2 DEF Refresh
<1>3. CASE \/ Reconcile \/ Abstain \/ AskLedger \/ ReadRaises \/ PlanRefused \/ PlanMade
           \/ Prepare \/ RecordRefused \/ NotePrepared \/ RecordOutcome \/ NoteWritten
  <2>1. scores' = scores /\ durable' = durable /\ local' = local /\ pools' = pools
    BY <1>3 DEF scoreVars, Reconcile, Abstain, AskLedger, ReadRaises, PlanRefused, PlanMade,
       Prepare, RecordRefused, NotePrepared, RecordOutcome, NoteWritten
  <2>2. attempt'.pc \in Deciding => attempt.pc \in Deciding
    BY <1>3, AttemptMoves DEF Deciding
  <2> QED
    BY <2>1, <2>2 DEF ScoresAreApplied
<1>4. CASE Waits
  <2>1. /\ attempt' = attempt
        /\ scores' = scores /\ durable' = durable /\ local' = local /\ pools' = pools
    BY <1>4, WaitsKeep DEF scoreVars
  <2> QED
    BY <2>1 DEF ScoresAreApplied
<1> QED
  BY <1>1, <1>2, <1>3, <1>4 DEF Next, Waits

LEMMA SpreadKeeps ==
    ASSUME ScoresAreEarned, PlanIsSound, Disjoint(pools), PlanSpreads, [Next]_vars
    PROVE  PlanSpreads'
<1>1. CASE PlanMade
  <2>1. attempt.pc = "ready" /\ FirstRefusal = None
    BY <1>1 DEF PlanMade
  <2>2. network' = network /\ scores' = scores /\ local' = local /\ pools' = pools
    BY <1>1 DEF PlanMade, chainVars, scoreVars
  <2>3. CASE ~Due
    <3>1. attempt'.pc = "idle"
      BY <1>1, <2>3 DEF PlanMade, Idle
    <3> QED
      BY <3>1 DEF PlanSpreads
  <2>4. CASE Due
    <3>1. PICK plan, s, l, ps : plan = Plan /\ s = scores /\ l = local /\ ps = pools
      OBVIOUS
    <3>2. attempt'.plan = plan
      BY <1>1, <2>4, <3>1 DEF PlanMade
    <3>3. network = "none" => \E u \in Uids : scores[u] > 0
      BY <2>1 DEF PlanIsSound
    <3>4. PICK rest : rest = Rest(plan)
      OBVIOUS
    <3>5. plan.bps # BPS => Spreads(plan, rest, s, l, ps)
      BY <2>1, <3>1, <3>3, <3>4, PlanIsMadeSpread
    <3>6. rest = IF network' = "none" \/ plan.bps = 0 THEN 1 ELSE BPS - plan.bps
      BY <2>2, <3>4 DEF Rest
    <3> QED
      BY <2>2, <3>1, <3>2, <3>5, <3>6 DEF PlanSpreads, Rest
  <2> QED
    BY <2>3, <2>4
<1>2. CASE \/ Tick \/ Resync \/ Reconcile \/ Refresh \/ Abstain \/ AskLedger \/ ReadRaises
           \/ PlanRefused \/ Prepare \/ RecordRefused \/ NotePrepared \/ RecordOutcome
           \/ NoteWritten
  <2>1. attempt'.pc # "planned"
    BY <1>2, AttemptMoves
  <2> QED
    BY <2>1 DEF PlanSpreads
<1>3. CASE Waits
  <2>1. /\ attempt' = attempt /\ network' = network
        /\ scores' = scores /\ local' = local /\ pools' = pools
    BY <1>3, WaitsKeep DEF scoreVars
  <2> QED
    BY <2>1 DEF PlanSpreads, Rest
<1> QED
  BY <1>1, <1>2, <1>3 DEF Next, Waits

LEMMA CopiesKeep ==
    ASSUME ScoresAreEarned, OneSlotEach(local), ScoresAreApplied, PlanSpreads,
           CopiesEarnAsOne, [Next]_vars
    PROVE  CopiesEarnAsOne'
<1>1. CASE Prepare
  <2>1. /\ attempt.pc = "planned" /\ attempt'.plan = attempt.plan
        /\ attempt'.units = WeightVector(attempt.plan.weights, limits[1], limits[2],
                                         attempt.plan.groups)
    BY <1>1, PrepareMakes
  <2>2. /\ limits' = limits /\ network' = network
        /\ local' = local /\ pools' = pools /\ durable' = durable
    BY <1>1 DEF Prepare, chainVars, scoreVars
  <2>3. PICK plan, units, d, l, s, ps :
          /\ plan = attempt.plan /\ units = attempt'.units
          /\ d = durable /\ l = local /\ s = scores /\ ps = pools
    OBVIOUS
  <2>4. PICK rest : rest = Rest(plan)
    OBVIOUS
  <2>5. rest = IF network' = "none" \/ plan.bps = 0 THEN 1 ELSE BPS - plan.bps
    BY <2>2, <2>4 DEF Rest
  <2> SUFFICES ASSUME limits = Unlimited, plan.bps # BPS, NEW p \in ps,
                      NEW S, S = SlotsIn(p, l, plan.withheld),
                      Cardinality(S) = Cardinality(p)
               PROVE  Together(units, S) =
                        HalfUp(rest * CUT * BestAlone(d, p) * U16_MAX, Largest(plan.weights))
    BY <2>1, <2>2, <2>3, <2>5 DEF CopiesEarnAsOne, Prepared, Unlimited, SlotsIn
  <2>6. d \in Earnings /\ OneSlotEach(l) /\ Applied(d, l, s, ps)
    BY <2>1, <2>3 DEF ScoresAreEarned, ScoresAreApplied, Deciding
  <2>7. Spreads(plan, rest, s, l, ps)
    BY <2>1, <2>3, <2>4 DEF PlanSpreads
  <2>8. units = WeightVector(plan.weights, Unlimited[1], Unlimited[2], plan.groups)
    BY <2>1, <2>3
  <2> QED
    BY <2>6, <2>7, <2>8, PoolSharesAsOne
<1>2. CASE Waits
  <2>1. /\ attempt' = attempt /\ limits' = limits /\ network' = network
        /\ local' = local /\ pools' = pools /\ durable' = durable
    BY <1>2, WaitsKeep DEF scoreVars
  <2> QED
    BY <2>1 DEF CopiesEarnAsOne, Prepared, Unlimited
<1>3. CASE \/ Tick \/ Resync \/ Reconcile \/ Refresh \/ Abstain \/ AskLedger \/ ReadRaises
           \/ PlanRefused \/ PlanMade \/ RecordRefused \/ NotePrepared \/ RecordOutcome
           \/ NoteWritten
  <2>1. attempt'.pc # "prepared"
    BY <1>3, AttemptMoves
  <2> QED
    BY <2>1 DEF CopiesEarnAsOne, Prepared
<1> QED
  BY <1>1, <1>2, <1>3 DEF Next, Waits

\* What the pools of a vote rest on: one slot for each hotkey, weights applied from
\* the durable scores, and a plan in proportion to them.
THEOREM CopiesInvariant == Spec => []CopiesInv
<1>1. Init => chain \in Chains /\ OneSlotEach(local) /\ ScoresAreApplied /\ PlanSpreads
              /\ CopiesEarnAsOne
  <2> SUFFICES ASSUME Init
               PROVE  /\ chain \in Chains /\ OneSlotEach(local) /\ ScoresAreApplied
                      /\ PlanSpreads /\ CopiesEarnAsOne
    OBVIOUS
  <2>1. chain \in Chains /\ local = chain.hotkeys
    BY ChainsAssumption DEF Init
  <2>2. OneSlotEach(local)
    BY <2>1 DEF Chains, Injection, IsInjective, OneSlotEach
  <2>3. attempt.pc = "idle"
    BY DEF Init, Idle
  <2> QED
    BY <2>1, <2>2, <2>3 DEF ScoresAreApplied, PlanSpreads, CopiesEarnAsOne, Deciding, Prepared
<1>2. HonestInv /\ CopiesInv /\ [Next]_vars /\ HonestInv' => CopiesInv'
  <2> SUFFICES ASSUME HonestInv, CopiesInv, [Next]_vars, HonestInv' PROVE CopiesInv'
    OBVIOUS
  <2>1. ScoresAreEarned /\ PlanIsSound /\ Disjoint(pools)
    BY DEF HonestInv, AttemptInv
  <2>2. (chain \in Chains)' /\ OneSlotEach(local)'
    BY SlotsKeep DEF CopiesInv
  <2>3. ScoresAreApplied' /\ PlanSpreads' /\ CopiesEarnAsOne'
    BY <2>1, AppliedKeeps, SpreadKeeps, CopiesKeep DEF CopiesInv
  <2> QED
    BY <2>2, <2>3 DEF CopiesInv
<1>3. Init /\ HonestInv => CopiesInv
  BY <1>1 DEF CopiesInv
<1> QED
  BY <1>2, <1>3, HonestInvariant, PTL DEF Spec

\* Copies of one forecast have, together, the units that the best of them alone
\* would round to, whatever the pools, the scores and the owner's share
\* (duplicate_pools, _level_to_best, the groups of the encoder).
THEOREM CopiesShare == Spec => []CopiesEarnAsOne
<1>1. CopiesInv => CopiesEarnAsOne
  BY DEF CopiesInv
<1> QED
  BY <1>1, CopiesInvariant, PTL
=============================================================================
