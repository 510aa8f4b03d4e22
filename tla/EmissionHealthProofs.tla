------------------------- MODULE EmissionHealthProofs -------------------------
(***************************************************************************)
(* Theorems about EmissionHealth for every length of an epoch, a window, a  *)
(* startup grace, a response and a pass, and any number of API threads.     *)
(***************************************************************************)
EXTENDS EmissionHealth, TLAPS

Modes == {"abstain", "scored", "owner_vote"}
Blocks == {None, Scores, Refused}
\* The loop is between a check and the row of a submission.
Attempting == {"weights", "ready", "planning", "emitting"}
Pcs == {"idle", "resync", "reconcile", "sending"} \union Attempting

\* A block that has been, or Never.
Past(b) == b \in Int /\ Never <= b /\ b <= head

-----------------------------------------------------------------------------
(***************************************************************************)
(* The inductive invariant.                                                *)
(***************************************************************************)
EmRecords ==
    [mode : Modes, since : Int, block : Blocks, underlying : Blocks,
     chainDue : Nat, snapBlock : Int, snapPermit : BOOLEAN, note : Int]

EmTypes ==
    /\ em \in EmRecords
    /\ Past(em.since) /\ Past(em.snapBlock) /\ Past(em.note)

ReaderRecords ==
    [pc : {"idle", "asked", "read"}, begun : Nat, block : Nat,
     open : BOOLEAN, fence : Nat \union {Never}]

ReaderTypes ==
    /\ reader \in [Readers -> ReaderRecords]
    /\ \A r \in Readers :
         /\ reader[r].begun <= head /\ reader[r].block <= meta.block
         /\ reader[r].pc # "idle" => head <= reader[r].begun + RESPONSE

HealthTypes ==
    /\ head \in Nat
    /\ meta \in [block : Nat, permit : BOOLEAN] /\ meta.block <= head
    /\ positive \in BOOLEAN /\ open \in BOOLEAN
    /\ EmTypes
    /\ Past(last) /\ Past(checked) /\ head <= checked + PASS
    /\ fence \in Nat \union {Never}
    /\ pc \in Pcs
    /\ ReaderTypes
    /\ answer \in {None, "in time", "overdue"}
    /\ Past(owed) /\ waited \in Nat /\ waited <= head

\* A clock that runs was started after the loop last waited.
StartedAfter == em.since # Never => waited <= em.since

\* A vote that is owed is blocked by nothing but a stale view: its mode stands,
\* no batch is open, and the fence and the chain's due block are behind the
\* newest block the loop knows.
Clear(b) ==
    /\ Larger(b, em.note) > fence
    /\ Larger(b, em.note) >= em.chainDue
    /\ em.snapBlock >= Larger(b, em.note) => em.snapPermit

Owed ==
    /\ ObservedMode(em, positive) # "abstain"
    /\ em.mode = ObservedMode(em, positive)
    /\ ~open /\ pc # "sending"
    /\ fence # Never /\ last # Never
    /\ Clear(meta.block)

\* A response begun since then sees nothing in the way either.
FreshReaders == \A r \in Readers :
    reader[r].pc # "idle" /\ reader[r].begun > owed =>
        /\ Clear(reader[r].block)
        /\ reader[r].pc = "read" => ~reader[r].open /\ reader[r].fence = fence

\* The permit was lost after the vote became due; the next check will see it.
PermitGone == ~meta.permit /\ Larger(meta.block, em.note) > em.snapBlock

\* A clock that is stopped nevertheless was stopped by a response begun before,
\* and waits for the pacing of an attempt made before or under way then.
StoppedEarly ==
    /\ last <= owed + RESPONSE + PASS
    /\ pc \in Attempting => checked <= owed + RESPONSE
    /\ checked <= owed + RESPONSE \/ checked <= last + EPOCH

OwedInv ==
    owed # Never =>
        /\ Owed /\ FreshReaders
        /\ pc \in Attempting \union {"resync"} => ~PermitGone
        /\ \/ PermitGone
           \/ IF em.since = Never THEN StoppedEarly ELSE em.since <= owed + Slack

HealthInv == HealthTypes /\ StartedAfter /\ OwedInv

-----------------------------------------------------------------------------
(***************************************************************************)
(* What a refresh leaves of the clock, and how a deferral moves the fields. *)
(***************************************************************************)
LEMMA ObservedIsMode ==
    ASSUME HealthAssumption, NEW e \in EmRecords, NEW scored \in BOOLEAN
    PROVE  ObservedMode(e, scored) \in Modes
BY DEF ObservedMode, Modes, HealthAssumption

LEMMA DeferKeeps ==
    ASSUME HealthAssumption, NEW e \in EmRecords, NEW scored \in BOOLEAN,
           NEW f, f = Defer(e, scored)
    PROVE  /\ f \in EmRecords /\ f.since = Never
           /\ f.snapBlock = e.snapBlock /\ f.note = e.note
<1> DEFINE mode == ObservedMode(e, scored)
<1>1. mode \in Modes /\ Never \in Int
  BY ObservedIsMode DEF Never
<1>2. f = [e EXCEPT !.since = Never, !.mode = mode]
  BY DEF Defer
<1> HIDE DEF mode
<1>3. f = [mode |-> mode, since |-> Never, block |-> e.block, underlying |-> e.underlying,
           chainDue |-> e.chainDue, snapBlock |-> e.snapBlock,
           snapPermit |-> e.snapPermit, note |-> e.note]
  BY <1>2 DEF EmRecords
<1> QED
  BY <1>1, <1>3 DEF EmRecords

LEMMA BlockKeeps ==
    ASSUME HealthAssumption, NEW e \in EmRecords, NEW scored \in BOOLEAN,
           NEW reason \in Blocks, NEW f, f = BlockEmission(e, reason, scored)
    PROVE  /\ f \in EmRecords /\ f.since = Never
           /\ f.snapBlock = e.snapBlock /\ f.note = e.note
<1>1. PICK under \in Blocks :
        f = Defer([e EXCEPT !.underlying = under, !.block = reason], scored)
  <2>1. e.block \in Blocks /\ e.underlying \in Blocks
    BY DEF EmRecords
  <2>2. CASE reason = Scores /\ e.block \notin {None, Scores}
    BY <2>1, <2>2 DEF BlockEmission
  <2>3. CASE ~(reason = Scores /\ e.block \notin {None, Scores})
    BY <2>1, <2>3 DEF BlockEmission
  <2> QED
    BY <2>2, <2>3
<1>2. PICK g : g = [e EXCEPT !.underlying = under, !.block = reason]
  OBVIOUS
<1>3. g = [mode |-> e.mode, since |-> e.since, block |-> reason, underlying |-> under,
           chainDue |-> e.chainDue, snapBlock |-> e.snapBlock,
           snapPermit |-> e.snapPermit, note |-> e.note]
  BY <1>2 DEF EmRecords
<1>4. g \in EmRecords /\ g.snapBlock = e.snapBlock /\ g.note = e.note
  BY <1>3 DEF EmRecords
<1>5. f = Defer(g, scored)
  BY <1>1, <1>2
<1> QED
  BY <1>4, <1>5, DeferKeeps

\* What was parked is taken back, the clock is not touched.
LEMMA ClearKeeps ==
    ASSUME NEW e \in EmRecords, NEW f, f \in {ClearBlock(e), ScoresRestored(e)}
    PROVE  /\ f \in EmRecords /\ f.mode = e.mode /\ f.since = e.since
           /\ f.chainDue = e.chainDue /\ f.note = e.note
           /\ f.snapBlock = e.snapBlock /\ f.snapPermit = e.snapPermit
           /\ e.block # Scores /\ f = ScoresRestored(e) => f = e
           /\ f = ClearBlock(e) => f.block = None
<1>1. PICK b \in Blocks, u \in Blocks :
        /\ f = [mode |-> e.mode, since |-> e.since, block |-> b, underlying |-> u,
                chainDue |-> e.chainDue, snapBlock |-> e.snapBlock,
                snapPermit |-> e.snapPermit, note |-> e.note]
        /\ f = ClearBlock(e) => b = None
  <2>1. CASE f = ClearBlock(e)
    BY <2>1 DEF ClearBlock, EmRecords, Blocks
  <2>2. CASE f = ScoresRestored(e) /\ e.block = Scores
    BY <2>2 DEF ScoresRestored, ClearBlock, EmRecords, Blocks
  <2>3. CASE f = ScoresRestored(e) /\ e.block # Scores
    BY <2>3 DEF ScoresRestored, ClearBlock, EmRecords, Blocks
  <2> QED
    BY <2>1, <2>2, <2>3
<1>2. e.block # Scores /\ f = ScoresRestored(e) => f = e
  BY DEF ScoresRestored
<1>3. f \in EmRecords
  BY <1>1 DEF EmRecords
<1> QED
  BY <1>1, <1>2, <1>3

LEMMA NoteKeeps ==
    ASSUME NEW e \in EmRecords, NEW block \in Nat, NEW f, f = NoteHead(e, block)
    PROVE  /\ f \in EmRecords /\ f.note = Larger(block, e.note)
           /\ f.mode = e.mode /\ f.since = e.since /\ f.chainDue = e.chainDue
           /\ f.block = e.block /\ f.underlying = e.underlying
           /\ f.snapBlock = e.snapBlock /\ f.snapPermit = e.snapPermit
<1> DEFINE note == Larger(e.note, block)
<1>1. note \in Int /\ note = Larger(block, e.note)
  BY DEF Larger, EmRecords
<1>2. f = [e EXCEPT !.note = note]
  BY DEF NoteHead, EmRecords
<1> HIDE DEF note
<1> QED
  BY <1>1, <1>2 DEF EmRecords

\* A refresh keeps all but the mode, which it observes, and the clock: stopped
\* when the emission waits, else started if it was not running.
LEMMA RefreshKeeps ==
    ASSUME HealthAssumption, NEW e \in EmRecords, positive \in BOOLEAN, head \in Nat,
           NEW block, NEW pending, NEW fenced,
           NEW mode, mode = ObservedMode(e, positive),
           NEW since, since = (IF mode = e.mode THEN e.since ELSE Never),
           NEW f, f = RefreshHealth(e, block, pending, fenced)
    PROVE  /\ f \in EmRecords /\ f.mode = mode
           /\ f.block = e.block /\ f.underlying = e.underlying /\ f.chainDue = e.chainDue
           /\ f.snapBlock = e.snapBlock /\ f.snapPermit = e.snapPermit /\ f.note = e.note
           /\ f.since = IF Waits(e, mode, JudgedAt(e, block), pending, fenced, since) THEN Never
                        ELSE IF since = Never THEN head ELSE since
<1>1. mode \in Modes
  BY ObservedIsMode
<1>2. PICK s \in Int :
        /\ s = IF Waits(e, mode, JudgedAt(e, block), pending, fenced, since) THEN Never
               ELSE IF since = Never THEN head ELSE since
        /\ f = [e EXCEPT !.since = s, !.mode = mode]
  <2>1. CASE Waits(e, mode, JudgedAt(e, block), pending, fenced, since)
    <3>1. f = [e EXCEPT !.since = Never, !.mode = mode] /\ Never \in Int
      BY <2>1 DEF RefreshHealth, Defer, Never
    <3> QED
      BY <2>1, <3>1
  <2>2. CASE ~Waits(e, mode, JudgedAt(e, block), pending, fenced, since)
    <3> DEFINE s == IF since = Never THEN head ELSE since
    <3>1. s \in Int
      BY DEF EmRecords
    <3>2. f = [e EXCEPT !.mode = mode, !.since = s]
      BY <2>2 DEF RefreshHealth
    <3> HIDE DEF s
    <3>3. f = [e EXCEPT !.since = s, !.mode = mode]
      BY <3>2 DEF EmRecords
    <3> QED
      BY <2>2, <3>1, <3>3 DEF s
  <2> QED
    BY <2>1, <2>2
<1>3. f = [mode |-> mode, since |-> s, block |-> e.block, underlying |-> e.underlying,
           chainDue |-> e.chainDue, snapBlock |-> e.snapBlock,
           snapPermit |-> e.snapPermit, note |-> e.note]
  BY <1>2 DEF EmRecords
<1>4. s = IF Waits(e, mode, JudgedAt(e, block), pending, fenced, since) THEN Never
          ELSE IF since = Never THEN head ELSE since
  BY <1>2
<1> QED
  BY <1>1, <1>3, <1>4 DEF EmRecords

-----------------------------------------------------------------------------
(***************************************************************************)
(* Every step keeps the invariant.                                         *)
(***************************************************************************)
LEMMA ReadersAreTyped ==
    ASSUME HealthTypes, NEW r \in Readers
    PROVE  /\ reader[r].pc \in {"idle", "asked", "read"}
           /\ reader[r].begun \in Nat /\ reader[r].begun <= head
           /\ reader[r].block \in Nat /\ reader[r].block <= meta.block
           /\ reader[r].fence \in Nat \union {Never}
           /\ reader[r].pc # "idle" => head <= reader[r].begun + RESPONSE
<1>1. reader[r] \in ReaderRecords
  BY DEF HealthTypes, ReaderTypes
<1>2. /\ reader[r].begun <= head /\ reader[r].block <= meta.block
      /\ reader[r].pc # "idle" => head <= reader[r].begun + RESPONSE
  BY DEF HealthTypes, ReaderTypes
<1> QED
  BY <1>1, <1>2 DEF ReaderRecords

\* What every step of the run loop but a check leaves well typed.
Typed ==
    /\ meta' \in [block : Nat, permit : BOOLEAN]
    /\ meta.block <= meta'.block /\ meta'.block <= head
    /\ positive' \in BOOLEAN /\ open' \in BOOLEAN
    /\ em' \in EmRecords
    /\ em'.snapBlock \in {em.snapBlock, head} /\ em'.note \in {em.note, head}
    /\ last' \in {last, head}
    /\ fence' \in Nat \union {Never}
    /\ pc' \in Pcs

LEMMA TypesGoOn ==
    ASSUME HealthInv, LoopOnly, Typed, waited' \in {waited, head},
           owed' \in {Never, owed}, em'.since \in {Never, em.since}
    PROVE  HealthTypes'
<1>1. /\ head' = head /\ checked' = checked /\ reader' = reader /\ answer' = None
  BY DEF LoopOnly, Quiet
<1>2. head \in Nat /\ EmTypes
  BY DEF HealthInv, HealthTypes
<1>3. em.since \in Int /\ em.snapBlock \in Int /\ em.note \in Int
  BY <1>2 DEF EmTypes, EmRecords
<1>4. EmTypes'
  BY <1>1, <1>2, <1>3 DEF EmTypes, Typed, Past, Never
<1>5. ReaderTypes'
  <2>1. reader' \in [Readers -> ReaderRecords]
    BY <1>1 DEF HealthInv, HealthTypes, ReaderTypes
  <2>2. ASSUME NEW r \in Readers
        PROVE  /\ reader'[r].begun <= head' /\ reader'[r].block <= meta'.block
               /\ reader'[r].pc # "idle" => head' <= reader'[r].begun + RESPONSE
    <3>1. /\ reader[r].block \in Nat /\ reader[r].block <= meta.block
          /\ reader[r].begun <= head
          /\ reader[r].pc # "idle" => head <= reader[r].begun + RESPONSE
      BY ReadersAreTyped DEF HealthInv
    <3>2. meta.block \in Nat /\ meta'.block \in Nat /\ meta.block <= meta'.block
      BY DEF HealthInv, HealthTypes, Typed
    <3> QED
      BY <1>1, <3>1, <3>2
  <2> QED
    BY <2>1, <2>2 DEF ReaderTypes
<1>6. Past(last)' /\ Past(checked)' /\ Past(owed)' /\ waited' \in Nat /\ waited' <= head'
  <2>1. Past(last) /\ Past(checked) /\ Past(owed) /\ waited \in Nat /\ waited <= head
    BY DEF HealthInv, HealthTypes
  <2>2. Past(last)'
    BY <1>1, <1>2, <2>1 DEF Typed, Past, Never
  <2>3. Past(checked)' /\ Past(owed)'
    BY <1>1, <1>2, <2>1 DEF Past, Never
  <2> QED
    BY <1>1, <1>2, <2>1, <2>2, <2>3
<1>7. head' <= checked' + PASS /\ answer' \in {None, "in time", "overdue"}
  BY <1>1 DEF HealthInv, HealthTypes
<1> QED
  BY <1>1, <1>2, <1>4, <1>5, <1>6, <1>7 DEF HealthTypes, Typed

\* A deferral ends what was owed and stops the clock.
LEMMA DeferralKeeps ==
    ASSUME HealthInv, LoopOnly, LoopDefers, Typed, em'.since = Never
    PROVE  HealthInv'
<1>1. HealthTypes'
  BY TypesGoOn DEF LoopDefers
<1> QED
  BY <1>1 DEF HealthInv, StartedAfter, OwedInv, LoopDefers

\* What is owed stays owed while the mode stands, nothing new comes to stand in
\* the way, and a lost permit is met by the next check.
LEMMA OwedGoesOn ==
    ASSUME HealthAssumption, HealthInv, LoopOnly, LoopGoesOn, Typed,
           em'.since = em.since,
           em'.mode \in {em.mode, ObservedMode(em', positive')},
           owed # Never =>
             /\ open' = open /\ pc' # "sending"
             /\ fence' = fence
             /\ \/ em'.chainDue = em.chainDue
                \/ em'.chainDue = head /\ em'.note = head
             /\ \/ em'.snapBlock = em.snapBlock /\ em'.snapPermit = em.snapPermit
                \/ em'.snapPermit = TRUE
             /\ last' = last \/ pc \in Attempting
             /\ pc' \in Attempting => pc \in Attempting
             /\ PermitGone => PermitGone'
             /\ pc' \in Attempting \union {"resync"} => ~PermitGone'
    PROVE  HealthInv'
<1>1. HealthTypes'
  BY TypesGoOn DEF LoopGoesOn
<1>2. StartedAfter'
  BY DEF HealthInv, StartedAfter, LoopGoesOn
<1>3. ASSUME owed' # Never
      PROVE  OwedInv'
  <2>0. head \in Nat /\ EmTypes /\ Past(last) /\ Past(checked) /\ Past(owed)
        /\ head <= checked + PASS
    BY DEF HealthInv, HealthTypes
  <2>1. owed' = owed /\ owed # Never /\ ~ModeMoves
    BY <1>3 DEF LoopGoesOn
  <2>2. head' = head /\ checked' = checked /\ reader' = reader
    BY DEF LoopOnly
  <2>3. /\ head \in Int /\ em.note \in Int /\ em.note <= head /\ em'.note \in Int
        /\ em.note <= em'.note /\ em.snapBlock \in Int /\ em'.snapBlock \in Int
        /\ em.chainDue \in Int /\ fence \in Int
        /\ meta.block \in Int /\ meta'.block \in Int /\ meta.block <= meta'.block
    <3>1. /\ em.note \in Int /\ em.note <= head /\ em.snapBlock \in Int /\ em.chainDue \in Int
      BY <2>0 DEF EmTypes, EmRecords, Past
    <3>2. /\ fence \in Int /\ meta.block \in Int /\ meta'.block \in Int
          /\ meta.block <= meta'.block
      <4>1. fence \in Nat \union {Never} /\ meta \in [block : Nat, permit : BOOLEAN]
        BY DEF HealthInv, HealthTypes
      <4> QED
        BY <4>1 DEF Typed, Never
    <3>3. /\ em'.note = em.note \/ em'.note = head
          /\ em'.snapBlock = em.snapBlock \/ em'.snapBlock = head
      BY DEF Typed
    <3> QED
      BY <2>0, <3>1, <3>2, <3>3
  <2>4. /\ Owed /\ FreshReaders
        /\ \/ PermitGone
           \/ IF em.since = Never THEN StoppedEarly ELSE em.since <= owed + Slack
        /\ pc \in Attempting \union {"resync"} => ~PermitGone
    BY <2>1 DEF HealthInv, OwedInv
  <2>5. ASSUME NEW b \in Int, NEW c \in Int, b <= c, Clear(b)
        PROVE  Clear(c)'
    <3>1. Larger(b, em.note) <= Larger(c, em'.note) /\ Larger(c, em'.note) >= em'.note
      BY <2>3, <2>5 DEF Larger
    <3>2. Larger(b, em.note) \in Int /\ Larger(c, em'.note) \in Int
      BY <2>3 DEF Larger
    <3>3. Larger(c, em'.note) > fence' /\ Larger(c, em'.note) >= em'.chainDue
      BY <2>1, <2>3, <2>5, <3>1, <3>2 DEF Clear
    <3>4. em'.snapBlock >= Larger(c, em'.note) => em'.snapPermit
      BY <2>1, <2>3, <2>5, <3>1, <3>2 DEF Clear
    <3> QED
      BY <3>3, <3>4 DEF Clear
  <2>6. Owed'
    <3>1. Clear(meta.block)'
      BY <2>3, <2>4, <2>5 DEF Owed, Clear
    <3>2. last' # Never
      BY <2>0, <2>4 DEF Owed, Typed, Never
    <3>3. /\ ObservedMode(em, positive)' = ObservedMode(em, positive)
          /\ em'.mode = ObservedMode(em, positive)'
      BY <2>1, <2>4 DEF Owed, ModeMoves
    <3> QED
      BY <2>1, <2>4, <3>1, <3>2, <3>3 DEF Owed
  <2>7. FreshReaders'
    <3>1. ASSUME NEW r \in Readers, reader'[r].pc # "idle", reader'[r].begun > owed'
          PROVE  /\ Clear(reader[r].block)'
                 /\ reader'[r].pc = "read" => ~reader'[r].open /\ reader'[r].fence = fence'
      <4>1. reader[r].block \in Int
        BY ReadersAreTyped DEF HealthInv
      <4>2. /\ Clear(reader[r].block)
            /\ reader[r].pc = "read" => ~reader[r].open /\ reader[r].fence = fence
        BY <2>1, <2>2, <2>4, <3>1 DEF FreshReaders
      <4>3. PICK b \in Int : b = reader[r].block
        BY <4>1
      <4>4. Clear(b)'
        BY <2>5, <4>2, <4>3
      <4>5. reader'[r].block = b
        BY <2>2, <4>3
      <4> QED
        BY <2>1, <2>2, <4>2, <4>4, <4>5 DEF Clear
    <3> QED
      BY <3>1 DEF FreshReaders
  <2>8. PermitGone' \/ IF em'.since = Never THEN StoppedEarly' ELSE em'.since <= owed' + Slack
    <3>1. CASE PermitGone
      BY <2>1, <3>1
    <3>2. CASE ~PermitGone /\ em.since # Never
      BY <2>1, <2>4, <3>2
    <3>3. CASE ~PermitGone /\ em.since = Never
      <4>1. StoppedEarly
        BY <2>4, <3>3
      <4>2. CASE pc \in Attempting
        <5>1. checked <= owed + RESPONSE /\ head <= owed + RESPONSE + PASS
          BY <2>0, <4>1, <4>2, HealthAssumption DEF StoppedEarly, Past
        <5>2. StoppedEarly'
          BY <2>0, <2>1, <2>2, <4>1, <5>1, HealthAssumption DEF StoppedEarly, Past, Typed
        <5> QED
          BY <3>3, <5>2
      <4>3. CASE pc \notin Attempting
        <5>1. StoppedEarly'
          BY <2>1, <2>2, <4>1, <4>3 DEF StoppedEarly
        <5> QED
          BY <3>3, <5>1
      <4> QED
        BY <4>2, <4>3
    <3> QED
      BY <3>1, <3>2, <3>3
  <2>9. pc' \in Attempting \union {"resync"} => ~PermitGone'
    BY <2>1
  <2> QED
    BY <2>6, <2>7, <2>8, <2>9 DEF OwedInv
<1>4. ASSUME owed' = Never
      PROVE  OwedInv'
  BY <1>4 DEF OwedInv
<1> QED
  BY <1>1, <1>2, <1>3, <1>4 DEF HealthInv

LEMMA SameIsTyped ==
    ASSUME HealthTypes
    PROVE  /\ head \in Nat
           /\ meta \in [block : Nat, permit : BOOLEAN] /\ meta.block <= head
           /\ positive \in BOOLEAN /\ open \in BOOLEAN /\ em \in EmRecords
           /\ fence \in Nat \union {Never} /\ pc \in Pcs
           /\ meta.block \in Nat /\ meta.block <= meta.block
<1>1. meta \in [block : Nat, permit : BOOLEAN]
  BY DEF HealthTypes
<1>2. meta.block \in Nat /\ meta.block <= meta.block
  BY <1>1
<1> QED
  BY <1>1, <1>2 DEF HealthTypes, EmTypes

LEMMA TickKeeps ==
    ASSUME HealthAssumption, HealthInv, Tick
    PROVE  HealthInv'
<1>1. Typed
  BY SameIsTyped DEF HealthInv, Tick, Typed
<1>2. LoopOnly /\ LoopGoesOn /\ em' = em
  BY DEF Tick
<1>3. /\ open' = open /\ fence' = fence /\ last' = last /\ meta' = meta
      /\ pc' = "idle" /\ PermitGone' = PermitGone
  BY DEF Tick, PermitGone
<1> QED
  BY <1>1, <1>2, <1>3, OwedGoesOn DEF Attempting

LEMMA ReadRaisesKeeps ==
    ASSUME HealthAssumption, HealthInv, ReadRaises
    PROVE  HealthInv'
<1>1. /\ em' = em /\ open' = open /\ fence' = fence /\ last' = last /\ meta' = meta
      /\ positive' = positive /\ pc' = "idle"
  BY DEF ReadRaises, fields
<1>2. Typed
  BY <1>1, SameIsTyped DEF HealthInv, Typed, Pcs
<1>3. LoopOnly /\ LoopGoesOn /\ PermitGone' = PermitGone
  BY <1>1 DEF ReadRaises, PermitGone
<1> QED
  BY <1>1, <1>2, <1>3, OwedGoesOn DEF Attempting

LEMMA ReconcileKeeps ==
    ASSUME HealthAssumption, HealthInv, Reconcile
    PROVE  HealthInv'
<1>1. /\ fence' = fence /\ last' = last /\ meta' = meta
      /\ positive' = positive /\ pc' = "idle" /\ pc = "reconcile"
      /\ open' \in {open, FALSE}
      /\ LoopOnly
  BY DEF Reconcile
<1>2. CASE em' = em /\ LoopGoesOn
  <2>1. Typed
    BY <1>1, <1>2, SameIsTyped DEF HealthInv, Typed, Pcs
  <2>2. owed # Never => open' = open
    <3>1. open \in BOOLEAN /\ (owed # Never => ~open)
      BY SameIsTyped DEF HealthInv, OwedInv, Owed
    <3> QED
      BY <1>1, <3>1, Zenon
  <2>3. PermitGone' = PermitGone
    BY <1>1, <1>2 DEF PermitGone
  <2> QED
    BY <1>1, <1>2, <2>1, <2>2, <2>3, OwedGoesOn DEF Attempting
<1>3. CASE em' = Defer(em, positive) /\ LoopDefers
  <2>1. /\ em' \in EmRecords /\ em'.since = Never
        /\ em'.snapBlock = em.snapBlock /\ em'.note = em.note
    BY <1>3, SameIsTyped, DeferKeeps DEF HealthInv
  <2>2. Typed
    BY <1>1, <2>1, SameIsTyped DEF HealthInv, Typed, Pcs
  <2> QED
    BY <1>1, <1>3, <2>1, <2>2, DeferralKeeps
<1> QED
  BY <1>2, <1>3 DEF Reconcile

\* Fields that were parked under a failed read are none while a vote is owed.
LEMMA OwedIsNotParked ==
    ASSUME HealthInv, owed # Never
    PROVE  ScoresRestored(em) = em
BY DEF HealthInv, OwedInv, Owed, ObservedMode, ScoresRestored, Scores, None

LEMMA ResyncKeeps ==
    ASSUME HealthAssumption, HealthInv, Resync
    PROVE  HealthInv'
<1>1. /\ fence' = fence /\ last' = last /\ open' = open /\ pc = "resync"
      /\ pc' \in {"idle", "reconcile"} /\ LoopOnly
  BY DEF Resync
<1>2. meta' \in [block : Nat, permit : BOOLEAN] /\ meta'.block = head
  BY SameIsTyped DEF HealthInv, Resync
<1>3. CASE positive' \in BOOLEAN /\ em' = ScoresRestored(em) /\ LoopGoesOn
  <2>1. /\ em' \in EmRecords /\ em'.since = em.since /\ em'.mode = em.mode
        /\ em'.note = em.note /\ em'.chainDue = em.chainDue
        /\ em'.snapBlock = em.snapBlock /\ em'.snapPermit = em.snapPermit
    BY <1>3, SameIsTyped, ClearKeeps DEF HealthInv
  <2>2. Typed
    BY <1>1, <1>2, <1>3, <2>1, SameIsTyped DEF HealthInv, Typed, Pcs
  <2>3. owed # Never => ~PermitGone
    BY <1>1 DEF HealthInv, OwedInv
  <2> QED
    BY <1>1, <1>3, <2>1, <2>2, <2>3, OwedGoesOn DEF Attempting
<1>4. CASE /\ positive' \in {positive, FALSE}
           /\ em' = BlockEmission(em, Scores, positive') /\ LoopDefers
  <2>1. positive' \in BOOLEAN
    BY <1>4, SameIsTyped DEF HealthInv
  <2>2. /\ em' \in EmRecords /\ em'.since = Never
        /\ em'.snapBlock = em.snapBlock /\ em'.note = em.note
    BY <1>4, <2>1, SameIsTyped, BlockKeeps DEF HealthInv, Blocks
  <2>3. Typed
    BY <1>1, <1>2, <2>1, <2>2, SameIsTyped DEF HealthInv, Typed, Pcs
  <2> QED
    BY <1>1, <1>4, <2>2, <2>3, DeferralKeeps
<1> QED
  BY <1>3, <1>4 DEF Resync

\* An attempt is made only where the permit stands.
LEMMA AttemptingIsPermitted ==
    ASSUME HealthInv, owed # Never, pc \in Attempting
    PROVE  ~PermitGone
BY DEF HealthInv, OwedInv

LEMMA ReadScoresKeeps ==
    ASSUME HealthAssumption, HealthInv, ReadScores
    PROVE  HealthInv'
<1>1. /\ fence' = fence /\ meta' = meta /\ open' = open /\ pc = "weights" /\ LoopOnly
  BY DEF ReadScores
<1>2. CASE /\ positive' = positive /\ em' = BlockEmission(em, Scores, positive)
           /\ AttemptEnds /\ LoopDefers
  <2>1. /\ em' \in EmRecords /\ em'.since = Never
        /\ em'.snapBlock = em.snapBlock /\ em'.note = em.note
    BY <1>2, SameIsTyped, BlockKeeps DEF HealthInv, Blocks
  <2>2. Typed
    BY <1>1, <1>2, <2>1, SameIsTyped DEF HealthInv, Typed, Pcs, AttemptEnds
  <2> QED
    BY <1>1, <1>2, <2>1, <2>2, DeferralKeeps
<1>3. CASE /\ positive' = FALSE /\ em' = Defer(ClearBlock(em), FALSE)
           /\ AttemptEnds /\ LoopDefers
  <2>1. PICK c : c = ClearBlock(em)
    OBVIOUS
  <2>2. c \in EmRecords /\ c.snapBlock = em.snapBlock /\ c.note = em.note
    BY <2>1, SameIsTyped, ClearKeeps DEF HealthInv
  <2>3. /\ em' \in EmRecords /\ em'.since = Never
        /\ em'.snapBlock = em.snapBlock /\ em'.note = em.note
    BY <1>3, <2>1, <2>2, DeferKeeps
  <2>4. Typed
    BY <1>1, <1>3, <2>3, SameIsTyped DEF HealthInv, Typed, Pcs, AttemptEnds
  <2> QED
    BY <1>1, <1>3, <2>3, <2>4, DeferralKeeps
<1>4. ASSUME NEW read, read = ScoresRestored(em), positive' \in BOOLEAN,
             em' = [read EXCEPT !.mode = ObservedMode(read, positive')],
             pc' = "ready", last' = last, LoopGoesOn
      PROVE  HealthInv'
  <2>1. /\ read \in EmRecords /\ read.since = em.since
        /\ read.note = em.note /\ read.chainDue = em.chainDue
        /\ read.snapBlock = em.snapBlock /\ read.snapPermit = em.snapPermit
    BY <1>4, SameIsTyped, ClearKeeps DEF HealthInv
  <2>2. PICK mode \in Modes : mode = ObservedMode(read, positive')
    BY <1>4, <2>1, ObservedIsMode
  <2>3. em' = [read EXCEPT !.mode = mode]
    BY <1>4, <2>2
  <2>4. /\ em' \in EmRecords /\ em'.mode = mode /\ em'.block = read.block
        /\ em'.since = read.since /\ em'.note = read.note /\ em'.chainDue = read.chainDue
        /\ em'.snapBlock = read.snapBlock /\ em'.snapPermit = read.snapPermit
    BY <2>1, <2>3 DEF EmRecords
  <2>5. em'.mode = ObservedMode(em', positive')
    BY <2>2, <2>4 DEF ObservedMode
  <2>6. Typed
    BY <1>1, <1>4, <2>1, <2>4, SameIsTyped DEF HealthInv, Typed, Pcs, Attempting
  <2>7. owed # Never => ~PermitGone /\ ~PermitGone'
    BY <1>1, <2>1, <2>4, AttemptingIsPermitted DEF PermitGone, Attempting
  <2> QED
    BY <1>1, <1>4, <2>1, <2>4, <2>5, <2>6, <2>7, OwedGoesOn DEF Attempting
<1> QED
  BY <1>2, <1>3, <1>4 DEF ReadScores

LEMMA ReadyKeeps ==
    ASSUME HealthAssumption, HealthInv, Ready
    PROVE  HealthInv'
<1>1. /\ positive' = positive /\ meta' = meta /\ open' = open /\ pc = "ready" /\ LoopOnly
      /\ fence' = IF fence = Never THEN head + FENCE ELSE fence
  BY DEF Ready
<1>2. fence' \in Nat \union {Never}
  BY <1>1, SameIsTyped, HealthAssumption DEF HealthInv, HealthAssumption
<1>3. CASE em' = Defer(em, positive) /\ AttemptEnds /\ LoopDefers
  <2>1. /\ em' \in EmRecords /\ em'.since = Never
        /\ em'.snapBlock = em.snapBlock /\ em'.note = em.note
    BY <1>3, SameIsTyped, DeferKeeps DEF HealthInv
  <2>2. Typed
    BY <1>1, <1>2, <1>3, <2>1, SameIsTyped DEF HealthInv, Typed, Pcs, AttemptEnds
  <2> QED
    BY <1>1, <1>3, <2>1, <2>2, DeferralKeeps
<1>4. CASE em' = em /\ last' = last /\ pc' = "planning" /\ LoopGoesOn
  <2>1. Typed
    BY <1>1, <1>2, <1>4, SameIsTyped DEF HealthInv, Typed, Pcs, Attempting
  <2>2. owed # Never => fence' = fence /\ ~PermitGone /\ ~PermitGone'
    BY <1>1, <1>4, AttemptingIsPermitted DEF PermitGone, Attempting, HealthInv, OwedInv, Owed
  <2> QED
    BY <1>1, <1>4, <2>1, <2>2, OwedGoesOn DEF Attempting
<1> QED
  BY <1>3, <1>4 DEF Ready

\* A plan is made at the head, which no block it knows is past.
LEMMA HeadIsNoted ==
    ASSUME HealthInv, NEW f, f = NoteHead(em, head)
    PROVE  /\ f \in EmRecords /\ f.note = head
           /\ f.mode = em.mode /\ f.since = em.since /\ f.chainDue = em.chainDue
           /\ f.block = em.block /\ f.underlying = em.underlying
           /\ f.snapBlock = em.snapBlock /\ f.snapPermit = em.snapPermit
<1>1. /\ f \in EmRecords /\ f.note = Larger(head, em.note)
      /\ f.mode = em.mode /\ f.since = em.since /\ f.chainDue = em.chainDue
      /\ f.block = em.block /\ f.underlying = em.underlying
      /\ f.snapBlock = em.snapBlock /\ f.snapPermit = em.snapPermit
  BY SameIsTyped, NoteKeeps DEF HealthInv
<1>2. em.note <= head /\ em.note \in Int /\ head \in Nat
  <2>1. head \in Nat /\ EmTypes
    BY DEF HealthInv, HealthTypes
  <2> QED
    BY <2>1 DEF EmTypes, Past
<1>3. Larger(head, em.note) = head
  BY <1>2 DEF Larger
<1> QED
  BY <1>1, <1>3

LEMMA PlanRefusedKeeps ==
    ASSUME HealthAssumption, HealthInv, PlanRefused
    PROVE  HealthInv'
<1>1. /\ positive' = positive /\ meta' = meta /\ open' = open /\ fence' = fence
      /\ AttemptEnds /\ LoopDefers /\ LoopOnly
      /\ em' = BlockEmission(NoteHead(em, head), Refused, positive)
  BY DEF PlanRefused
<1>2. PICK noted : noted = NoteHead(em, head)
  OBVIOUS
<1>3. noted \in EmRecords /\ noted.snapBlock = em.snapBlock /\ noted.note = head
  BY <1>2, HeadIsNoted
<1>4. /\ em' \in EmRecords /\ em'.since = Never
      /\ em'.snapBlock = em.snapBlock /\ em'.note = head
  <2>1. em' = BlockEmission(noted, Refused, positive) /\ Refused \in Blocks
    BY <1>1, <1>2 DEF Blocks
  <2>2. positive \in BOOLEAN
    BY SameIsTyped DEF HealthInv
  <2> QED
    BY <1>3, <2>1, <2>2, BlockKeeps
<1>5. Typed
  BY <1>1, <1>4, SameIsTyped DEF HealthInv, Typed, Pcs, AttemptEnds
<1> QED
  BY <1>1, <1>4, <1>5, DeferralKeeps

LEMMA PlanMadeKeeps ==
    ASSUME HealthAssumption, HealthInv, PlanMade
    PROVE  HealthInv'
<1>1. /\ positive' = positive /\ meta' = meta /\ open' = open /\ fence' = fence
      /\ pc = "planning" /\ LoopOnly
  BY DEF PlanMade
<1>2. PICK permit, wait, made :
        /\ permit \in BOOLEAN /\ wait \in RateWaits \union {0}
        /\ made = [ClearBlock(NoteHead(em, head)) EXCEPT
                     !.chainDue = head + wait, !.snapPermit = permit, !.snapBlock = head]
        /\ \/ permit /\ wait = 0 /\ em' = made /\ last' = last /\ pc' = "emitting" /\ LoopGoesOn
           \/ em' = Defer(made, positive) /\ AttemptEnds /\ LoopDefers
  BY DEF PlanMade
<1>3. PICK noted : noted = NoteHead(em, head)
  OBVIOUS
<1>4. PICK cleared : cleared = ClearBlock(noted)
  OBVIOUS
<1>5. /\ noted \in EmRecords /\ noted.note = head
      /\ noted.mode = em.mode /\ noted.since = em.since
  BY <1>3, HeadIsNoted
<1>6. /\ cleared \in EmRecords /\ cleared.note = head
      /\ cleared.mode = em.mode /\ cleared.since = em.since
  BY <1>4, <1>5, ClearKeeps
<1>7. PICK due \in Nat : due = head + wait /\ (wait = 0 => due = head)
  <2>1. head \in Nat /\ wait \in Nat
    BY <1>2, SameIsTyped, HealthAssumption DEF HealthInv, HealthAssumption
  <2> QED
    BY <2>1
<1>8. made = [mode |-> em.mode, since |-> em.since, block |-> cleared.block,
              underlying |-> cleared.underlying, chainDue |-> due, snapBlock |-> head,
              snapPermit |-> permit, note |-> head]
  <2>1. made = [cleared EXCEPT !.chainDue = due, !.snapPermit = permit, !.snapBlock = head]
    BY <1>2, <1>3, <1>4, <1>7
  <2> QED
    BY <1>6, <2>1 DEF EmRecords
<1>9. /\ made \in EmRecords /\ made.note = head /\ made.snapBlock = head
      /\ made.since = em.since /\ made.mode = em.mode
      /\ made.chainDue = due /\ made.snapPermit = permit
  <2>1. /\ em.mode \in Modes /\ em.since \in Int /\ head \in Nat
        /\ cleared.block \in Blocks /\ cleared.underlying \in Blocks
    BY <1>6, SameIsTyped DEF HealthInv, EmRecords
  <2>2. permit \in BOOLEAN /\ due \in Nat
    BY <1>2, <1>7
  <2>3. made \in EmRecords
    BY <1>8, <2>1, <2>2 DEF EmRecords
  <2> QED
    BY <1>8, <2>3
<1>10. CASE permit /\ wait = 0 /\ em' = made /\ last' = last /\ pc' = "emitting" /\ LoopGoesOn
  <2>1. Typed
    BY <1>1, <1>9, <1>10, SameIsTyped DEF HealthInv, Typed, Pcs, Attempting
  <2>2. ~PermitGone'
    BY <1>1, <1>9, <1>10, SameIsTyped DEF HealthInv, PermitGone, Larger
  <2>3. owed # Never => ~PermitGone
    BY <1>1, AttemptingIsPermitted DEF Attempting
  <2> QED
    BY <1>1, <1>7, <1>9, <1>10, <2>1, <2>2, <2>3, OwedGoesOn DEF Attempting
<1>11. CASE em' = Defer(made, positive) /\ AttemptEnds /\ LoopDefers
  <2>1. /\ em' \in EmRecords /\ em'.since = Never
        /\ em'.snapBlock = head /\ em'.note = head
    BY <1>9, <1>11, SameIsTyped, DeferKeeps DEF HealthInv
  <2>2. Typed
    BY <1>1, <1>11, <2>1, SameIsTyped DEF HealthInv, Typed, Pcs, AttemptEnds
  <2> QED
    BY <1>1, <1>11, <2>1, <2>2, DeferralKeeps
<1> QED
  BY <1>2, <1>10, <1>11

\* The fields after a step that only observes the mode.
LEMMA ObservedKeeps ==
    ASSUME HealthAssumption, HealthInv,
           em' = [em EXCEPT !.mode = ObservedMode(em, positive)], positive' = positive
    PROVE  /\ em' \in EmRecords /\ em'.mode = ObservedMode(em', positive')
           /\ em'.since = em.since /\ em'.note = em.note /\ em'.chainDue = em.chainDue
           /\ em'.snapBlock = em.snapBlock /\ em'.snapPermit = em.snapPermit
<1>1. PICK mode \in Modes : mode = ObservedMode(em, positive)
  BY SameIsTyped, ObservedIsMode DEF HealthInv
<1>2. em' = [em EXCEPT !.mode = mode] /\ em \in EmRecords
  BY <1>1, SameIsTyped DEF HealthInv
<1>3. /\ em' \in EmRecords /\ em'.mode = mode /\ em'.block = em.block
      /\ em'.since = em.since /\ em'.note = em.note /\ em'.chainDue = em.chainDue
      /\ em'.snapBlock = em.snapBlock /\ em'.snapPermit = em.snapPermit
  BY <1>2 DEF EmRecords
<1>4. ObservedMode(em', positive') = ObservedMode(em, positive)
  BY <1>3 DEF ObservedMode
<1> QED
  BY <1>1, <1>3, <1>4

LEMMA EmitFailsKeeps ==
    ASSUME HealthAssumption, HealthInv, EmitFails
    PROVE  HealthInv'
<1>1. /\ positive' = positive /\ meta' = meta /\ open' = open /\ fence' = fence
      /\ pc = "emitting" /\ AttemptEnds /\ LoopGoesOn /\ LoopOnly
      /\ em' = [em EXCEPT !.mode = ObservedMode(em, positive)]
  BY DEF EmitFails
<1>2. /\ em' \in EmRecords /\ em'.mode = ObservedMode(em', positive')
      /\ em'.since = em.since /\ em'.note = em.note /\ em'.chainDue = em.chainDue
      /\ em'.snapBlock = em.snapBlock /\ em'.snapPermit = em.snapPermit
  BY <1>1, ObservedKeeps
<1>3. Typed
  BY <1>1, <1>2, SameIsTyped DEF HealthInv, Typed, Pcs, AttemptEnds
<1>4. owed # Never => ~PermitGone
  BY <1>1, AttemptingIsPermitted DEF Attempting
<1> QED
  BY <1>1, <1>2, <1>3, <1>4, OwedGoesOn DEF Attempting, AttemptEnds

LEMMA PrepareRowKeeps ==
    ASSUME HealthAssumption, HealthInv, PrepareRow
    PROVE  HealthInv'
<1>1. /\ positive' = positive /\ meta' = meta /\ open' = TRUE /\ fence' = fence /\ last' = last
      /\ pc' = "sending" /\ owed' = Never /\ waited' = waited /\ LoopOnly
      /\ em' = [em EXCEPT !.mode = ObservedMode(em, positive)]
  BY DEF PrepareRow
<1>2. /\ em' \in EmRecords /\ em'.since = em.since /\ em'.note = em.note
      /\ em'.snapBlock = em.snapBlock
  BY <1>1, ObservedKeeps
<1>3. Typed
  BY <1>1, <1>2, SameIsTyped DEF HealthInv, Typed, Pcs
<1>4. HealthTypes'
  BY <1>1, <1>2, <1>3, TypesGoOn
<1> QED
  BY <1>1, <1>2, <1>4 DEF HealthInv, StartedAfter, OwedInv

LEMMA OutcomeKeeps ==
    ASSUME HealthAssumption, HealthInv, Outcome
    PROVE  HealthInv'
<1>1. /\ positive' = positive /\ meta' = meta /\ fence' = fence
      /\ pc = "sending" /\ AttemptEnds /\ LoopOnly
  BY DEF Outcome
<1>2. CASE em' = Defer(em, positive) /\ open' = open /\ LoopDefers
  <2>1. /\ em' \in EmRecords /\ em'.since = Never
        /\ em'.snapBlock = em.snapBlock /\ em'.note = em.note
    BY <1>2, SameIsTyped, DeferKeeps DEF HealthInv
  <2>2. Typed
    BY <1>1, <1>2, <2>1, SameIsTyped DEF HealthInv, Typed, Pcs, AttemptEnds
  <2> QED
    BY <1>1, <1>2, <2>1, <2>2, DeferralKeeps
<1>3. CASE /\ em' = [em EXCEPT !.mode = ObservedMode(em, positive)]
           /\ open' \in BOOLEAN /\ LoopGoesOn
  <2>1. /\ em' \in EmRecords /\ em'.since = em.since /\ em'.note = em.note
        /\ em'.mode = ObservedMode(em', positive')
        /\ em'.snapBlock = em.snapBlock
    BY <1>1, <1>3, ObservedKeeps
  <2>2. Typed
    BY <1>1, <1>3, <2>1, SameIsTyped DEF HealthInv, Typed, Pcs, AttemptEnds
  <2>3. owed = Never
    BY <1>1 DEF HealthInv, OwedInv, Owed
  <2> QED
    BY <1>1, <1>3, <2>1, <2>2, <2>3, OwedGoesOn
<1> QED
  BY <1>2, <1>3 DEF Outcome

LEMMA NewBlockKeeps ==
    ASSUME HealthAssumption, HealthInv, NewBlock
    PROVE  HealthInv'
<1>1. /\ head' = head + 1 /\ answer' = None /\ meta' = meta /\ positive' = positive
      /\ em' = em /\ last' = last /\ fence' = fence /\ open' = open /\ pc' = pc
      /\ checked' = checked /\ reader' = reader /\ owed' = owed /\ waited' = waited
  BY DEF NewBlock, Quiet, fields
<1>2. ASSUME NEW b, Past(b)
      PROVE  b \in Int /\ Never <= b /\ b <= head'
  BY <1>1, <1>2, SameIsTyped DEF HealthInv, Past
<1>3. EmTypes'
  BY <1>1, <1>2 DEF HealthInv, HealthTypes, EmTypes, Past
<1>4. ReaderTypes'
  <2>1. reader' \in [Readers -> ReaderRecords]
    BY <1>1 DEF HealthInv, HealthTypes, ReaderTypes
  <2>2. ASSUME NEW r \in Readers
        PROVE  /\ reader'[r].begun <= head' /\ reader'[r].block <= meta'.block
               /\ reader'[r].pc # "idle" => head' <= reader'[r].begun + RESPONSE
    <3>1. /\ head \in Nat /\ reader[r].begun \in Nat /\ reader[r].begun <= head
          /\ reader[r].block <= meta.block
      BY ReadersAreTyped, SameIsTyped DEF HealthInv
    <3>2. reader[r].pc # "idle" => head < reader[r].begun + RESPONSE
      BY DEF NewBlock
    <3> QED
      BY <1>1, <3>1, <3>2, HealthAssumption DEF HealthAssumption
  <2> QED
    BY <2>1, <2>2 DEF ReaderTypes
<1>5. head' <= checked' + PASS
  <2>1. head < checked + PASS /\ head \in Nat /\ checked \in Int
    BY DEF NewBlock, HealthInv, HealthTypes, Past
  <2> QED
    BY <1>1, <2>1, HealthAssumption DEF HealthAssumption
<1>6. HealthTypes'
  <2>1. /\ head' \in Nat /\ meta' \in [block : Nat, permit : BOOLEAN] /\ meta'.block <= head'
        /\ waited' \in Nat /\ waited' <= head'
    <3>1. meta.block \in Nat /\ meta.block <= head /\ waited \in Nat /\ waited <= head
      BY SameIsTyped DEF HealthInv, HealthTypes
    <3> QED
      BY <1>1, <3>1, SameIsTyped DEF HealthInv
  <2>2. Past(last)' /\ Past(checked)' /\ Past(owed)'
    BY <1>1, <1>2 DEF HealthInv, HealthTypes, Past
  <2> QED
    BY <1>1, <1>3, <1>4, <1>5, <2>1, <2>2 DEF HealthInv, HealthTypes
<1>7. StartedAfter'
  BY <1>1 DEF HealthInv, StartedAfter
<1>8. OwedInv'
  <2>1. /\ Owed' = Owed /\ FreshReaders' = FreshReaders /\ PermitGone' = PermitGone
        /\ StoppedEarly' = StoppedEarly
    BY <1>1 DEF Owed, FreshReaders, PermitGone, StoppedEarly, Clear, ObservedMode
  <2> QED
    BY <1>1, <2>1 DEF HealthInv, OwedInv
<1> QED
  BY <1>6, <1>7, <1>8 DEF HealthInv

\* A response that reads on learns what is the case now.
LEMMA ReadsKeep ==
    ASSUME HealthAssumption, HealthInv, NEW r \in Readers, Ask(r) \/ ReadSummary(r)
    PROVE  HealthInv'
<1>1. /\ head' = head /\ answer' = None /\ meta' = meta /\ positive' = positive
      /\ em' = em /\ last' = last /\ fence' = fence /\ open' = open /\ pc' = pc
      /\ checked' = checked /\ owed' = owed /\ waited' = waited
  BY DEF Ask, ReadSummary, Quiet, fields
<1>2. PICK now \in ReaderRecords :
        /\ reader' = [reader EXCEPT ![r] = now]
        /\ now.pc # "idle" /\ now.begun <= head /\ now.block <= meta.block
        /\ head <= now.begun + RESPONSE
        /\ \/ now.begun = head /\ now.block = meta.block /\ now.pc = "asked"
           \/ /\ now.begun = reader[r].begun /\ now.block = reader[r].block
              /\ reader[r].pc # "idle" /\ now.open = open /\ now.fence = fence
  <2>1. CASE Ask(r)
    <3> DEFINE none == NotReading
    <3>1. none \in ReaderRecords /\ none.fence = Never
      BY DEF NotReading, ReaderRecords
    <3> HIDE DEF none
    <3>2. PICK now : now = [none EXCEPT !.pc = "asked", !.begun = head, !.block = meta.block]
      OBVIOUS
    <3>3. now = [pc |-> "asked", begun |-> head, block |-> meta.block,
                 open |-> none.open, fence |-> none.fence]
      BY <3>1, <3>2 DEF ReaderRecords
    <3>4. reader' = [reader EXCEPT ![r] = now]
      BY <2>1, <3>2 DEF Ask, none
    <3>5. now \in ReaderRecords /\ head <= now.begun + RESPONSE
      <4>1. head \in Nat /\ meta.block \in Nat
        BY SameIsTyped DEF HealthInv
      <4>2. now \in ReaderRecords
        BY <3>1, <3>3, <4>1 DEF ReaderRecords
      <4>3. head <= head + RESPONSE
        BY <4>1, HealthAssumption DEF HealthAssumption
      <4> QED
        BY <3>3, <4>2, <4>3
    <3>6. now.begun <= head /\ now.block <= meta.block
      <4>1. head \in Nat /\ meta.block \in Nat
        BY SameIsTyped DEF HealthInv
      <4> QED
        BY <3>3, <4>1
    <3> QED
      BY <3>3, <3>4, <3>5, <3>6
  <2>2. CASE ReadSummary(r)
    <3>1. reader \in [Readers -> ReaderRecords]
      BY DEF HealthInv, HealthTypes, ReaderTypes
    <3>2. PICK asked \in ReaderRecords : asked = reader[r]
      BY <3>1
    <3>3. PICK now : now = [asked EXCEPT !.pc = "read", !.open = open, !.fence = fence]
      OBVIOUS
    <3>4. now = [pc |-> "read", begun |-> asked.begun, block |-> asked.block,
                 open |-> open, fence |-> fence]
      BY <3>3 DEF ReaderRecords
    <3>5. reader' = [reader EXCEPT ![r] = now]
      BY <2>2, <3>2, <3>3 DEF ReadSummary
    <3>6. reader[r].pc # "idle"
      BY <2>2 DEF ReadSummary
    <3>7. now \in ReaderRecords
      BY <3>2, <3>4, SameIsTyped DEF HealthInv, ReaderRecords
    <3> QED
      BY <3>2, <3>4, <3>5, <3>6, <3>7, ReadersAreTyped DEF HealthInv
  <2> QED
    BY <2>1, <2>2
<1>3. /\ reader \in [Readers -> ReaderRecords] /\ reader' \in [Readers -> ReaderRecords]
      /\ reader'[r] = now /\ \A q \in Readers : q # r => reader'[q] = reader[q]
  BY <1>2 DEF HealthInv, HealthTypes, ReaderTypes
<1>4. ReaderTypes'
  <2>1. ASSUME NEW q \in Readers
        PROVE  /\ reader'[q].begun <= head' /\ reader'[q].block <= meta'.block
               /\ reader'[q].pc # "idle" => head' <= reader'[q].begun + RESPONSE
    BY <1>1, <1>2, <1>3, ReadersAreTyped DEF HealthInv
  <2> QED
    BY <1>3, <2>1 DEF ReaderTypes
<1>5. HealthTypes'
  BY <1>1, <1>4 DEF HealthInv, HealthTypes, EmTypes, Past
<1>6. StartedAfter'
  BY <1>1 DEF HealthInv, StartedAfter
<1>7. ASSUME owed # Never
      PROVE  FreshReaders'
  <2>1. Clear(meta.block) /\ FreshReaders /\ ~open
    BY <1>7 DEF HealthInv, OwedInv, Owed
  <2>2. ASSUME NEW q \in Readers, reader'[q].pc # "idle", reader'[q].begun > owed'
        PROVE  /\ Clear(reader'[q].block)
               /\ reader'[q].pc = "read" => ~reader'[q].open /\ reader'[q].fence = fence
    BY <1>1, <1>2, <1>3, <2>1, <2>2 DEF FreshReaders
  <2>3. \A b : Clear(b)' = Clear(b)
    BY <1>1 DEF Clear
  <2> QED
    BY <1>1, <2>2, <2>3 DEF FreshReaders, Clear
<1>8. OwedInv'
  <2>1. /\ Owed' = Owed /\ PermitGone' = PermitGone /\ StoppedEarly' = StoppedEarly
    BY <1>1 DEF Owed, PermitGone, StoppedEarly, Clear, ObservedMode
  <2> QED
    BY <1>1, <1>7, <2>1 DEF HealthInv, OwedInv
<1> QED
  BY <1>5, <1>6, <1>8 DEF HealthInv

\* With something else to wait for than its pacing, a vote waits whatever its clock.
LEMMA NothingDueWaits ==
    ASSUME HealthInv, NEW e, NEW mode, NEW block, NEW since,
           Waits(e, mode, block, open, fence, head)
    PROVE  Waits(e, mode, block, open, fence, since)
<1>1. head # Never
  BY SameIsTyped DEF HealthInv, Never
<1> QED
  BY <1>1 DEF Waits

\* The clock after a check, judged at the newest block the loop knows.
LEMMA CheckKeeps ==
    ASSUME HealthAssumption, HealthInv, Check
    PROVE  HealthInv'
<1>1. PICK ready \in BOOLEAN :
        LET due == ready /\ Paced
            noted == IF due THEN NoteHead(em, head) ELSE em
        IN /\ em' = RefreshHealth(noted, meta.block, open, fence)
           /\ last' = IF ready /\ last = Never THEN head ELSE last
           /\ pc' = IF SyncDue THEN "resync" ELSE IF due THEN "weights" ELSE "idle"
           /\ owed' = IF NothingDue(noted, owed) \/ (~ready /\ em'.since = Never) THEN Never
                      ELSE IF owed = Never THEN head ELSE owed
           /\ waited' = IF NothingDue(noted, head) THEN head ELSE waited
  BY DEF Check
<1>2. PICK due : due = (ready /\ Paced)
  OBVIOUS
<1>3. PICK noted : noted = IF due THEN NoteHead(em, head) ELSE em
  OBVIOUS
<1>4. /\ due = (ready /\ Paced)
      /\ noted = IF due THEN NoteHead(em, head) ELSE em
      /\ em' = RefreshHealth(noted, meta.block, open, fence)
      /\ last' = IF ready /\ last = Never THEN head ELSE last
      /\ pc' = IF SyncDue THEN "resync" ELSE IF due THEN "weights" ELSE "idle"
      /\ owed' = IF NothingDue(noted, owed) \/ (~ready /\ em'.since = Never) THEN Never
                 ELSE IF owed = Never THEN head ELSE owed
      /\ waited' = IF NothingDue(noted, head) THEN head ELSE waited
  BY <1>1, <1>2, <1>3
<1>5. /\ pc = "idle" /\ checked' = head /\ answer' = None /\ head' = head /\ meta' = meta
      /\ positive' = positive /\ fence' = fence /\ open' = open /\ reader' = reader
  BY DEF Check, Quiet
<1>6. /\ head \in Nat /\ meta.block \in Nat /\ meta.block <= head /\ positive \in BOOLEAN
      /\ last \in Int /\ last <= head /\ checked \in Int /\ head <= checked + PASS
      /\ owed \in Int /\ owed <= head /\ waited \in Nat /\ waited <= head
      /\ fence \in Int
      /\ em.since \in Int /\ em.since <= head /\ Never <= em.since
      /\ em.note \in Int /\ em.note <= head /\ em.snapBlock \in Int /\ em.chainDue \in Int
  <2>1. EmTypes /\ Past(last) /\ Past(checked) /\ Past(owed) /\ head <= checked + PASS
        /\ waited \in Nat /\ waited <= head
    BY DEF HealthInv, HealthTypes
  <2>2. /\ em.since \in Int /\ em.since <= head /\ Never <= em.since
        /\ em.note \in Int /\ em.note <= head /\ em.snapBlock \in Int /\ em.chainDue \in Int
    BY <2>1 DEF EmTypes, EmRecords, Past
  <2>3. fence \in Int
    BY SameIsTyped DEF HealthInv, Never
  <2> QED
    BY <2>1, <2>2, <2>3, SameIsTyped DEF HealthInv, Past
<1>7. /\ noted \in EmRecords /\ noted.note = IF due THEN head ELSE em.note
      /\ noted.mode = em.mode /\ noted.since = em.since /\ noted.block = em.block
      /\ noted.chainDue = em.chainDue
      /\ noted.snapBlock = em.snapBlock /\ noted.snapPermit = em.snapPermit
  <2>1. CASE due
    <3>1. noted = NoteHead(em, head)
      BY <1>4, <2>1
    <3> QED
      BY <2>1, <3>1, HeadIsNoted
  <2>2. CASE ~due
    BY <1>4, <2>2, SameIsTyped DEF HealthInv
  <2> QED
    BY <2>1, <2>2
<1>8. PICK mode, since, block :
        /\ mode = ObservedMode(noted, positive)
        /\ since = (IF mode = noted.mode THEN noted.since ELSE Never)
        /\ block = Larger(meta.block, noted.note)
  OBVIOUS
<1>9. JudgedAt(noted, meta.block) = block
  BY <1>8 DEF JudgedAt
<1>10. /\ em' \in EmRecords /\ em'.mode = mode /\ em'.block = em.block
       /\ em'.chainDue = em.chainDue /\ em'.note = noted.note
       /\ em'.snapBlock = em.snapBlock /\ em'.snapPermit = em.snapPermit
       /\ em'.since = IF Waits(noted, mode, block, open, fence, since) THEN Never
                      ELSE IF since = Never THEN head ELSE since
  BY <1>4, <1>6, <1>7, <1>8, <1>9, RefreshKeeps
<1>11. /\ block \in Int /\ noted.note \in Int /\ noted.note <= head /\ em.note <= noted.note
       /\ block >= noted.note /\ block >= meta.block /\ block >= Larger(meta.block, em.note)
       /\ due => block = head
  BY <1>6, <1>7, <1>8 DEF Larger
<1>12. since = Never \/ since = em.since
  BY <1>7, <1>8
<1>13. \A s : NothingDue(noted, s) = Waits(noted, mode, block, open, fence, s)
  BY <1>8 DEF NothingDue
<1>14. Never \in Int
  BY DEF Never
<1>15. HealthTypes'
  <2>1. EmTypes'
    <3>1. em'.since \in Int /\ Never <= em'.since /\ em'.since <= head
      BY <1>6, <1>10, <1>12 DEF Never
    <3>2. Past(em.snapBlock) /\ Past(em.note)
      BY DEF HealthInv, HealthTypes, EmTypes
    <3> QED
      BY <1>5, <1>6, <1>7, <1>10, <3>1, <3>2 DEF EmTypes, Past, Never
  <2>2. ReaderTypes'
    BY <1>5 DEF HealthInv, HealthTypes, ReaderTypes
  <2>3. Past(last)' /\ Past(checked)' /\ Past(owed)'
    <3>1. Past(last) /\ Past(owed)
      BY DEF HealthInv, HealthTypes
    <3> QED
      BY <1>4, <1>5, <1>6, <3>1 DEF Past, Never
  <2>4. head' <= checked' + PASS
    BY <1>5, <1>6, HealthAssumption DEF HealthAssumption
  <2>5. waited' \in Nat /\ waited' <= head'
    BY <1>4, <1>5, <1>6
  <2>6. pc' \in Pcs /\ answer' \in {None, "in time", "overdue"}
    BY <1>4, <1>5 DEF Pcs, Attempting
  <2> QED
    BY <1>5, <1>6, <2>1, <2>2, <2>3, <2>4, <2>5, <2>6, SameIsTyped DEF HealthInv, HealthTypes
<1>16. StartedAfter'
  <2>1. ASSUME em'.since # Never
        PROVE  waited' <= em'.since
    <3>1. ~Waits(noted, mode, block, open, fence, since)
      BY <1>10, <2>1
    <3>2. waited' = waited
      BY <1>4, <1>13, <3>1, NothingDueWaits
    <3>3. CASE since = Never
      BY <1>6, <1>10, <3>1, <3>2, <3>3
    <3>4. CASE since # Never
      BY <1>10, <1>12, <3>1, <3>2, <3>4 DEF HealthInv, StartedAfter
    <3> QED
      BY <3>3, <3>4
  <2> QED
    BY <2>1 DEF StartedAfter
<1>17. ASSUME owed' # Never
       PROVE  OwedInv'
  <2>1. /\ ~Waits(noted, mode, block, open, fence, owed)
        /\ ready \/ em'.since # Never
        /\ owed' = IF owed = Never THEN head ELSE owed
    BY <1>4, <1>13, <1>17
  <2>2. /\ mode # "abstain" /\ ~open /\ fence # Never /\ block > fence
        /\ block >= em.chainDue /\ last # Never
        /\ em.snapBlock >= block => em.snapPermit
        /\ em.snapBlock < block => meta.permit
        /\ owed = Never => block >= last + EPOCH + 1
    <3>1. fence # Never /\ ~(block <= fence) /\ ~(block < noted.chainDue)
          /\ mode # "abstain" /\ ~open /\ last # Never
          /\ Permitted(noted, block)
          /\ ~(block < last + EPOCH + 1 /\ owed = Never)
      BY <2>1 DEF Waits
    <3> QED
      <4>1. EPOCH \in Nat
        BY HealthAssumption DEF HealthAssumption
      <4>2. block \in Int /\ fence \in Int /\ em.chainDue \in Int /\ last \in Int
            /\ em.snapBlock \in Int
        BY <1>6, <1>11
      <4>3. /\ block > fence /\ block >= em.chainDue
            /\ owed = Never => block >= last + EPOCH + 1
        BY <1>7, <3>1, <4>1, <4>2
      <4>4. /\ em.snapBlock >= block => em.snapPermit
            /\ ~(em.snapBlock >= block) => meta.permit
        BY <1>7, <3>1 DEF Permitted
      <4>5. em.snapBlock < block => ~(em.snapBlock >= block)
        BY <4>2
      <4> QED
        BY <3>1, <4>3, <4>4, <4>5
  <2>3. ~PermitGone /\ ~PermitGone'
    <3>1. block \in Int /\ em.snapBlock \in Int /\ Larger(meta.block, em.note) \in Int
          /\ Larger(meta.block, em.note) <= block
      BY <1>6, <1>11 DEF Larger
    <3>2. Larger(meta.block, em.note)' = block
      BY <1>5, <1>8, <1>10 DEF Larger
    <3> QED
      BY <1>5, <1>10, <2>2, <3>1, <3>2 DEF PermitGone
  <2>4. Owed'
    <3>1. ObservedMode(em, positive)' = mode
      BY <1>5, <1>7, <1>8, <1>10 DEF ObservedMode
    <3>2. Clear(meta.block)'
      BY <1>5, <1>8, <1>10, <2>2 DEF Clear
    <3>3. last' # Never /\ pc' # "sending"
      BY <1>4, <2>2
    <3> QED
      BY <1>5, <1>10, <2>2, <3>1, <3>2, <3>3 DEF Owed
  <2>5. FreshReaders'
    <3>1. ASSUME NEW r \in Readers, reader'[r].pc # "idle", reader'[r].begun > owed'
          PROVE  /\ Clear(reader[r].block)'
                 /\ reader'[r].pc = "read" => ~reader'[r].open /\ reader'[r].fence = fence'
      <4>1. /\ reader[r].block \in Int /\ reader[r].begun \in Int /\ reader[r].begun <= head
        BY ReadersAreTyped DEF HealthInv
      <4>2. owed # Never /\ owed' = owed
        BY <1>5, <1>6, <2>1, <3>1, <4>1
      <4>3. /\ Clear(reader[r].block)
            /\ reader[r].pc = "read" => ~reader[r].open /\ reader[r].fence = fence
        BY <1>5, <3>1, <4>2 DEF HealthInv, OwedInv, FreshReaders
      <4>4. PICK b \in Int : b = reader[r].block
        BY <4>1
      <4>5. Larger(b, em.note) \in Int /\ Larger(b, em'.note) \in Int
            /\ Larger(b, em.note) <= Larger(b, em'.note)
        <5>1. em.note \in Int /\ em'.note \in Int /\ em.note <= em'.note
          BY <1>6, <1>10, <1>11
        <5> QED
          BY <5>1 DEF Larger
      <4>6. /\ Larger(b, em'.note) > fence /\ Larger(b, em'.note) >= em'.chainDue
            /\ em'.snapBlock >= Larger(b, em'.note) => em'.snapPermit
        BY <1>6, <1>10, <4>3, <4>4, <4>5 DEF Clear
      <4> QED
        BY <1>5, <4>3, <4>4, <4>6 DEF Clear
    <3> QED
      BY <3>1 DEF FreshReaders
  <2>6. IF em'.since = Never THEN StoppedEarly' ELSE em'.since <= owed' + Slack
    <3>0. Slack \in Nat /\ Slack = RESPONSE + PASS + EPOCH + PASS
          /\ RESPONSE \in Nat /\ PASS \in Nat /\ EPOCH \in Nat
      BY HealthAssumption DEF Slack, HealthAssumption
    <3>1. CASE owed = Never
      <4>1. ~Waits(noted, mode, block, open, fence, since)
        BY <1>6, <1>11, <2>1, <2>2, <3>0, <3>1 DEF Waits
      <4>2. em'.since \in Int /\ em'.since <= head /\ em'.since # Never
        BY <1>6, <1>10, <1>12, <4>1 DEF Never
      <4> QED
        BY <1>6, <2>1, <3>0, <3>1, <4>2
    <3>2. CASE owed # Never
      <4>1. mode = em.mode /\ since = em.since
        <5>1. em.mode = ObservedMode(em, positive)
          BY <3>2 DEF HealthInv, OwedInv, Owed
        <5> QED
          BY <1>7, <1>8, <5>1 DEF ObservedMode
      <4>2. IF em.since = Never THEN StoppedEarly ELSE em.since <= owed + Slack
        BY <2>3, <3>2 DEF HealthInv, OwedInv
      <4>3. Waits(noted, mode, block, open, fence, since)
              => since = Never /\ block < last + EPOCH + 1
        BY <2>1 DEF Waits
      <4>4. CASE since # Never
        BY <1>10, <2>1, <3>2, <4>1, <4>2, <4>3, <4>4
      <4>5. CASE since = Never /\ ~Waits(noted, mode, block, open, fence, since)
        <5>1. em'.since = head /\ StoppedEarly /\ head # Never
          BY <1>6, <1>10, <4>1, <4>2, <4>5 DEF Never
        <5>2. head <= owed + Slack
          BY <1>6, <3>0, <5>1 DEF StoppedEarly
        <5> QED
          BY <2>1, <3>2, <5>1, <5>2
      <4>6. CASE since = Never /\ Waits(noted, mode, block, open, fence, since)
        <5>1. em'.since = Never /\ StoppedEarly /\ ready /\ block < last + EPOCH + 1
          BY <1>10, <2>1, <4>1, <4>2, <4>3, <4>6
        <5>2. ~due /\ head <= last + EPOCH
          <6>1. ASSUME head - last > EPOCH
                PROVE  FALSE
            <7>1. due
              BY <1>4, <2>2, <5>1, <6>1, Zenon DEF Paced
            <7>2. block = head
              BY <1>11, <7>1
            <7>3. head \in Int /\ last \in Int /\ EPOCH \in Int /\ head < last + EPOCH + 1
              BY <1>6, <3>0, <5>1, <7>2
            <7> QED
              BY <6>1, <7>3
          <6>2. ~due
            BY <1>4, <6>1, Zenon DEF Paced
          <6>3. head <= last + EPOCH
            BY <1>6, <3>0, <6>1
          <6> QED
            BY <6>2, <6>3
        <5>3. pc' \notin Attempting /\ last' = last /\ owed' = owed
          BY <1>4, <2>1, <2>2, <3>2, <5>2 DEF Attempting
        <5>4. StoppedEarly'
          BY <1>5, <5>1, <5>2, <5>3 DEF StoppedEarly
        <5> QED
          BY <5>1, <5>4
      <4> QED
        BY <4>4, <4>5, <4>6
    <3> QED
      BY <3>1, <3>2
  <2> QED
    BY <2>3, <2>4, <2>5, <2>6 DEF OwedInv
<1>18. ASSUME owed' = Never
       PROVE  OwedInv'
  BY <1>18 DEF OwedInv
<1> QED
  BY <1>15, <1>16, <1>17, <1>18 DEF HealthInv

\* A response moves the clock by what it read, which may be older than a vote
\* that became due meanwhile; begun later, it stops the clock only for a permit
\* that is lost.
LEMMA AnswerKeeps ==
    ASSUME HealthAssumption, HealthInv, NEW r \in Readers, Answer(r)
    PROVE  HealthInv'
<1>1. /\ head' = head /\ meta' = meta /\ positive' = positive
      /\ last' = last /\ fence' = fence /\ open' = open /\ pc' = pc
      /\ checked' = checked /\ owed' = owed /\ waited' = waited
      /\ answer' \in {None, "in time", "overdue"}
      /\ reader[r].pc = "read" /\ reader' = [reader EXCEPT ![r] = NotReading]
  BY DEF Answer
<1>2. PICK begun, asked, pending, fenced :
        /\ begun = reader[r].begun /\ asked = reader[r].block
        /\ pending = reader[r].open /\ fenced = reader[r].fence
        /\ em' = RefreshHealth(em, asked, pending, fenced)
  BY DEF Answer
<1>3. PICK mode, since, block :
        /\ mode = ObservedMode(em, positive)
        /\ since = (IF mode = em.mode THEN em.since ELSE Never)
        /\ block = JudgedAt(em, asked)
  OBVIOUS
<1>4. /\ em' \in EmRecords /\ em'.mode = mode /\ em'.block = em.block
      /\ em'.chainDue = em.chainDue /\ em'.note = em.note
      /\ em'.snapBlock = em.snapBlock /\ em'.snapPermit = em.snapPermit
      /\ em'.since = IF Waits(em, mode, block, pending, fenced, since) THEN Never
                     ELSE IF since = Never THEN head ELSE since
  BY <1>2, <1>3, SameIsTyped, RefreshKeeps DEF HealthInv
<1>5. /\ head \in Nat /\ em.since \in Int /\ Never <= em.since /\ em.since <= head
      /\ em.note \in Int /\ em.snapBlock \in Int /\ em.chainDue \in Int
      /\ waited \in Nat /\ waited <= head /\ owed \in Int /\ owed <= head
      /\ last \in Int /\ last <= head /\ checked \in Int /\ checked <= head
      /\ head <= checked + PASS
  <2>1. EmTypes /\ Past(last) /\ Past(checked) /\ Past(owed) /\ head <= checked + PASS
        /\ waited \in Nat /\ waited <= head
    BY DEF HealthInv, HealthTypes
  <2>2. /\ em.since \in Int /\ em.since <= head /\ Never <= em.since
        /\ em.note \in Int /\ em.snapBlock \in Int /\ em.chainDue \in Int
    BY <2>1 DEF EmTypes, EmRecords, Past
  <2> QED
    BY <2>1, <2>2, SameIsTyped DEF HealthInv, Past
<1>6. /\ asked \in Nat /\ asked <= meta.block /\ meta.block \in Nat
      /\ begun \in Nat /\ head <= begun + RESPONSE
  BY <1>1, <1>2, ReadersAreTyped, SameIsTyped DEF HealthInv
<1>7. since = Never \/ since = em.since
  BY <1>3
<1>8. block \in Int /\ block = Larger(asked, em.note) /\ block <= Larger(meta.block, em.note)
      /\ Larger(meta.block, em.note) \in Int
  BY <1>3, <1>5, <1>6 DEF JudgedAt, Larger
<1>9. /\ reader' \in [Readers -> ReaderRecords] /\ reader'[r] = NotReading
      /\ \A q \in Readers : q # r => reader'[q] = reader[q]
  <2>1. NotReading \in ReaderRecords
    BY DEF NotReading, ReaderRecords
  <2>2. reader \in [Readers -> ReaderRecords]
    BY DEF HealthInv, HealthTypes, ReaderTypes
  <2> HIDE DEF NotReading
  <2> QED
    BY <1>1, <2>1, <2>2
<1>10. HealthTypes'
  <2>1. EmTypes'
    <3>1. em'.since \in Int /\ Never <= em'.since /\ em'.since <= head
      BY <1>4, <1>5, <1>7 DEF Never
    <3>2. Past(em.snapBlock) /\ Past(em.note)
      BY DEF HealthInv, HealthTypes, EmTypes
    <3> QED
      BY <1>1, <1>4, <3>1, <3>2 DEF EmTypes, Past
  <2>2. ReaderTypes'
    <3>1. NotReading.pc = "idle" /\ NotReading.begun <= head /\ NotReading.block <= meta.block
      BY <1>5, <1>6 DEF NotReading
    <3>2. ASSUME NEW q \in Readers
          PROVE  /\ reader'[q].begun <= head' /\ reader'[q].block <= meta'.block
                 /\ reader'[q].pc # "idle" => head' <= reader'[q].begun + RESPONSE
      BY <1>1, <1>9, <3>1, ReadersAreTyped DEF HealthInv
    <3> QED
      BY <1>9, <3>2 DEF ReaderTypes
  <2> QED
    BY <1>1, <2>1, <2>2 DEF HealthInv, HealthTypes, Past
<1>11. StartedAfter'
  BY <1>1, <1>4, <1>5, <1>7 DEF HealthInv, StartedAfter
<1>12. ASSUME owed # Never
       PROVE  OwedInv'
  <2>1. /\ Owed /\ FreshReaders
        /\ pc \in Attempting \union {"resync"} => ~PermitGone
        /\ \/ PermitGone
           \/ IF em.since = Never THEN StoppedEarly ELSE em.since <= owed + Slack
    BY <1>12 DEF HealthInv, OwedInv
  <2>2. mode = em.mode /\ since = em.since
    BY <1>3, <2>1 DEF Owed
  <2>3. /\ PermitGone' = PermitGone /\ StoppedEarly' = StoppedEarly
        /\ \A b : Clear(b)' = Clear(b)
    BY <1>1, <1>4 DEF PermitGone, StoppedEarly, Clear
  <2>4. Owed'
    <3>1. ObservedMode(em, positive)' = mode
      BY <1>1, <1>3, <1>4 DEF ObservedMode
    <3>2. Clear(meta.block)'
      BY <1>1, <1>4, <2>1 DEF Owed, Clear
    <3> QED
      BY <1>1, <1>3, <1>4, <2>1, <2>2, <3>1, <3>2 DEF Owed
  <2>5. FreshReaders'
    <3>1. NotReading.pc = "idle"
      BY DEF NotReading
    <3>2. ASSUME NEW q \in Readers, reader'[q].pc # "idle", reader'[q].begun > owed'
          PROVE  /\ Clear(reader[q].block) /\ reader'[q] = reader[q]
                 /\ reader'[q].pc = "read" => ~reader'[q].open /\ reader'[q].fence = fence
      BY <1>1, <1>9, <2>1, <3>1, <3>2 DEF FreshReaders
    <3> QED
      BY <1>1, <1>4, <2>3, <3>2 DEF FreshReaders, Clear
  <2>6. PermitGone \/ IF em'.since = Never THEN StoppedEarly ELSE em'.since <= owed + Slack
    <3>0. Slack = RESPONSE + PASS + EPOCH + PASS
          /\ RESPONSE \in Nat /\ PASS \in Nat /\ EPOCH \in Nat
      BY HealthAssumption DEF Slack, HealthAssumption
    <3>1. CASE PermitGone
      BY <3>1
    <3>2. CASE ~PermitGone /\ em.since = Never
      <4>1. StoppedEarly
        BY <2>1, <3>2
      <4>2. head <= owed + Slack
        BY <1>5, <3>0, <4>1 DEF StoppedEarly
      <4>3. em'.since = Never \/ em'.since = head
        BY <1>4, <2>2, <3>2
      <4> QED
        BY <4>1, <4>2, <4>3
    <3>3. CASE ~PermitGone /\ em.since # Never /\ ~Waits(em, mode, block, pending, fenced, since)
      BY <1>4, <2>1, <2>2, <3>3
    <3>4. CASE ~PermitGone /\ em.since # Never /\ Waits(em, mode, block, pending, fenced, since)
      <4>1. em'.since = Never
        BY <1>4, <3>4
      <4>2. CASE begun <= owed
        <5>1. head <= owed + RESPONSE
          BY <1>5, <1>6, <3>0, <4>2
        <5>2. StoppedEarly
          BY <1>5, <3>0, <5>1 DEF StoppedEarly
        <5> QED
          BY <4>1, <5>2
      <4>3. CASE begun > owed
        <5>1. Clear(asked) /\ ~pending /\ fenced = fence
          BY <1>1, <1>2, <2>1, <4>3 DEF FreshReaders
        <5>2. /\ mode # "abstain" /\ fence # Never /\ last # Never
          BY <1>3, <2>1 DEF Owed
        <5>3. block > fence /\ block >= em.chainDue /\ (em.snapBlock >= block => em.snapPermit)
          BY <1>8, <5>1 DEF Clear
        <5>4. fence \in Int
          BY SameIsTyped DEF HealthInv, Never
        <5>5. ~Permitted(em, block)
          BY <1>5, <1>8, <2>2, <3>4, <5>1, <5>2, <5>3, <5>4 DEF Waits
        <5>6. ~meta.permit /\ ~(em.snapBlock >= block)
          BY <5>3, <5>5 DEF Permitted
        <5>7. PermitGone
          BY <1>5, <1>8, <5>6 DEF PermitGone
        <5> QED
          BY <3>4, <5>7
      <4> QED
        BY <1>5, <1>6, <4>2, <4>3
    <3> QED
      BY <3>1, <3>2, <3>3, <3>4
  <2> QED
    BY <1>1, <2>1, <2>3, <2>4, <2>5, <2>6 DEF OwedInv
<1>13. ASSUME owed = Never
       PROVE  OwedInv'
  BY <1>1, <1>13 DEF OwedInv
<1> QED
  BY <1>10, <1>11, <1>12, <1>13 DEF HealthInv

LEMMA InitHolds ==
    ASSUME HealthAssumption, Init
    PROVE  HealthInv
<1>1. /\ head = 0 /\ meta = [block |-> 0, permit |-> TRUE] /\ positive \in BOOLEAN
      /\ last = Never /\ fence \in {Never, 0} /\ open = FALSE /\ pc = "idle" /\ checked = Never
      /\ reader = [r \in Readers |-> NotReading] /\ answer = None
      /\ owed = Never /\ waited = 0
  BY DEF Init
<1>2. PICK fresh :
        /\ fresh = [mode |-> "abstain", since |-> Never, block |-> None, underlying |-> None,
                    chainDue |-> 0, snapBlock |-> Never, snapPermit |-> FALSE, note |-> Never]
        /\ em \in {fresh, BlockEmission(fresh, Scores, positive)}
  BY DEF Init
<1>3. /\ fresh \in EmRecords /\ fresh.since = Never
      /\ fresh.snapBlock = Never /\ fresh.note = Never
  BY <1>2 DEF EmRecords, Modes, Blocks, Never
<1>4. /\ em \in EmRecords /\ em.since = Never /\ em.snapBlock = Never /\ em.note = Never
  <2>1. CASE em = fresh
    BY <1>3, <2>1
  <2>2. CASE em = BlockEmission(fresh, Scores, positive)
    <3>1. Scores \in Blocks
      BY DEF Blocks
    <3> QED
      BY <1>1, <1>3, <2>2, <3>1, BlockKeeps
  <2> QED
    BY <1>2, <2>1, <2>2
<1>5. ReaderTypes
  <2>1. /\ NotReading \in ReaderRecords /\ NotReading.pc = "idle"
        /\ NotReading.begun <= 0 /\ NotReading.block <= 0
    BY DEF NotReading, ReaderRecords
  <2> HIDE DEF NotReading
  <2> QED
    BY <1>1, <2>1 DEF ReaderTypes
<1>6. HealthTypes
  <2>1. /\ head \in Nat /\ meta \in [block : Nat, permit : BOOLEAN] /\ meta.block <= head
        /\ fence \in Nat \union {Never} /\ pc \in Pcs
    BY <1>1 DEF Pcs
  <2>2. Past(Never)
    BY <1>1 DEF Past, Never
  <2>3. EmTypes
    BY <1>4, <2>2 DEF EmTypes
  <2>4. head <= checked + PASS
    BY <1>1, HealthAssumption DEF Never, HealthAssumption
  <2> QED
    BY <1>1, <1>5, <2>1, <2>2, <2>3, <2>4 DEF HealthTypes
<1> QED
  BY <1>1, <1>4, <1>6 DEF HealthInv, StartedAfter, OwedInv

\* A deadline moves no further than the clock it is set by.
LEMMA DeadlineMoves ==
    ASSUME HealthAssumption, NEW a \in Int, NEW b \in Int, NEW k \in Nat, a <= b + k
    PROVE  /\ Deadline(a) \in Int /\ Deadline(b) \in Int
           /\ Deadline(a) <= Deadline(b) + k /\ a <= Deadline(b) + k
BY DEF Deadline, Larger, HealthAssumption

-----------------------------------------------------------------------------
(***************************************************************************)
(* The theorems.                                                           *)
(***************************************************************************)
\* The overdue clock runs only since after the loop last waited, and a vote that
\* is owed either has a clock started within Slack blocks, or one that a response
\* begun earlier stopped and that waits for a pacing, or has lost its permit.
THEOREM HealthInvariant == Spec => []HealthInv
<1>1. Init => HealthInv
  BY HealthAssumption, InitHolds
<1>2. HealthInv /\ [Next]_vars => HealthInv'
  <2> SUFFICES ASSUME HealthInv, [Next]_vars
               PROVE  HealthInv'
    OBVIOUS
  <2>1. CASE NewBlock
    BY <2>1, HealthAssumption, NewBlockKeeps
  <2>2. CASE Loop
    BY <2>2, HealthAssumption, TickKeeps, CheckKeeps, ResyncKeeps, ReconcileKeeps,
       ReadRaisesKeeps, ReadScoresKeeps, ReadyKeeps, PlanRefusedKeeps, PlanMadeKeeps,
       EmitFailsKeeps, PrepareRowKeeps, OutcomeKeeps DEF Loop
  <2>3. CASE \E r \in Readers : Ask(r) \/ ReadSummary(r) \/ Answer(r)
    BY <2>3, HealthAssumption, ReadsKeep, AnswerKeeps
  <2>4. CASE UNCHANGED vars
    <3>1. /\ head' = head /\ meta' = meta /\ positive' = positive /\ em' = em
          /\ last' = last /\ fence' = fence /\ open' = open /\ pc' = pc
          /\ checked' = checked /\ reader' = reader /\ answer' = answer
          /\ owed' = owed /\ waited' = waited
      BY <2>4 DEF vars, fields
    <3> QED
      BY <3>1 DEF HealthInv, HealthTypes, EmTypes, ReaderTypes, Past, StartedAfter, OwedInv,
         Owed, FreshReaders, PermitGone, StoppedEarly, Clear, ObservedMode
  <2> QED
    BY <2>1, <2>2, <2>3, <2>4 DEF Next
<1> QED
  BY <1>1, <1>2, PTL DEF Spec

\* No vote that is owed is reported later than its window and Slack, and none is
\* reported for which the loop had something to wait for within the window: for
\* any number of threads judging the clock by what they read before the lock.
THEOREM AlarmsAreRight == Spec => []AlarmIsRight
<1>1. Init => AlarmIsRight
  BY DEF Init, AlarmIsRight, None
<1>2. HealthInv /\ HealthInv' /\ AlarmIsRight /\ [Next]_vars => AlarmIsRight'
  <2> SUFFICES ASSUME HealthInv, HealthInv', AlarmIsRight, [Next]_vars
               PROVE  AlarmIsRight'
    OBVIOUS
  <2>1. CASE answer' = None
    BY <2>1 DEF AlarmIsRight, None
  <2>2. CASE \E r \in Readers : Answer(r)
    <3>0. head' = head
      BY <2>2 DEF Answer
    <3>1. answer' = IF em'.since # Never /\ head > Deadline(em'.since)
                    THEN "overdue" ELSE "in time"
      BY <2>2 DEF Answer
    <3>2. /\ head \in Nat /\ em'.since \in Int /\ owed' \in Int /\ waited' \in Nat
          /\ RESPONSE \in Nat /\ PASS \in Nat /\ EPOCH \in Nat /\ TICK_MAX \in Nat /\ GRACE \in Nat
          /\ Slack = RESPONSE + PASS + EPOCH + PASS
      <4>1. em' \in EmRecords /\ Past(owed)' /\ waited' \in Nat /\ head \in Nat
        BY DEF HealthInv, HealthTypes, EmTypes
      <4> QED
        BY <4>1, HealthAssumption DEF EmRecords, Past, HealthAssumption, Slack
    <3>3. ASSUME answer' = "overdue"
          PROVE  head' > Deadline(waited')
      <4>1. em'.since # Never /\ head > Deadline(em'.since)
        BY <3>1, <3>3
      <4>2. waited' <= em'.since
        BY <4>1 DEF HealthInv, StartedAfter
      <4>3. waited' <= em'.since + 0 /\ waited' \in Int
        BY <3>2, <4>2
      <4>4. /\ Deadline(waited') \in Int /\ Deadline(em'.since) \in Int
            /\ Deadline(waited') <= Deadline(em'.since) + 0
        BY <3>2, <4>3, HealthAssumption, DeadlineMoves
      <4> QED
        BY <3>0, <3>2, <4>1, <4>4
    <3>4. ASSUME answer' = "in time", owed' # Never, ~NothingDue(em, owed)'
          PROVE  head' <= Deadline(owed') + Slack
      <4>1. /\ Owed'
            /\ \/ PermitGone'
               \/ IF em'.since = Never THEN StoppedEarly' ELSE em'.since <= owed' + Slack
        BY <3>4 DEF HealthInv, OwedInv
      <4>2. ~PermitGone'
        <5>1. em'.snapBlock \in Int /\ Larger(meta'.block, em'.note) \in Int
          <6>1. em' \in EmRecords /\ meta' \in [block : Nat, permit : BOOLEAN]
            BY DEF HealthInv, HealthTypes, EmTypes
          <6> QED
            BY <6>1 DEF EmRecords, Larger
        <5>2. Permitted(em, Larger(meta.block, em.note))'
          BY <3>4 DEF NothingDue, Waits
        <5> QED
          BY <5>1, <5>2 DEF Permitted, PermitGone
      <4>3. CASE em'.since # Never
        <5>1. ~(head > Deadline(em'.since)) /\ em'.since <= owed' + Slack
          BY <3>1, <3>4, <4>1, <4>2, <4>3
        <5>2. Slack \in Nat
          BY <3>2
        <5>3. /\ Deadline(em'.since) \in Int /\ Deadline(owed') \in Int
              /\ Deadline(em'.since) <= Deadline(owed') + Slack
          BY <3>2, <5>1, <5>2, HealthAssumption, DeadlineMoves
        <5>4. head' = head /\ head \in Int /\ Slack \in Int
          BY <3>0, <3>2
        <5>5. head <= Deadline(em'.since)
          BY <5>1, <5>3, <5>4
        <5> QED
          BY <5>3, <5>4, <5>5
      <4>4. CASE em'.since = Never
        <5>1. checked' \in Int /\ last' \in Int /\ head' <= checked' + PASS
          BY DEF HealthInv, HealthTypes, Past
        <5>2. head <= owed' + Slack
          <6>1. StoppedEarly'
            BY <4>1, <4>2, <4>4
          <6>2. /\ last' <= owed' + RESPONSE + PASS
                /\ checked' <= owed' + RESPONSE \/ checked' <= last' + EPOCH
            BY <6>1 DEF StoppedEarly
          <6>3. head' = head
            BY <3>0
          <6>4. PICK h \in Int, c \in Int, l \in Int, o \in Int :
                  h = head' /\ c = checked' /\ l = last' /\ o = owed'
            BY <3>0, <3>2, <5>1
          <6>5. h <= c + PASS /\ l <= o + RESPONSE + PASS /\ (c <= o + RESPONSE \/ c <= l + EPOCH)
            BY <5>1, <6>2, <6>4
          <6>6. h <= o + (RESPONSE + PASS + EPOCH + PASS)
            BY <3>2, <6>5
          <6> QED
            BY <3>2, <6>3, <6>4, <6>6
        <5>3. Slack \in Nat /\ head \in Int
          BY <3>2
        <5>4. head <= Deadline(owed') + Slack
          BY <3>2, <5>2, <5>3, HealthAssumption, DeadlineMoves
        <5> QED
          BY <3>0, <5>4
      <4> QED
        BY <4>3, <4>4
    <3> QED
      BY <3>3, <3>4 DEF AlarmIsRight
  <2>3. CASE UNCHANGED vars
    <3>1. /\ head' = head /\ meta' = meta /\ positive' = positive /\ em' = em
          /\ last' = last /\ fence' = fence /\ open' = open
          /\ answer' = answer /\ owed' = owed /\ waited' = waited
      BY <2>3 DEF vars, fields
    <3> QED
      BY <3>1 DEF AlarmIsRight, NothingDue, Waits, Permitted, ObservedMode
  <2>4. CASE Next
    BY <2>1, <2>2, <2>4
       DEF Next, NewBlock, Loop, LoopOnly, Quiet, Tick, Check, Resync, Reconcile, ReadRaises,
           ReadScores, Ready, PlanRefused, PlanMade, EmitFails, PrepareRow, Outcome, Ask, ReadSummary
  <2> QED
    BY <2>3, <2>4
<1> QED
  BY <1>1, <1>2, HealthInvariant, PTL DEF Spec
=============================================================================
