-------------------------- MODULE PublicReadsProofs --------------------------
(***************************************************************************)
(* Theorems about RoundLifecycle, and about PublicReads which extends it,   *)
(* for every set of miners, payloads, requests, horizons and forecasts,     *)
(* every cap, and every layout of windows, period and grace.                *)
(***************************************************************************)
EXTENDS PublicReads, TotalsProofs

-----------------------------------------------------------------------------
(***************************************************************************)
(* RoundLifecycle.                                                         *)
(***************************************************************************)
RevealPc == {"reveal_check", "reveal_charge", "reveal_reread",
             "reveal_classify", "reveal_record", "reveal_confirm"}

\* What holds of a request between two of its storage calls. A commit that will
\* still write runs before the reveals open; a reveal past its first check runs
\* after, so the hash it read is still the stored one; a marked retry has done
\* nothing but arrive.
InProgress(s) ==
    LET r == req[s] IN
    /\ Busy(s) => /\ r.hotkey \in Hotkeys /\ r.payload \in Payloads
                  /\ round # "absent"
    /\ r.pc \in CommitPc /\ r.timely => clock < REVEAL_OPEN
    /\ r.pc = "commit_record" => r.timely
    /\ r.pc \in RevealPc /\ r.timely => clock >= REVEAL_OPEN
    /\ r.pc \in RevealPc \ {"reveal_check"} =>
          r.timely /\ r.committed = sub[r.hotkey].hash
    /\ r.pc \in {"reveal_record", "reveal_confirm"} /\ r.accepted =>
          r.payload = sub[r.hotkey].hash /\ r.payload \in WellFormed
    /\ r.accepted => r.pc \in {"reveal_record", "reveal_confirm"}
    /\ r.dup => /\ r.pc = "reveal_check" /\ r.timely
                /\ Accepted(r.hotkey) /\ sub[r.hotkey].payload = r.payload

\* A miner without a row has committed nothing.
NoRowIsEmpty == \A h \in Hotkeys : sub[h].verdict = "none" => sub[h].commits = 0

\* Nothing is snapshotted or published before the one step that reveals.
OpenIsUnfrozen ==
    round \notin PostReveal => snapshot = Nothing /\ consensus = Nothing

\* Only a revealed round that is not yet closed is being resolved.
ResolvingIsRevealed == tick.pc = "resolve" => MayResolve

RoundInv ==
    /\ TypeOK /\ NoRowIsEmpty /\ AcceptedOpensCommit
    /\ \A s \in Slots : InProgress(s)
    /\ OpenIsUnfrozen /\ ResolvingIsRevealed /\ FrozenSetAgrees
    /\ ClosedIsResolved /\ AckedIsScored

-----------------------------------------------------------------------------
(***************************************************************************)
(* Types.                                                                   *)
(***************************************************************************)
\* Answering a request keeps the types of the slots and of the answers.
LEMMA AnswerTypes ==
    ASSUME TypeOK, NEW s \in Slots, Accepts(s) \/ Refuses(s),
           req[s].hotkey \in Hotkeys, req[s].payload \in Payloads
    PROVE  req' \in [Slots -> Requests] /\ acked' \subseteq Hotkeys \X Payloads
<1>1. NoRequest \in Requests
  BY DEF NoRequest, Requests
<1>2. [NoRequest EXCEPT !.pc = "refused", !.dup = req[s].dup] \in Requests
  BY DEF NoRequest, Requests, TypeOK
<1> QED
  BY <1>1, <1>2 DEF Accepts, Refuses, TypeOK

\* A submission row keeps its type, and both counters their caps, in each of
\* the three storage calls that write one.
LEMMA RowTypes ==
    ASSUME TypeOK, NoRowIsEmpty, NEW s \in Slots, InProgress(s),
           CommitRecorded(s) \/ RevealCharged(s) \/ RevealRecorded(s)
    PROVE  sub' \in [Hotkeys -> Rows]
<1> USE RoundAssumption
<1> DEFINE h == req[s].hotkey
           p == req[s].payload
<1>1. h \in Hotkeys /\ p \in Payloads /\ sub \in [Hotkeys -> Rows]
  BY DEF CommitRecorded, RevealCharged, RevealRecorded, InProgress, Busy, TypeOK
<1>2. sub[h] \in Rows /\ sub[h].commits \in 0..MAX_COMMITS
      /\ sub[h].reveals \in 0..MAX_REVEALS
  BY <1>1 DEF Rows
<1>3. CASE CommitRecorded(s)
  <2>1. sub' = sub \/ sub' = [sub EXCEPT ![h].hash = p,
                 ![h].verdict = "committed", ![h].commits = @ + 1]
    BY <1>3 DEF CommitRecorded, RecordCommit
  <2>2. sub' # sub => sub[h].verdict = "none" \/ sub[h].commits < MAX_COMMITS
    BY <1>3 DEF CommitRecorded, RecordCommit, MayRecommit
  <2>3. sub[h].verdict = "none" => sub[h].commits = 0
    BY <1>1 DEF NoRowIsEmpty
  <2> QED
    BY <1>1, <1>2, <2>1, <2>2, <2>3 DEF Rows
<1>4. CASE RevealCharged(s)
  <2>1. sub' = sub \/ ( /\ sub[h].reveals < MAX_REVEALS
                        /\ sub' = [sub EXCEPT ![h].reveals = @ + 1] )
    BY <1>4 DEF RevealCharged, RecordRevealAttempt, MayCharge
  <2> QED
    BY <1>1, <1>2, <2>1 DEF Rows
<1>5. CASE RevealRecorded(s)
  <2>1. sub' = sub \/ \E v \in {"accepted", "rejected"} :
                        sub' = [sub EXCEPT ![h].payload = p, ![h].verdict = v]
    BY <1>5 DEF RevealRecorded
  <2> QED
    BY <1>1, <1>2, <2>1 DEF Rows
<1> QED
  BY <1>3, <1>4, <1>5

\* Serving a request keeps every type.
LEMMA RequestTypes ==
    ASSUME TypeOK, NoRowIsEmpty, NEW s \in Slots, InProgress(s), RequestStep(s)
    PROVE  TypeOK'
<1> USE RoundAssumption
<1>1. req[s] \in Requests /\ req \in [Slots -> Requests]
  BY DEF TypeOK
<1>2. req[s].hotkey \in Hotkeys /\ req[s].payload \in Payloads
  BY DEF RequestStep, CommitChecked, CommitRecorded, RevealChecked, RevealCharged,
         RevealReread, RevealClassified, RevealRecorded, RevealConfirmed,
         InProgress, Busy
<1>3. sub' \in [Hotkeys -> Rows]
  BY RowTypes DEF RequestStep, CommitChecked, RevealChecked, RevealReread,
         RevealClassified, RevealConfirmed, rows, TypeOK
<1>4. Accepts(s) \/ Refuses(s) =>
         req' \in [Slots -> Requests] /\ acked' \subseteq Hotkeys \X Payloads
  BY <1>2, AnswerTypes
<1>5. \A pc \in CommitPc \union {"reveal_record", "reveal_confirm"} :
         Continues(s, pc) =>
            req' \in [Slots -> Requests] /\ acked' \subseteq Hotkeys \X Payloads
  BY <1>1 DEF Continues, Requests, CommitPc, TypeOK
<1>6. req' \in [Slots -> Requests] /\ acked' \subseteq Hotkeys \X Payloads
  <2>1. CASE CommitChecked(s)
    BY <1>4, <1>5, <2>1 DEF CommitChecked, CommitPc
  <2>2. CASE CommitRecorded(s)
    BY <1>4, <2>2 DEF CommitRecorded
  <2>3. CASE RevealChecked(s)
    <3>1. sub[req[s].hotkey].hash \in Payloads \union {NoPayload}
      BY <1>2 DEF TypeOK, Rows
    <3> QED
      BY <1>1, <1>4, <2>3, <3>1 DEF RevealChecked, Requests, TypeOK
  <2>4. CASE RevealCharged(s)
    <3>1. ValidReveal(req[s].payload, req[s].committed) \in BOOLEAN
      BY DEF ValidReveal
    <3> QED
      BY <1>1, <2>4, <3>1 DEF RevealCharged, RecordRevealAttempt, Requests, TypeOK
  <2>5. CASE RevealReread(s)
    BY <1>1, <2>5 DEF RevealReread, Requests, TypeOK
  <2>6. CASE RevealClassified(s)
    BY <1>4, <1>5, <2>6 DEF RevealClassified
  <2>7. CASE RevealRecorded(s)
    BY <1>4, <1>5, <2>7 DEF RevealRecorded
  <2>8. CASE RevealConfirmed(s)
    BY <1>4, <2>8 DEF RevealConfirmed
  <2> QED
    BY <2>1, <2>2, <2>3, <2>4, <2>5, <2>6, <2>7, <2>8 DEF RequestStep
<1>7. UNCHANGED <<clock, round, snapshot, consensus, resolved, tick>>
  BY DEF RequestStep, CommitChecked, CommitRecorded, RevealChecked, RevealCharged,
         RevealReread, RevealClassified, RevealRecorded, RevealConfirmed, rows
<1> QED
  BY <1>3, <1>6, <1>7 DEF TypeOK

\* So do the tick, the clock and a crash.
LEMMA OtherTypes ==
    ASSUME TypeOK, Tick \/ AdvanceClock \/ Crash
    PROVE  TypeOK'
<1> USE RoundAssumption
<1>1. /\ snapshot \in [Hotkeys -> Payloads \union {NoPayload}]
      /\ AcceptedBundles \in [Hotkeys -> Payloads \union {NoPayload}]
      /\ SnapshotBundles \in [Hotkeys -> Payloads \union {NoPayload}]
  BY DEF TypeOK, AcceptedBundles, SnapshotBundles, Rows
<1>2. NoTick \in Ticks /\ tick \in Ticks /\ NoRequest \in Requests
  BY DEF NoTick, Ticks, NoRequest, Requests, TypeOK
<1>3. CASE AdvanceClock
  BY <1>3 DEF AdvanceClock, rows, TypeOK
<1>4. CASE Crash
  BY <1>2, <1>4 DEF Crash, rows, TypeOK
<1>5. CASE TickStarts
  <2>1. [NoTick EXCEPT !.pc = "open", !.now = clock] \in Ticks
    BY DEF NoTick, Ticks, TypeOK
  <2> QED
    BY <1>5, <2>1 DEF TickStarts, rows, TypeOK
<1>6. CASE OpenActiveRound
  <2>1. [tick EXCEPT !.pc = "advance"] \in Ticks
    BY <1>2 DEF Ticks
  <2> QED
    BY <1>6, <2>1 DEF OpenActiveRound, OpenRound, TypeOK
<1>7. ToResolve => tick' \in Ticks
  BY <1>2 DEF ToResolve, Ticks
<1>8. CASE Publish
  BY <1>1, <1>7, <1>8 DEF Publish, PublishConsensusAndReveal, FlipRoundRevealed, PostReveal, TypeOK
<1>9. CASE PublishFails \/ AdvanceOneRound
  BY <1>2, <1>7, <1>9 DEF PublishFails, AdvanceOneRound, rows, TypeOK
<1>10. ASSUME NEW h \in Horizons, PassOver(h) PROVE TypeOK'
  <2>1. [tick EXCEPT !.left = @ \ {h}, !.all = @ /\ h \in resolved] \in Ticks
    BY <1>2 DEF Ticks
  <2> QED
    BY <1>10, <2>1 DEF PassOver, rows, TypeOK
<1>11. ASSUME NEW h \in Horizons, NEW o \in BOOLEAN, ResolveAndScore(h, o)
       PROVE  TypeOK'
  <2>1. [tick EXCEPT !.left = @ \ {h}, !.scored = TRUE] \in Ticks
    BY <1>2 DEF Ticks
  <2> QED
    BY <1>11, <2>1 DEF ResolveAndScore, TypeOK
<1>12. ASSUME NEW h \in Horizons, NEW o \in BOOLEAN, ResolutionInterrupted(h, o)
       PROVE  TypeOK'
  <2>1. [tick EXCEPT !.left = IF o THEN {} ELSE @ \ {h}, !.all = FALSE] \in Ticks
    BY <1>2 DEF Ticks
  <2> QED
    BY <1>12, <2>1 DEF ResolutionInterrupted, rows, TypeOK
<1>13. CASE SettleRound
  BY <1>1, <1>2, <1>13 DEF SettleRound, SetRoundState, PostReveal, TypeOK
<1> QED
  BY <1>3, <1>4, <1>5, <1>6, <1>8, <1>9, <1>10, <1>11, <1>12, <1>13 DEF Tick

-----------------------------------------------------------------------------
(***************************************************************************)
(* What a step does to the submissions.                                     *)
(***************************************************************************)
\* No storage call writes after the close, replaces an accepted reveal, moves a
\* commitment once the reveals are open, or accepts what does not open it; the
\* calls that write touch the requester's row alone.
LEMMA SubmissionWrites ==
    ASSUME RoundInv, NEW s \in Slots, RequestStep(s)
    PROVE  /\ round \in PostReveal => sub' = sub
           /\ \A g \in Hotkeys :
                 /\ Accepted(g) => /\ Accepted(g)' /\ sub'[g].payload = sub[g].payload
                                   /\ sub'[g].hash = sub[g].hash
                 /\ clock >= REVEAL_OPEN => sub'[g].hash = sub[g].hash
                 /\ Accepted(g)' => /\ sub'[g].payload = sub'[g].hash
                                    /\ sub'[g].payload \in WellFormed
                 /\ sub'[g].verdict = "none" => sub'[g].commits = 0
<1> USE RoundAssumption
<1> DEFINE h == req[s].hotkey
           p == req[s].payload
<1>1. /\ sub \in [Hotkeys -> Rows] /\ InProgress(s) /\ req[s] \in Requests
      /\ clock \in Nat
      /\ \A g \in Hotkeys : sub[g].verdict = "none" => sub[g].commits = 0
      /\ \A g \in Hotkeys : Accepted(g) => /\ sub[g].payload = sub[g].hash
                                           /\ sub[g].payload \in WellFormed
  BY DEF RoundInv, TypeOK, NoRowIsEmpty, AcceptedOpensCommit
<1>2. CASE sub' = sub
  BY <1>1, <1>2 DEF Accepted
<1>3. CASE CommitRecorded(s) /\ sub' # sub
  <2>1. /\ h \in Hotkeys /\ round = "open" /\ clock < REVEAL_OPEN /\ ~Accepted(h)
        /\ sub' = [sub EXCEPT ![h].hash = p, ![h].verdict = "committed",
                              ![h].commits = @ + 1]
    BY <1>1, <1>3 DEF CommitRecorded, RecordCommit, MayRecommit, InProgress, Busy,
       CommitPc, Accepted
  <2>2. /\ sub'[h].verdict = "committed"
        /\ \A g \in Hotkeys \ {h} : sub'[g] = sub[g]
    BY <1>1, <2>1 DEF Rows
  <2>3. round \notin PostReveal
    BY <2>1 DEF PostReveal
  <2>4. ASSUME NEW g \in Hotkeys
        PROVE  /\ Accepted(g) => Accepted(g)' /\ sub'[g] = sub[g]
               /\ Accepted(g)' => sub'[g] = sub[g]
               /\ sub'[g] = sub[g] \/ sub'[g].verdict = "committed"
    BY <2>1, <2>2 DEF Accepted
  <2>5. ~(clock >= REVEAL_OPEN)
    BY <1>1, <2>1 DEF RoundAssumption
  <2> QED
    BY <1>1, <2>3, <2>4, <2>5 DEF Accepted
<1>4. CASE RevealCharged(s) /\ sub' # sub
  <2>1. /\ h \in Hotkeys /\ round = "open" /\ sub[h] \in Rows
        /\ sub' = [sub EXCEPT ![h].reveals = @ + 1]
    BY <1>1, <1>4 DEF RevealCharged, RecordRevealAttempt, MayCharge, InProgress, Busy
  <2>2. /\ sub'[h].verdict = sub[h].verdict /\ sub'[h].payload = sub[h].payload
        /\ sub'[h].hash = sub[h].hash /\ sub'[h].commits = sub[h].commits
        /\ \A g \in Hotkeys \ {h} : sub'[g] = sub[g]
    BY <1>1, <2>1 DEF Rows
  <2> QED
    BY <1>1, <2>1, <2>2 DEF Accepted, PostReveal
<1>5. CASE RevealRecorded(s) /\ sub' # sub
  <2>1. PICK v \in {"accepted", "rejected"} :
           /\ h \in Hotkeys /\ round = "open" /\ ~Accepted(h) /\ sub[h] \in Rows
           /\ sub' = [sub EXCEPT ![h].payload = p, ![h].verdict = v]
           /\ v = "accepted" => req[s].accepted
    BY <1>1, <1>5 DEF RevealRecorded, MayRecordReveal, InProgress, Busy
  <2>2. /\ sub'[h].verdict = v /\ sub'[h].payload = p
        /\ sub'[h].hash = sub[h].hash
        /\ \A g \in Hotkeys \ {h} : sub'[g] = sub[g]
    BY <1>1, <2>1 DEF Rows
  <2>3. v = "accepted" => p = sub[h].hash /\ p \in WellFormed
    BY <1>1, <1>5, <2>1 DEF InProgress, RevealRecorded
  <2> QED
    BY <1>1, <2>1, <2>2, <2>3 DEF Accepted, PostReveal
<1> QED
  BY <1>2, <1>3, <1>4, <1>5 DEF RequestStep, CommitChecked, RevealChecked,
     RevealReread, RevealClassified, RevealConfirmed, rows

-----------------------------------------------------------------------------
(***************************************************************************)
(* The requests in progress and what they answer.                           *)
(***************************************************************************)
\* A request that another one overtakes is still sound: its hash was not
\* replaced and the accepted reveal it may repeat is still there.
LEMMA OthersInProgress ==
    ASSUME RoundInv, NEW s \in Slots, RequestStep(s), NEW t \in Slots, t # s
    PROVE  InProgress(t)'
<1>1. InProgress(t) /\ req \in [Slots -> Requests]
  BY DEF RoundInv, TypeOK
<1>2. req'[t] = req[t] /\ clock' = clock /\ round' = round
  BY <1>1 DEF RequestStep, CommitChecked, CommitRecorded, RevealChecked,
     RevealCharged, RevealReread, RevealClassified, RevealRecorded,
     RevealConfirmed, Accepts, Refuses, Continues, rows
<1>3. req[t].hotkey \in Hotkeys \/ ~Busy(t)
  BY <1>1 DEF InProgress
<1>4. req[t].pc \in RevealPc /\ req[t].timely =>
         sub'[req[t].hotkey].hash = sub[req[t].hotkey].hash
  BY <1>1, <1>3, SubmissionWrites DEF InProgress, Busy, RevealPc
<1>5. req[t].dup => /\ Accepted(req[t].hotkey)'
                    /\ sub'[req[t].hotkey].payload = req[t].payload
  <2>1. req[t].dup => /\ req[t].hotkey \in Hotkeys /\ Accepted(req[t].hotkey)
                      /\ sub[req[t].hotkey].payload = req[t].payload
    BY <1>1 DEF InProgress, Busy
  <2>2. \A g \in Hotkeys : Accepted(g) => /\ sub'[g].verdict = "accepted"
                                         /\ sub'[g].payload = sub[g].payload
    BY SubmissionWrites DEF Accepted
  <2> QED
    BY <1>2, <2>1, <2>2 DEF Accepted
<1> QED
  BY <1>1, <1>2, <1>4, <1>5 DEF InProgress, Busy, Accepted, RevealPc

\* A retry of the accepted reveal is recognised, before the close and after.
LEMMA RetryIsRecognised ==
    ASSUME RoundInv, NEW h \in Hotkeys, Accepted(h), round # "absent"
    PROVE  AcceptedReveal(h) = sub[h].payload
BY DEF RoundInv, AcceptedReveal, FrozenSetAgrees, AcceptedBundles, PostReveal, TypeOK

\* The served request itself is sound after each of its storage calls, and only
\* the durable payload of a miner is answered as accepted.
LEMMA ServedInProgress ==
    ASSUME RoundInv, NEW s \in Slots, RequestStep(s)
    PROVE  /\ InProgress(s)'
           /\ \A a \in acked' \ acked :
                 /\ a[1] \in Hotkeys
                 /\ Accepted(a[1])' /\ sub'[a[1]].payload = a[2]
<1> USE RoundAssumption
<1> DEFINE h == req[s].hotkey
           p == req[s].payload
<1>1. /\ InProgress(s) /\ req \in [Slots -> Requests] /\ req[s] \in Requests
      /\ sub \in [Hotkeys -> Rows] /\ Busy(s)
      /\ h \in Hotkeys /\ p \in Payloads /\ round # "absent"
  BY DEF RoundInv, TypeOK, RequestStep, CommitChecked, CommitRecorded,
     RevealChecked, RevealCharged, RevealReread, RevealClassified,
     RevealRecorded, RevealConfirmed, InProgress, Busy
<1>2. clock' = clock /\ round' = round
  BY DEF RequestStep, CommitChecked, CommitRecorded, RevealChecked,
     RevealCharged, RevealReread, RevealClassified, RevealRecorded,
     RevealConfirmed, rows
<1>3. req[s].dup => AcceptedReveal(h) = p /\ req[s].timely
  BY <1>1, RetryIsRecognised DEF InProgress
<1>4. AcceptedReveal(h) = p => Accepted(h) /\ sub[h].payload = p
  BY <1>1, RoundAssumption DEF AcceptedReveal
\* An answer ends the request; a refused one was no retry.
<1>5. ASSUME Refuses(s), ~req[s].dup
      PROVE  InProgress(s)' /\ acked' = acked
  <2>1. req'[s].pc = "refused" /\ req'[s].dup = FALSE
        /\ req'[s].timely = FALSE /\ req'[s].accepted = FALSE
    BY <1>1, <1>5 DEF Refuses, NoRequest
  <2> QED
    BY <1>5, <2>1 DEF InProgress, Busy, CommitPc, RevealPc, Refuses
<1>6. ASSUME Accepts(s)
      PROVE  /\ InProgress(s)'
             /\ acked' = acked \union
                  (IF req[s].pc \in CommitPc THEN {} ELSE {<<h, p>>})
  <2>1. req'[s].pc = "idle" /\ req'[s].dup = FALSE /\ req'[s].accepted = FALSE
    BY <1>1, <1>6 DEF Accepts, NoRequest
  <2> QED
    BY <1>6, <2>1 DEF InProgress, Busy, CommitPc, RevealPc, Accepts
<1>7. CASE CommitChecked(s)
  <2>1. req[s].pc = "commit_check" /\ ~req[s].dup /\ ~req[s].accepted
    BY <1>1, <1>7 DEF CommitChecked, InProgress
  <2>2. CASE Refuses(s)
    BY <1>5, <2>1, <2>2
  <2>3. CASE Continues(s, "commit_record") /\ req[s].timely
    <3>1. req'[s] = [req[s] EXCEPT !.pc = "commit_record"] /\ acked' = acked
      BY <1>1, <2>3 DEF Continues
    <3>2. /\ req'[s].pc = "commit_record" /\ req'[s].timely = TRUE
          /\ req'[s].dup = FALSE /\ req'[s].hotkey = h /\ req'[s].payload = p
          /\ req'[s].accepted = FALSE
      BY <1>1, <2>1, <2>3, <3>1 DEF Requests
    <3> QED
      BY <1>1, <1>2, <2>1, <2>3, <3>1, <3>2 DEF InProgress, Busy, CommitPc, RevealPc
  <2> QED
    BY <1>7, <2>2, <2>3 DEF CommitChecked
<1>8. CASE CommitRecorded(s)
  <2>1. req[s].pc \in CommitPc /\ ~req[s].dup
    BY <1>1, <1>8 DEF CommitRecorded, InProgress, CommitPc
  <2> QED
    BY <1>5, <1>6, <1>8, <2>1 DEF CommitRecorded
<1>9. CASE RevealChecked(s)
  <2>1. CASE Accepts(s) /\ AcceptedReveal(h) = p
    <3>1. sub' = sub
      BY <1>9 DEF RevealChecked, rows
    <3> QED
      BY <1>1, <1>4, <1>6, <2>1, <3>1 DEF Accepted
  <2>2. CASE Refuses(s) /\ ~(req[s].timely /\ AcceptedReveal(h) = p)
    BY <1>3, <1>5, <2>2
  <2>3. CASE /\ req[s].timely /\ AcceptedReveal(h) # p
             /\ req' = [req EXCEPT ![s].pc = "reveal_charge",
                                   ![s].committed = sub[h].hash]
             /\ acked' = acked
    <3>1. sub' = sub /\ req[s].pc = "reveal_check" /\ ~req[s].dup /\ ~req[s].accepted
      BY <1>1, <1>3, <1>9, <2>3 DEF RevealChecked, InProgress, rows
    <3>2. /\ req'[s].pc = "reveal_charge" /\ req'[s].committed = sub[h].hash
          /\ req'[s].timely = TRUE /\ req'[s].dup = FALSE
          /\ req'[s].hotkey = h /\ req'[s].payload = p
          /\ req'[s].accepted = FALSE
      BY <1>1, <2>3, <3>1 DEF Requests
    <3> QED
      BY <1>1, <1>2, <2>3, <3>1, <3>2 DEF InProgress, Busy, CommitPc, RevealPc
  <2> QED
    BY <1>9, <2>1, <2>2, <2>3 DEF RevealChecked, CommittedHash
\* Past the first check nothing is a retry, and the hash stays what it was.
<1>10. ASSUME req[s].pc \in RevealPc \ {"reveal_check"}
       PROVE  /\ ~req[s].dup /\ req[s].timely /\ req[s].committed = sub[h].hash
              /\ clock >= REVEAL_OPEN /\ sub'[h].hash = sub[h].hash
  BY <1>1, <1>10, SubmissionWrites DEF InProgress, RevealPc
<1>11. ASSUME req[s].pc \in RevealPc \ {"reveal_check"},
              NEW pc \in RevealPc \ {"reveal_check"}, NEW verdict \in BOOLEAN,
              req' = [req EXCEPT ![s].pc = pc, ![s].accepted = verdict],
              verdict => /\ pc \in {"reveal_record", "reveal_confirm"}
                         /\ p = sub[h].hash /\ p \in WellFormed
       PROVE  InProgress(s)'
  <2>1. /\ req'[s].pc = pc /\ req'[s].accepted = verdict
        /\ req'[s].committed = req[s].committed /\ req'[s].timely = req[s].timely
        /\ req'[s].dup = req[s].dup /\ req'[s].hotkey = h /\ req'[s].payload = p
    BY <1>1, <1>11 DEF Requests
  <2> QED
    BY <1>1, <1>2, <1>10, <1>11, <2>1 DEF InProgress, Busy, CommitPc, RevealPc
<1>12. ASSUME req[s].pc \in RevealPc \ {"reveal_check"},
              NEW pc \in RevealPc \ {"reveal_check"},
              req' = [req EXCEPT ![s].pc = pc],
              req[s].accepted => pc \in {"reveal_record", "reveal_confirm"}
       PROVE  InProgress(s)'
  <2>1. /\ req'[s].pc = pc /\ req'[s].accepted = req[s].accepted
        /\ req'[s].committed = req[s].committed /\ req'[s].timely = req[s].timely
        /\ req'[s].dup = req[s].dup /\ req'[s].hotkey = h /\ req'[s].payload = p
    BY <1>1, <1>12 DEF Requests
  <2>2. req[s].accepted => p = sub[h].hash /\ p \in WellFormed
    BY <1>1 DEF InProgress
  <2> QED
    BY <1>1, <1>2, <1>10, <1>12, <2>1, <2>2 DEF InProgress, Busy, CommitPc, RevealPc
<1>13. CASE RevealCharged(s)
  <2>1. req[s].pc \in RevealPc \ {"reveal_check"} /\ acked' = acked
    BY <1>13 DEF RevealCharged, RevealPc
  <2>2. CASE req' = [req EXCEPT ![s].pc = "reveal_record",
                        ![s].accepted = ValidReveal(p, req[s].committed)]
    <3>1. ValidReveal(p, req[s].committed) \in BOOLEAN
      BY DEF ValidReveal
    <3>2. ValidReveal(p, req[s].committed) => p = sub[h].hash /\ p \in WellFormed
      BY <1>10, <2>1 DEF ValidReveal
    <3> QED
      BY <1>11, <2>1, <2>2, <3>1, <3>2 DEF RevealPc
  <2>3. CASE req' = [req EXCEPT ![s].pc = "reveal_reread"]
    <3>1. ~req[s].accepted
      BY <1>1, <1>13 DEF RevealCharged, InProgress
    <3> QED
      BY <1>12, <2>1, <2>3, <3>1 DEF RevealPc
  <2> QED
    BY <1>13, <2>2, <2>3 DEF RevealCharged
<1>14. CASE RevealReread(s)
  <2>1. req[s].pc \in RevealPc \ {"reveal_check"} /\ acked' = acked
    BY <1>14 DEF RevealReread, RevealPc
  <2>2. CASE /\ AcceptedReveal(h) = p
             /\ req' = [req EXCEPT ![s].pc = "reveal_record", ![s].accepted = TRUE]
    <3>1. p = sub[h].hash /\ p \in WellFormed
      BY <1>1, <1>4, <2>2 DEF RoundInv, AcceptedOpensCommit
    <3> QED
      BY <1>11, <2>1, <2>2, <3>1 DEF RevealPc
  <2>3. CASE req' = [req EXCEPT ![s].pc = "reveal_classify"]
    <3>1. ~req[s].accepted
      BY <1>1, <1>14 DEF RevealReread, InProgress
    <3> QED
      BY <1>12, <2>1, <2>3, <3>1 DEF RevealPc
  <2> QED
    BY <1>14, <2>2, <2>3 DEF RevealReread
<1>15. CASE RevealClassified(s)
  <2>1. req[s].pc = "reveal_classify"
    BY <1>15 DEF RevealClassified
  <2>2. CASE Refuses(s)
    BY <1>5, <1>10, <2>1, <2>2 DEF RevealPc
  <2>3. CASE Continues(s, "reveal_record")
    BY <1>12, <2>1, <2>3 DEF RevealPc, Continues
  <2> QED
    BY <1>15, <2>2, <2>3 DEF RevealClassified
<1>16. CASE RevealRecorded(s)
  <2>1. req[s].pc = "reveal_record"
    BY <1>16 DEF RevealRecorded
  <2>2. CASE Refuses(s)
    BY <1>5, <1>10, <2>1, <2>2 DEF RevealPc
  <2>3. CASE Continues(s, "reveal_confirm")
    BY <1>12, <2>1, <2>3 DEF RevealPc, Continues
  <2>4. CASE Accepts(s) /\ MayRecordReveal(h, p, "accepted") /\ req[s].accepted
    <3>1. sub' = [sub EXCEPT ![h].payload = p, ![h].verdict = "accepted"]
      BY <1>16, <2>4 DEF RevealRecorded
    <3>2. sub'[h].verdict = "accepted" /\ sub'[h].payload = p
      BY <1>1, <3>1 DEF Rows
    <3> QED
      BY <1>1, <1>6, <2>4, <3>2 DEF Accepted
  <2> QED
    BY <1>16, <2>2, <2>3, <2>4 DEF RevealRecorded
<1>17. CASE RevealConfirmed(s)
  <2>1. req[s].pc = "reveal_confirm" /\ sub' = sub
    BY <1>17 DEF RevealConfirmed, rows
  <2>2. CASE Refuses(s)
    BY <1>5, <1>10, <2>1, <2>2 DEF RevealPc
  <2>3. CASE Accepts(s) /\ AcceptedReveal(h) = p
    BY <1>1, <1>4, <1>6, <2>1, <2>3 DEF Accepted
  <2> QED
    BY <1>17, <2>2, <2>3 DEF RevealConfirmed
<1> QED
  BY <1>7, <1>8, <1>9, <1>13, <1>14, <1>15, <1>16, <1>17 DEF RequestStep

-----------------------------------------------------------------------------
(***************************************************************************)
(* The inductive step.                                                      *)
(***************************************************************************)
\* Serving a request keeps the whole invariant: nothing that is scored, closed
\* or published depends on a row a request can still write.
LEMMA RequestKeepsInv ==
    ASSUME RoundInv, NEW s \in Slots, RequestStep(s)
    PROVE  RoundInv'
<1>1. TypeOK'
  BY RequestTypes DEF RoundInv
<1>2. \A t \in Slots : InProgress(t)'
  BY OthersInProgress, ServedInProgress
<1>3. UNCHANGED <<clock, round, snapshot, consensus, resolved, tick>>
  BY DEF RequestStep, CommitChecked, CommitRecorded, RevealChecked, RevealCharged,
         RevealReread, RevealClassified, RevealRecorded, RevealConfirmed, rows
<1>4. NoRowIsEmpty' /\ AcceptedOpensCommit'
  BY SubmissionWrites DEF NoRowIsEmpty, AcceptedOpensCommit
<1>5. OpenIsUnfrozen' /\ ResolvingIsRevealed' /\ ClosedIsResolved'
  BY <1>3 DEF RoundInv, OpenIsUnfrozen, ResolvingIsRevealed, MayResolve,
     ClosedIsResolved
<1>6. FrozenSetAgrees'
  BY <1>3, SubmissionWrites DEF RoundInv, FrozenSetAgrees, AcceptedBundles, Accepted
<1>7. AckedIsScored'
  <2> SUFFICES ASSUME NEW a \in acked'
               PROVE  /\ Accepted(a[1])' /\ sub'[a[1]].payload = a[2]
                      /\ ScoringBundles'[a[1]] = a[2]
    BY DEF AckedIsScored
  <2>1. a[1] \in Hotkeys /\ Accepted(a[1])' /\ sub'[a[1]].payload = a[2]
    <3>1. CASE a \in acked
      <4>1. a[1] \in Hotkeys /\ Accepted(a[1]) /\ sub[a[1]].payload = a[2]
        BY <3>1 DEF RoundInv, TypeOK, AckedIsScored
      <4>2. \A g \in Hotkeys : Accepted(g) => /\ Accepted(g)'
                                             /\ sub'[g].payload = sub[g].payload
        BY SubmissionWrites
      <4> QED
        BY <4>1, <4>2 DEF Accepted
    <3>2. CASE a \notin acked
      BY <3>2, ServedInProgress
    <3> QED
      BY <3>1, <3>2
  <2> QED
    BY <1>6, <2>1 DEF FrozenSetAgrees, ScoringBundles, AcceptedBundles, Accepted
<1> QED
  BY <1>1, <1>2, <1>4, <1>5, <1>6, <1>7 DEF RoundInv

\* A new request starts without a verdict, and is a retry only of what is stored.
LEMMA ArrivalKeepsInv ==
    ASSUME RoundInv, NEW s \in Slots, NEW h \in Hotkeys, NEW p \in Payloads,
           CommitArrives(s, h, p) \/ RevealArrives(s, h, p)
    PROVE  RoundInv'
<1> USE RoundAssumption
<1>1. PICK pc \in {"commit_check", "reveal_check"},
           timely \in BOOLEAN, dup \in BOOLEAN :
         /\ Arrives(s, h, p, pc, timely, dup)
         /\ pc = "commit_check" => (timely => clock < REVEAL_OPEN) /\ ~dup
         /\ pc = "reveal_check" => (timely => clock >= REVEAL_OPEN)
         /\ dup => timely /\ Accepted(h) /\ sub[h].payload = p
  <2>1. CASE CommitArrives(s, h, p)
    <3>1. CommitWindow(clock) \in BOOLEAN /\ (CommitWindow(clock) => clock < REVEAL_OPEN)
      BY DEF CommitWindow, RoundInv, TypeOK
    <3> QED
      BY <2>1, <3>1 DEF CommitArrives
  <2>2. CASE RevealArrives(s, h, p)
    <3>1. RevealWindow(clock) \in BOOLEAN /\ (RevealWindow(clock) => clock >= REVEAL_OPEN)
      BY DEF RevealWindow, RoundInv, TypeOK
    <3>2. (RevealWindow(clock) /\ Accepted(h) /\ sub[h].payload = p) \in BOOLEAN
      OBVIOUS
    <3> QED
      BY <2>2, <3>1, <3>2 DEF RevealArrives
  <2> QED
    BY <2>1, <2>2
<1> DEFINE r == [NoRequest EXCEPT !.pc = pc, !.hotkey = h, !.payload = p,
                                  !.timely = timely, !.dup = dup]
<1>2. /\ r \in Requests /\ r.pc = pc /\ r.hotkey = h /\ r.payload = p
      /\ r.timely = timely /\ r.dup = dup /\ r.accepted = FALSE
  BY DEF NoRequest, Requests, CommitPc
<1>3. /\ req' = [req EXCEPT ![s] = r] /\ round # "absent"
      /\ UNCHANGED <<clock, round, sub, snapshot, consensus, resolved, tick, acked>>
  BY <1>1 DEF Arrives, rows
<1> HIDE DEF r
<1>4. req \in [Slots -> Requests] /\ \A t \in Slots : InProgress(t)
  BY DEF RoundInv, TypeOK
<1>5. TypeOK'
  BY <1>2, <1>3 DEF RoundInv, TypeOK
<1>6. ASSUME NEW t \in Slots PROVE InProgress(t)'
  <2>1. CASE t = s
    <3>1. req'[s] = r
      BY <1>3, <1>4
    <3> QED
      BY <1>1, <1>2, <1>3, <2>1, <3>1
      DEF InProgress, Busy, CommitPc, RevealPc, Accepted
  <2>2. CASE t # s
    <3>1. req'[t] = req[t]
      BY <1>3, <1>4, <2>2
    <3> QED
      BY <1>3, <1>4, <3>1 DEF InProgress, Busy, Accepted
  <2> QED
    BY <2>1, <2>2
<1> QED
  BY <1>3, <1>5, <1>6 DEF RoundInv, NoRowIsEmpty, AcceptedOpensCommit, Accepted,
     OpenIsUnfrozen, ResolvingIsRevealed, MayResolve, FrozenSetAgrees,
     AcceptedBundles, ClosedIsResolved, AckedIsScored, ScoringBundles

\* The tick, the clock and a crash leave the submissions alone. The reveal takes
\* its snapshot and its consensus from the rows accepted at that very step.
LEMMA OtherKeepsInv ==
    ASSUME RoundInv, Tick \/ AdvanceClock \/ Crash
    PROVE  RoundInv'
<1> USE RoundAssumption
<1>1. TypeOK'
  BY OtherTypes DEF RoundInv
<1>2. UNCHANGED <<sub, acked>>
  BY DEF Tick, TickStarts, OpenActiveRound, Publish, PublishFails, AdvanceOneRound,
     PassOver, ResolveAndScore, ResolutionInterrupted, SettleRound,
     PublishConsensusAndReveal, AdvanceClock, Crash, rows
<1>3. NoRowIsEmpty' /\ AcceptedOpensCommit'
  BY <1>2 DEF RoundInv, NoRowIsEmpty, AcceptedOpensCommit, Accepted
<1>4. AcceptedBundles' = AcceptedBundles
  BY <1>2 DEF AcceptedBundles, Accepted
\* The round, its snapshot and its consensus.
<1>5. /\ OpenIsUnfrozen' /\ FrozenSetAgrees'
      /\ ResolvingIsRevealed' /\ ClosedIsResolved'
      /\ round # "absent" => round' # "absent"
  <2> USE DEF OpenIsUnfrozen, FrozenSetAgrees, ResolvingIsRevealed, ClosedIsResolved,
          MayResolve, PostReveal
  <2>1. /\ OpenIsUnfrozen /\ FrozenSetAgrees /\ ResolvingIsRevealed
        /\ ClosedIsResolved /\ resolved \subseteq Horizons /\ tick \in Ticks
        /\ round \in PostReveal \union {"absent", "open"}
    BY DEF RoundInv, TypeOK
  <2>2. ToResolve => tick'.pc = "resolve"
    BY <2>1 DEF ToResolve, Ticks
  <2>3. CASE Publish
    BY <1>4, <2>1, <2>2, <2>3 DEF Publish, PublishConsensusAndReveal, FlipRoundRevealed,
       SnapshotBundles, MustPublish
  <2>4. CASE OpenActiveRound
    <3>1. tick'.pc = "advance"
      BY <2>1, <2>4 DEF OpenActiveRound, Ticks
    <3>2. UNCHANGED <<snapshot, consensus, resolved>>
      BY <2>4 DEF OpenActiveRound
    <3>3. CASE round = "absent" /\ round' = "open"
      BY <2>1, <3>1, <3>2, <3>3
    <3>4. CASE UNCHANGED round
      BY <1>4, <2>1, <3>1, <3>2, <3>4
    <3> QED
      BY <2>4, <3>3, <3>4 DEF OpenActiveRound, OpenRound
  <2>5. CASE SettleRound
    <3>1. MayResolve /\ tick'.pc = "idle" /\ UNCHANGED <<consensus, resolved>>
      BY <2>1, <2>5 DEF SettleRound, NoTick
    <3>2. round' \in PostReveal /\ (round' = "closed" => resolved = Horizons)
      BY <2>1, <2>5, <3>1 DEF SettleRound, SetRoundState, MayClose
    <3>3. snapshot' = snapshot
      BY <2>5, <3>1 DEF SettleRound, SetRoundState, SnapshotBundles
    <3> QED
      BY <1>4, <2>1, <3>1, <3>2, <3>3
  <2>6. CASE AdvanceOneRound
    <3>1. UNCHANGED <<round, snapshot, consensus, resolved>>
      BY <2>6 DEF AdvanceOneRound, rows
    <3>2. tick'.pc = "resolve" => MayResolve
      BY <2>6 DEF AdvanceOneRound, NoTick
    <3> QED
      BY <1>4, <2>1, <3>1, <3>2
  <2>7. ASSUME NEW h \in Horizons, NEW o \in BOOLEAN,
               PassOver(h) \/ ResolveAndScore(h, o) \/ ResolutionInterrupted(h, o)
        PROVE  /\ UNCHANGED <<round, snapshot, consensus>> /\ MayResolve
    BY <2>1, <2>7 DEF PassOver, ResolveAndScore, ResolutionInterrupted,
       DueHorizon, NextHorizon, rows
  <2>8. CASE TickStarts \/ PublishFails \/ Crash
    <3>1. UNCHANGED <<round, snapshot, consensus, resolved>>
      BY <2>8 DEF TickStarts, PublishFails, Crash, rows
    <3>2. tick' \in {NoTick, [NoTick EXCEPT !.pc = "open", !.now = clock]}
      BY <2>8 DEF TickStarts, PublishFails, Crash
    <3>3. NoTick.pc # "resolve"
          /\ [NoTick EXCEPT !.pc = "open", !.now = clock].pc # "resolve"
      BY DEF NoTick
    <3> QED
      BY <1>4, <2>1, <3>1, <3>2, <3>3
  <2>9. CASE AdvanceClock
    BY <1>4, <2>1, <2>9 DEF AdvanceClock, rows
  <2>10. ASSUME UNCHANGED <<round, snapshot, consensus>>, MayResolve
         PROVE  /\ OpenIsUnfrozen' /\ FrozenSetAgrees'
                /\ ResolvingIsRevealed' /\ ClosedIsResolved'
                /\ round # "absent" => round' # "absent"
    BY <1>4, <2>1, <2>10
  <2> QED
    BY <2>3, <2>4, <2>5, <2>6, <2>7, <2>8, <2>9, <2>10 DEF Tick
<1>6. AckedIsScored'
  <2> SUFFICES ASSUME NEW a \in acked
               PROVE  /\ Accepted(a[1])' /\ sub'[a[1]].payload = a[2]
                      /\ ScoringBundles'[a[1]] = a[2]
    BY <1>2 DEF AckedIsScored
  <2>1. a[1] \in Hotkeys /\ Accepted(a[1])' /\ sub'[a[1]].payload = a[2]
    BY <1>2 DEF RoundInv, TypeOK, AckedIsScored, Accepted
  <2> QED
    BY <1>5, <2>1 DEF FrozenSetAgrees, ScoringBundles, AcceptedBundles, Accepted
\* No commit is still to be written when the clock reaches the reveals.
<1>7. ASSUME NEW s \in Slots PROVE InProgress(s)'
  <2>1. InProgress(s) /\ clock \in Nat
    BY DEF RoundInv, TypeOK
  <2>2. CASE Tick
    <3>1. req' = req /\ clock' = clock
      BY <2>2 DEF Tick, TickStarts, OpenActiveRound, Publish, PublishFails,
         AdvanceOneRound, PassOver, ResolveAndScore, ResolutionInterrupted,
         SettleRound, PublishConsensusAndReveal, rows
    <3> QED
      BY <1>2, <1>5, <2>1, <3>1 DEF InProgress, Busy, Accepted
  <2>3. CASE AdvanceClock
    <3>1. /\ req' = req /\ clock' = clock + 1 /\ round' = round
          /\ clock' = REVEAL_OPEN => req[s].pc \notin CommitPc
      BY <2>3 DEF AdvanceClock, rows
    <3> QED
      BY <1>2, <2>1, <3>1 DEF InProgress, Busy, Accepted
  <2>4. CASE Crash
    <3>1. req'[s] = NoRequest
      BY <2>4 DEF Crash
    <3> QED
      BY <3>1 DEF InProgress, Busy, NoRequest, CommitPc, RevealPc
  <2> QED
    BY <2>2, <2>3, <2>4
<1> QED
  BY <1>1, <1>3, <1>5, <1>6, <1>7 DEF RoundInv

\* Before the validator's first tick there is no round, no row and no request.
LEMMA InitInv == Init => RoundInv
<1> USE RoundAssumption
<1> SUFFICES ASSUME Init PROVE RoundInv
  OBVIOUS
<1>1. NoRow \in Rows /\ NoRequest \in Requests /\ NoTick \in Ticks
  BY DEF NoRow, Rows, NoRequest, Requests, NoTick, Ticks
<1>2. TypeOK
  BY <1>1 DEF Init, TypeOK, Nothing
<1>3. \A s \in Slots : InProgress(s)
  BY DEF Init, InProgress, Busy, NoRequest, CommitPc, RevealPc
<1>4. ResolvingIsRevealed
  BY DEF Init, ResolvingIsRevealed, NoTick
<1> QED
  BY <1>2, <1>3, <1>4 DEF Init, RoundInv, NoRowIsEmpty, NoRow, AcceptedOpensCommit,
     Accepted, OpenIsUnfrozen, FrozenSetAgrees, ClosedIsResolved, AckedIsScored,
     PostReveal

\* The inductive step over every action, and over stuttering.
LEMMA StepInv == RoundInv /\ [Next]_vars => RoundInv'
<1> SUFFICES ASSUME RoundInv, [Next]_vars PROVE RoundInv'
  OBVIOUS
<1>1. CASE UNCHANGED vars
  BY <1>1 DEF vars, RoundInv, TypeOK, NoRowIsEmpty, AcceptedOpensCommit, Accepted,
     InProgress, Busy, OpenIsUnfrozen, ResolvingIsRevealed, MayResolve,
     FrozenSetAgrees, AcceptedBundles, ClosedIsResolved, AckedIsScored, ScoringBundles
<1> QED
  BY <1>1, RequestKeepsInv, ArrivalKeepsInv, OtherKeepsInv DEF Next, RoundStep

-----------------------------------------------------------------------------
(***************************************************************************)
(* Theorems.                                                                *)
(***************************************************************************)
\* The inductive invariant, of which the state properties are conjuncts.
THEOREM RoundInvariant == Spec => []RoundInv
<1> QED
  BY InitInv, StepInv, PTL DEF Spec

\* However requests overlap, no admission counter passes its cap.
THEOREM TypeCorrect == Spec => []TypeOK
<1>1. RoundInv => TypeOK
  BY DEF RoundInv
<1> QED
  BY <1>1, RoundInvariant, PTL

\* A reveal the axon answered as accepted is the one the round scores, although
\* handler and close interleave at every storage call.
THEOREM AcknowledgedIsScored == Spec => []AckedIsScored
<1>1. RoundInv => AckedIsScored
  BY DEF RoundInv
<1> QED
  BY <1>1, RoundInvariant, PTL

\* The set that is scored, the set that is eligible and the set the published
\* consensus was computed from are the same after the close.
THEOREM ClosureFreezesOneSet == Spec => []FrozenSetAgrees
<1>1. RoundInv => FrozenSetAgrees
  BY DEF RoundInv
<1> QED
  BY <1>1, RoundInvariant, PTL

\* Every accepted forecast opens the hash its miner committed to.
THEOREM AcceptedForecastsOpen == Spec => []AcceptedOpensCommit
<1>1. RoundInv => AcceptedOpensCommit
  BY DEF RoundInv
<1> QED
  BY <1>1, RoundInvariant, PTL

\* The re-push of an accepted reveal is acknowledged even across the close.
THEOREM RetriesAreAcknowledged == Spec => []RetryIsAcknowledged
<1>1. RoundInv => RetryIsAcknowledged
  BY DEF RoundInv, InProgress, RetryIsAcknowledged
<1> QED
  BY <1>1, RoundInvariant, PTL

\* No round closes before each of its horizons left its marker.
THEOREM ClosureIsComplete == Spec => []ClosedIsResolved
<1>1. RoundInv => ClosedIsResolved
  BY DEF RoundInv
<1> QED
  BY <1>1, RoundInvariant, PTL

\* The only writers of the rows are requests, and a closed round refuses them.
LEMMA AdmissionStep ==
    ASSUME RoundInv, [Next]_vars
    PROVE  /\ round \in PostReveal => sub' = sub
           /\ clock >= REVEAL_OPEN => \A h \in Hotkeys : sub'[h].hash = sub[h].hash
<1>1. CASE \E s \in Slots : RequestStep(s)
  BY <1>1, SubmissionWrites
<1>2. CASE ~\E s \in Slots : RequestStep(s)
  BY <1>2 DEF Next, RoundStep, vars, rows, CommitArrives, RevealArrives, Arrives, Tick,
     TickStarts, OpenActiveRound, Publish, PublishFails, AdvanceOneRound, PassOver,
     ResolveAndScore, ResolutionInterrupted, SettleRound, AdvanceClock, Crash
<1> QED
  BY <1>1, <1>2

\* Closing freezes admission, and no commitment moves once reveals are open.
THEOREM AdmissionIsFrozen == Spec => AdmissionFrozen /\ CommitsPrecedeReveals
<1>1. RoundInv /\ [Next]_vars =>
        /\ [(round \in PostReveal) => (UNCHANGED sub)]_vars
        /\ [(clock >= REVEAL_OPEN)
              => (\A h \in Hotkeys : sub'[h].hash = sub[h].hash)]_vars
  BY AdmissionStep
<1> QED
  BY <1>1, RoundInvariant, PTL DEF Spec, AdmissionFrozen, CommitsPrecedeReveals

-----------------------------------------------------------------------------
(***************************************************************************)
(* PublicReads, from the invariant of RoundLifecycle.                      *)
(***************************************************************************)
RoundIds == {0} \union Rounds
FeedPcs == {"feed", "tiers", "outcomes"}
Pcs == {"idle", "meta", "gate", "rows", "progress", "classify"} \union FeedPcs

-----------------------------------------------------------------------------
(***************************************************************************)
(* The inductive invariant, beside RoundInv.                               *)
(***************************************************************************)
\* A request's clock has been read; a feed names rounds on record.
ReaderTypes ==
    /\ DOMAIN reader = DOMAIN NoReader
    /\ reader.kind \in {"meta", "feed", "progress"} /\ reader.pc \in Pcs
    /\ reader.now \in Nat /\ reader.now <= clock
    /\ reader.latest \in RoundIds /\ feed.latest \in RoundIds
    /\ \A n \in Netuids : reader.tiers[n] \in RoundIds /\ feed.tiers[n] \in RoundIds

\* The embargo is lifted: the round is closed for good and the next round's
\* commitments are in.
Lifted == round \in PostReveal /\ clock > AvailableAt(LIVE)

\* What a request carries from an earlier query is still what it would read, and
\* what it goes on to disclose is under no embargo any more.
GateIsCurrent ==
    reader.pc = "gate" /\ reader.stage \in PostReveal =>
      round \in PostReveal /\ reader.bundles = snapshot
RowsAreLifted == reader.pc = "rows" => Lifted
FeedIsLifted ==
    reader.pc \in {"tiers", "outcomes"} /\ reader.bundles # Nothing =>
      Lifted /\ reader.bundles = snapshot
DisclosedIsLifted == disclosed # {} => Lifted /\ disclosed = {snapshot}

\* Every horizon not yet resolved was pending when the progress was read.
ProgressIsSafe ==
    reader.pc = "classify" /\ reader.stage # "absent" =>
      Horizons \ resolved \subseteq reader.pending

\* A round the feed named at one time is one it may name at every later time.
Named(r, now) == r = 0 \/ (r \in Rounds /\ PostEmbargo(r, now) /\ ConsensusOf(r) # Nothing)
TierNamed(n, r, now) == r = 0 \/ (r \in Rounds /\ PostEmbargo(r, now) /\ HasEveryOutcome(r, n))
FeedStands ==
    \A t \in {clock} \union (IF reader.pc \in FeedPcs THEN {reader.now} ELSE {}) :
      /\ Named(feed.latest, t)
      /\ \A n \in Netuids : TierNamed(n, feed.tiers[n], t)
AnswerStands ==
    /\ reader.pc \in {"tiers", "outcomes"} =>
         Named(reader.latest, reader.now) /\ reader.latest >= feed.latest
    /\ reader.pc = "outcomes" =>
         \A n \in Netuids : /\ TierNamed(n, reader.tiers[n], reader.now)
                            /\ reader.tiers[n] >= feed.tiers[n]

PublicInv ==
    /\ RoundInv
    /\ targets \in [Universe[LIVE] -> [TierOutputs -> Statuses]]
    /\ ReaderTypes
    /\ GateIsCurrent /\ RowsAreLifted /\ FeedIsLifted /\ DisclosedIsLifted
    /\ ProgressIsSafe /\ HealthIsNotFalse
    /\ FeedStands /\ AnswerStands

-----------------------------------------------------------------------------
(***************************************************************************)
(* What the round does while it is read.                                   *)
(***************************************************************************)
\* Time goes on; a round past its reveals keeps its forecasts and its consensus,
\* and a horizon that is resolved stays so.
LEMMA RoundMoves ==
    ASSUME RoundInv, [Next]_vars
    PROVE  /\ RoundInv'
           /\ clock \in Nat /\ clock' \in Nat /\ clock <= clock'
           /\ resolved \subseteq resolved'
           /\ round \in PostReveal =>
                round' \in PostReveal /\ snapshot' = snapshot /\ consensus' = consensus
<1>1. RoundInv'
  BY StepInv
<1>2. clock \in Nat
  BY DEF RoundInv, TypeOK
<1>3. /\ clock' = clock \/ clock' = clock + 1
      /\ resolved \subseteq resolved'
      /\ round' = round \/ round' \in PostReveal \/ round = "absent"
  <2>1. ASSUME NEW s \in Slots, RequestStep(s) PROVE UNCHANGED <<clock, resolved, round>>
    BY <2>1 DEF RequestStep, CommitChecked, CommitRecorded, RevealChecked, RevealCharged,
       RevealReread, RevealClassified, RevealRecorded, RevealConfirmed, rows
  <2>2. ASSUME NEW s \in Slots, NEW h \in Hotkeys, NEW p \in Payloads,
               CommitArrives(s, h, p) \/ RevealArrives(s, h, p)
        PROVE  UNCHANGED <<clock, resolved, round>>
    BY <2>2 DEF CommitArrives, RevealArrives, Arrives, rows
  <2>3. CASE TickStarts \/ PublishFails \/ AdvanceOneRound
    BY <2>3 DEF TickStarts, PublishFails, AdvanceOneRound, rows
  <2>4. CASE OpenActiveRound \/ Publish
    BY <2>4 DEF OpenActiveRound, OpenRound, Publish, PublishConsensusAndReveal,
       FlipRoundRevealed, PostReveal
  <2>5. ASSUME NEW h \in Horizons, NEW o \in BOOLEAN,
               PassOver(h) \/ ResolveAndScore(h, o) \/ ResolutionInterrupted(h, o)
        PROVE  clock' = clock /\ resolved \subseteq resolved' /\ round' = round
    BY <2>5 DEF PassOver, ResolveAndScore, ResolutionInterrupted, rows
  <2>6. CASE SettleRound
    BY <2>6 DEF SettleRound, SetRoundState, PostReveal
  <2>7. CASE AdvanceClock \/ Crash \/ UNCHANGED vars
    BY <2>7 DEF AdvanceClock, Crash, vars, rows
  <2> QED
    BY <2>1, <2>2, <2>3, <2>4, <2>5, <2>6, <2>7 DEF Next, RoundStep, Tick
<1>4. round \in PostReveal => round' \in PostReveal
  BY <1>3 DEF PostReveal
<1>5. round \in PostReveal => snapshot' = snapshot /\ consensus' = consensus
  <2> SUFFICES ASSUME round \in PostReveal
               PROVE  snapshot' = snapshot /\ consensus' = consensus
    OBVIOUS
  <2>1. sub' = sub /\ round' \in PostReveal
    BY <1>4, AdmissionStep
  <2>2. AcceptedBundles' = AcceptedBundles
    BY <2>1 DEF AcceptedBundles, Accepted
  <2>3. snapshot = AcceptedBundles /\ consensus = AcceptedBundles
    BY DEF RoundInv, FrozenSetAgrees
  <2>4. snapshot' = AcceptedBundles' /\ consensus' = AcceptedBundles'
    BY <1>1, <2>1 DEF RoundInv, FrozenSetAgrees
  <2> QED
    BY <2>2, <2>3, <2>4
<1> QED
  BY <1>1, <1>2, <1>3, <1>4, <1>5

\* Outcomes on record are never replaced.
OutcomesStay ==
    /\ targets' \in [Universe[LIVE] -> [TierOutputs -> Statuses]]
    /\ \A n \in Universe[LIVE], o \in TierOutputs :
         targets[n][o] = "resolved" => targets'[n][o] = "resolved"

\* A round the feed may name at one time it may name at every later one.
LEMMA Stands ==
    ASSUME RoundInv, [Next]_vars, OutcomesStay,
           NEW r \in RoundIds, NEW now \in Nat, NEW later \in Nat, now <= later
    PROVE  /\ Named(r, now) => Named(r, later)'
           /\ \A n \in Netuids : TierNamed(n, r, now) => TierNamed(n, r, later)'
<1> USE RoundMoves
<1>1. FIRST # LIVE /\ FIRST # 0 /\ LIVE # 0 /\ (r = 0 \/ r = FIRST \/ r = LIVE)
  BY DEF FIRST, LIVE, RoundIds, Rounds
<1>2. AvailableAt(FIRST) \in Nat /\ AvailableAt(LIVE) \in Nat
  BY RoundAssumption, PublicAssumption DEF AvailableAt
<1>3. PostEmbargo(r, now) /\ r # 0 => PostEmbargo(r, later)'
  BY <1>1, <1>2 DEF PostEmbargo, StateOf, AvailableAt
<1>4. PostEmbargo(r, now) /\ r # 0 => ConsensusOf(r)' = ConsensusOf(r)
  BY <1>1 DEF PostEmbargo, StateOf, ConsensusOf
<1>5. Named(r, now) => Named(r, later)'
  BY <1>1, <1>3, <1>4 DEF Named
<1>6. ASSUME NEW n \in Netuids, TierNamed(n, r, now), r # 0
      PROVE  HasEveryOutcome(r, n)'
  <2>1. PostEmbargo(r, now) /\ HasEveryOutcome(r, n)
    BY <1>6 DEF TierNamed
  <2>2. ConsensusOf(r)' = ConsensusOf(r)
    BY <1>4, <1>6, <2>1
  <2>3. PICK b : b = ConsensusOf(r)
    OBVIOUS
  <2>4. Forecasters(b, n) # {} /\ n \in Universe[r]
    BY <2>1, <2>3 DEF HasEveryOutcome
  <2>5. \A o \in TierOutputs : TargetsOf(r)[n][o] = "resolved" => TargetsOf(r)'[n][o] = "resolved"
    BY <1>1, <1>6, <2>4 DEF OutcomesStay, TargetsOf
  <2> QED
    BY <2>1, <2>2, <2>3, <2>4, <2>5 DEF HasEveryOutcome, Forecasters
<1>7. \A n \in Netuids : TierNamed(n, r, now) => TierNamed(n, r, later)'
  BY <1>1, <1>3, <1>6 DEF TierNamed
<1> QED
  BY <1>5, <1>7

\* The same at the two times FeedStands speaks of.
LEMMA FeedKeepsStanding ==
    ASSUME PublicInv, [Next]_vars, OutcomesStay, feed' = feed,
           reader'.pc \in FeedPcs =>
             reader'.now = clock \/ (reader.pc \in FeedPcs /\ reader'.now = reader.now)
    PROVE  FeedStands'
<1>1. /\ clock \in Nat /\ clock' \in Nat /\ clock <= clock' /\ reader.now \in Nat
      /\ feed.latest \in RoundIds /\ \A n \in Netuids : feed.tiers[n] \in RoundIds
  BY RoundMoves DEF PublicInv, ReaderTypes
<1> DEFINE times == {clock} \union (IF reader.pc \in FeedPcs THEN {reader.now} ELSE {})
<1>2. ASSUME NEW t \in {clock'} \union (IF reader'.pc \in FeedPcs THEN {reader'.now} ELSE {})
      PROVE  t \in Nat /\ \E u \in times : u \in Nat /\ u <= t
  BY <1>1
<1>3. \A u \in times : /\ Named(feed.latest, u)
                       /\ \A n \in Netuids : TierNamed(n, feed.tiers[n], u)
  BY DEF PublicInv, FeedStands
<1> HIDE DEF times
<1>4. ASSUME NEW t \in {clock'} \union (IF reader'.pc \in FeedPcs THEN {reader'.now} ELSE {})
      PROVE  Named(feed.latest, t)' /\ \A n \in Netuids : TierNamed(n, feed.tiers[n], t)'
  <2>1. PICK u \in times : u \in Nat /\ u <= t
    BY <1>2
  <2>2. t \in Nat
    BY <1>2
  <2>3. PICK r \in RoundIds : r = feed.latest
    BY <1>1
  <2>4. Named(r, t)'
    BY <1>3, <2>1, <2>2, <2>3, Stands DEF PublicInv
  <2>5. feed'.latest = r
    BY <2>3
  <2>6. ASSUME NEW n \in Netuids PROVE TierNamed(n, feed.tiers[n], t)'
    <3>1. PICK q \in RoundIds : q = feed.tiers[n]
      BY <1>1
    <3>2. TierNamed(n, q, t)'
      BY <1>3, <2>1, <2>2, <3>1, Stands DEF PublicInv
    <3>3. feed'.tiers[n] = q
      BY <3>1
    <3> QED
      BY <3>2, <3>3 DEF TierNamed
  <2> QED
    BY <2>4, <2>5, <2>6 DEF Named
<1> QED
  BY <1>4 DEF FeedStands

-----------------------------------------------------------------------------
(***************************************************************************)
(* The round beside a waiting request, and the end of a request.           *)
(***************************************************************************)
LEMMA IdleReader ==
    /\ DOMAIN Idle = DOMAIN NoReader
    /\ Idle.kind = reader.kind /\ Idle.pc = "idle" /\ Idle.now = 0 /\ Idle.latest = 0
    /\ \A n \in Netuids : Idle.tiers[n] = 0
    /\ 0 \in RoundIds
  BY DEF Idle, NoReader, NoTiers, RoundIds

LEMMA ReadsWait ==
    ASSUME PublicInv, [Next]_vars, OutcomesStay, UNCHANGED <<disclosed, feed, health>>,
           reader' = reader \/ reader' = Idle
    PROVE  PublicInv'
<1> USE RoundMoves DEF PublicInv
<1>1. /\ clock \in Nat /\ clock' \in Nat /\ clock <= clock' /\ resolved \subseteq resolved'
      /\ AvailableAt(LIVE) \in Nat
  BY RoundAssumption, PublicAssumption DEF AvailableAt
<1>2. Lifted => Lifted' /\ snapshot' = snapshot
  BY <1>1 DEF Lifted, AvailableAt
<1>3. reader'.pc \in FeedPcs => reader.pc \in FeedPcs /\ reader'.now = reader.now
  BY IdleReader DEF FeedPcs
<1>4. FeedStands'
  BY <1>3, FeedKeepsStanding
<1>5. CASE reader' = reader
  <2>1. ReaderTypes'
    BY <1>1, <1>5 DEF ReaderTypes
  <2>2. GateIsCurrent' /\ RowsAreLifted' /\ FeedIsLifted' /\ DisclosedIsLifted'
    BY <1>2, <1>5 DEF GateIsCurrent, RowsAreLifted, FeedIsLifted, DisclosedIsLifted
  <2>3. ProgressIsSafe' /\ HealthIsNotFalse'
    BY <1>1, <1>5 DEF ProgressIsSafe, HealthIsNotFalse
  <2>4. AnswerStands'
    <3>1. reader.now \in Nat /\ reader.latest \in RoundIds
          /\ \A n \in Netuids : reader.tiers[n] \in RoundIds
      BY DEF ReaderTypes
    <3>2. PICK now \in Nat, l \in RoundIds : now = reader.now /\ l = reader.latest
      BY <3>1
    <3>3. now <= now
      OBVIOUS
    <3>4. Named(l, now) => Named(l, now)'
      BY <3>3, Stands
    <3>5. \A n \in Netuids : TierNamed(n, reader.tiers[n], now) => TierNamed(n, reader.tiers[n], now)'
      <4> SUFFICES ASSUME NEW n \in Netuids, TierNamed(n, reader.tiers[n], now)
                   PROVE  TierNamed(n, reader.tiers[n], now)'
        OBVIOUS
      <4>1. PICK q \in RoundIds : q = reader.tiers[n]
        BY <3>1
      <4>2. TierNamed(n, q, now)'
        BY <3>3, <4>1, Stands
      <4> QED
        BY <1>5, <4>1, <4>2 DEF TierNamed
    <3>6. /\ reader.pc \in {"tiers", "outcomes"} => Named(l, now) /\ l >= feed.latest
          /\ reader.pc = "outcomes" =>
               \A n \in Netuids : TierNamed(n, reader.tiers[n], now) /\ reader.tiers[n] >= feed.tiers[n]
      BY <3>2 DEF AnswerStands
    <3>7. reader'.latest = l /\ reader'.now = now /\ reader' = reader /\ feed' = feed
      BY <1>5, <3>2
    <3>8. /\ reader'.pc \in {"tiers", "outcomes"} => Named(l, now)' /\ l >= feed'.latest
          /\ reader'.pc = "outcomes" =>
               \A n \in Netuids : TierNamed(n, reader.tiers[n], now)' /\ reader'.tiers[n] >= feed'.tiers[n]
      BY <3>4, <3>5, <3>6, <3>7
    <3> QED
      BY <3>7, <3>8 DEF AnswerStands, Named, TierNamed
  <2> QED
    BY <1>4, <2>1, <2>2, <2>3, <2>4 DEF OutcomesStay
<1>6. CASE reader' = Idle
  <2>1. ReaderTypes'
    BY <1>1, <1>6, IdleReader DEF ReaderTypes, Pcs
  <2>2. GateIsCurrent' /\ RowsAreLifted' /\ FeedIsLifted' /\ AnswerStands'
    BY <1>6, IdleReader DEF GateIsCurrent, RowsAreLifted, FeedIsLifted, AnswerStands
  <2>3. DisclosedIsLifted' /\ ProgressIsSafe' /\ HealthIsNotFalse'
    BY <1>1, <1>2, <1>6, IdleReader DEF DisclosedIsLifted, ProgressIsSafe, HealthIsNotFalse
  <2> QED
    BY <1>4, <2>1, <2>2, <2>3 DEF OutcomesStay
<1> QED
  BY <1>5, <1>6

\* A query or an answer leaves the round alone.
LEMMA Undisturbed ==
    ASSUME PublicInv, UNCHANGED <<vars, targets>>
    PROVE  /\ [Next]_vars /\ OutcomesStay /\ RoundInv' /\ clock \in Nat
           /\ targets' \in [Universe[LIVE] -> [TierOutputs -> Statuses]]
           /\ clock' = clock /\ round' = round /\ snapshot' = snapshot /\ resolved' = resolved
           /\ consensus' = consensus /\ Lifted' = Lifted
<1>1. [Next]_vars
  OBVIOUS
<1>2. OutcomesStay
  BY DEF PublicInv, OutcomesStay
<1>3. RoundInv' /\ clock \in Nat
  BY <1>1, RoundMoves DEF PublicInv
<1>4. UNCHANGED <<clock, round, snapshot, resolved, consensus>>
  BY DEF vars
<1> QED
  BY <1>1, <1>2, <1>3, <1>4 DEF OutcomesStay, Lifted, AvailableAt

LEMMA RequestEnds ==
    ASSUME PublicInv, UNCHANGED <<vars, targets>>, reader' = Idle,
           DisclosedIsLifted', HealthIsNotFalse', FeedStands',
           feed'.latest \in RoundIds, \A n \in Netuids : feed'.tiers[n] \in RoundIds
    PROVE  PublicInv'
<1>1. ReaderTypes'
  BY Undisturbed, IdleReader DEF PublicInv, ReaderTypes, Pcs
<1>2. GateIsCurrent' /\ RowsAreLifted' /\ FeedIsLifted' /\ AnswerStands' /\ ProgressIsSafe'
  BY IdleReader DEF GateIsCurrent, RowsAreLifted, FeedIsLifted, AnswerStands, ProgressIsSafe
<1> QED
  BY <1>1, <1>2, Undisturbed DEF PublicInv

-----------------------------------------------------------------------------
(***************************************************************************)
(* The endpoints of one round, and /health.                                *)
(***************************************************************************)
LEMMA AsksKeeps ==
    ASSUME PublicInv, UNCHANGED <<vars, targets>>, Asks
    PROVE  PublicInv'
<1> USE DEF PublicInv
<1>1. /\ reader' = [Goes(reader.kind) EXCEPT !.now = IF reader.kind = "feed" THEN clock ELSE 0]
      /\ UNCHANGED <<disclosed, feed, health>>
      /\ reader.kind \in {"meta", "feed", "progress"}
  BY DEF Asks, ReaderTypes
<1>2. /\ DOMAIN reader' = DOMAIN NoReader
      /\ reader'.kind = reader.kind /\ reader'.pc = reader.kind
      /\ reader'.now = (IF reader.kind = "feed" THEN clock ELSE 0)
      /\ reader'.latest = 0 /\ \A n \in Netuids : reader'.tiers[n] = 0
  BY <1>1 DEF Goes, Idle, NoReader, NoTiers
<1>3. ReaderTypes'
  BY <1>1, <1>2, Undisturbed, IdleReader DEF ReaderTypes, Pcs, FeedPcs
<1>4. GateIsCurrent' /\ RowsAreLifted' /\ FeedIsLifted' /\ AnswerStands' /\ ProgressIsSafe'
  BY <1>1, <1>2 DEF GateIsCurrent, RowsAreLifted, FeedIsLifted, AnswerStands, ProgressIsSafe
<1>5. DisclosedIsLifted' /\ HealthIsNotFalse'
  BY <1>1, Undisturbed DEF DisclosedIsLifted, HealthIsNotFalse
<1>6. reader'.pc \in FeedPcs => reader'.now = clock
  BY <1>1, <1>2 DEF FeedPcs
<1>7. FeedStands'
  BY <1>1, <1>6, Undisturbed, FeedKeepsStanding
<1> QED
  BY <1>3, <1>4, <1>5, <1>7, Undisturbed

\* A step to a request that has read no clock and named no round.
LEMMA RequestGoesOn ==
    ASSUME PublicInv, UNCHANGED <<vars, targets, disclosed, feed, health>>,
           DOMAIN reader' = DOMAIN NoReader, reader'.kind = reader.kind, reader'.now = 0, reader'.latest = 0,
           \A n \in Netuids : reader'.tiers[n] = 0,
           reader'.pc \in {"gate", "rows", "classify"},
           GateIsCurrent', RowsAreLifted', ProgressIsSafe'
    PROVE  PublicInv'
<1> USE DEF PublicInv
<1>1. ReaderTypes'
  BY Undisturbed, IdleReader DEF ReaderTypes, Pcs
<1>2. FeedIsLifted' /\ AnswerStands'
  BY DEF FeedIsLifted, AnswerStands
<1>3. DisclosedIsLifted' /\ HealthIsNotFalse'
  BY Undisturbed DEF DisclosedIsLifted, HealthIsNotFalse
<1>4. reader'.pc \notin FeedPcs
  BY DEF FeedPcs
<1>5. FeedStands'
  BY <1>4, Undisturbed, FeedKeepsStanding
<1> QED
  BY <1>1, <1>2, <1>3, <1>5, Undisturbed

LEMMA RoundMetaKeeps ==
    ASSUME PublicInv, UNCHANGED <<vars, targets>>, RoundMeta
    PROVE  PublicInv'
<1> USE DEF PublicInv
<1>1. UNCHANGED <<disclosed, feed, health>>
  BY DEF RoundMeta
<1>2. CASE round = "absent"
  <2>1. reader' = Idle
    BY <1>2 DEF RoundMeta
  <2> QED
    BY <1>1, <2>1, Undisturbed, ReadsWait
<1>3. CASE round # "absent"
  <2>1. reader' = [Goes("gate") EXCEPT !.stage = round, !.bundles = AcceptedBundles]
    BY <1>3 DEF RoundMeta
  <2>2. /\ DOMAIN reader' = DOMAIN NoReader
        /\ reader'.kind = reader.kind /\ reader'.pc = "gate" /\ reader'.now = 0
        /\ reader'.latest = 0 /\ \A n \in Netuids : reader'.tiers[n] = 0
        /\ reader'.stage = round /\ reader'.bundles = AcceptedBundles
    BY <2>1 DEF Goes, Idle, NoReader, NoTiers
  <2>3. GateIsCurrent'
    BY <2>2, Undisturbed DEF GateIsCurrent, RoundInv, FrozenSetAgrees
  <2>4. RowsAreLifted' /\ ProgressIsSafe'
    BY <2>2 DEF RowsAreLifted, ProgressIsSafe
  <2> QED
    BY <1>1, <2>2, <2>3, <2>4, RequestGoesOn
<1> QED
  BY <1>2, <1>3

\* What passes the gate now was closed when the row was read.
LEMMA GateLifts ==
    ASSUME PublicInv, reader.pc = "gate", EmbargoLifted(reader.stage)
    PROVE  Lifted /\ reader.bundles = snapshot
  BY DEF PublicInv, GateIsCurrent, EmbargoLifted, Lifted

LEMMA AnswerMetaKeeps ==
    ASSUME PublicInv, UNCHANGED <<vars, targets>>, AnswerMeta \/ AnswerRows
    PROVE  PublicInv'
<1> USE DEF PublicInv
<1>1. reader' = Idle /\ UNCHANGED <<feed, health>>
  BY DEF AnswerMeta, AnswerRows, Ends
<1>2. disclosed' = disclosed \/ (Lifted /\ disclosed' = disclosed \union {snapshot})
  <2>1. CASE AnswerMeta
    BY <2>1, GateLifts DEF AnswerMeta
  <2>2. CASE AnswerRows
    <3>1. Lifted
      BY <2>2 DEF AnswerRows, RowsAreLifted
    <3>2. AcceptedBundles = snapshot /\ consensus = snapshot
      BY <3>1 DEF Lifted, RoundInv, FrozenSetAgrees
    <3> QED
      BY <2>2, <3>1, <3>2 DEF AnswerRows
  <2> QED
    BY <2>1, <2>2
<1>3. DisclosedIsLifted'
  BY <1>2, Undisturbed DEF DisclosedIsLifted
<1>4. HealthIsNotFalse'
  BY <1>1, Undisturbed DEF HealthIsNotFalse
<1>5. reader'.pc \notin FeedPcs
  BY <1>1, IdleReader DEF FeedPcs
<1>6. FeedStands'
  BY <1>1, <1>5, Undisturbed, FeedKeepsStanding
<1>7. feed'.latest \in RoundIds /\ \A n \in Netuids : feed'.tiers[n] \in RoundIds
  BY <1>1 DEF ReaderTypes
<1> QED
  BY <1>1, <1>3, <1>4, <1>6, <1>7, RequestEnds

LEMMA PassGateKeeps ==
    ASSUME PublicInv, UNCHANGED <<vars, targets>>, PassGate
    PROVE  PublicInv'
<1>1. reader.pc = "gate" /\ UNCHANGED <<disclosed, feed, health>>
  BY DEF PassGate
<1>2. CASE EmbargoLifted(reader.stage)
  <2>1. reader' = Goes("rows")
    BY <1>2 DEF PassGate
  <2>2. /\ DOMAIN reader' = DOMAIN NoReader
        /\ reader'.kind = reader.kind /\ reader'.pc = "rows" /\ reader'.now = 0
        /\ reader'.latest = 0 /\ \A n \in Netuids : reader'.tiers[n] = 0
    BY <2>1 DEF Goes, Idle, NoReader, NoTiers
  <2>3. GateIsCurrent' /\ ProgressIsSafe'
    BY <2>2 DEF GateIsCurrent, ProgressIsSafe
  <2>4. RowsAreLifted'
    BY <1>1, <1>2, GateLifts, Undisturbed DEF RowsAreLifted
  <2> QED
    BY <1>1, <2>2, <2>3, <2>4, RequestGoesOn
<1>3. CASE ~EmbargoLifted(reader.stage)
  <2>1. reader' = Idle
    BY <1>3 DEF PassGate, Ends
  <2> QED
    BY <1>1, <2>1, Undisturbed, ReadsWait
<1> QED
  BY <1>2, <1>3

\* The pending horizons of an unfinished round, or none because all are resolved.
LEMMA HealthProgressKeeps ==
    ASSUME PublicInv, UNCHANGED <<vars, targets>>, HealthProgress
    PROVE  PublicInv'
<1>1. /\ reader' = [Goes("classify") EXCEPT !.stage = round,
                      !.pending = IF Unfinished THEN Horizons \ resolved ELSE {}]
      /\ UNCHANGED <<disclosed, feed, health>>
  BY DEF HealthProgress
<1>2. /\ DOMAIN reader' = DOMAIN NoReader
      /\ reader'.kind = reader.kind /\ reader'.pc = "classify" /\ reader'.now = 0
      /\ reader'.latest = 0 /\ \A n \in Netuids : reader'.tiers[n] = 0
      /\ reader'.stage = round
      /\ reader'.pending = (IF Unfinished THEN Horizons \ resolved ELSE {})
  BY <1>1 DEF Goes, Idle, NoReader, NoTiers
<1>3. round = "closed" => resolved = Horizons
  BY DEF PublicInv, RoundInv, ClosedIsResolved
<1>4. ProgressIsSafe'
  BY <1>2, <1>3, Undisturbed DEF ProgressIsSafe, Unfinished
<1>5. GateIsCurrent' /\ RowsAreLifted'
  BY <1>2 DEF GateIsCurrent, RowsAreLifted
<1> QED
  BY <1>1, <1>2, <1>4, <1>5, RequestGoesOn

LEMMA AnswerHealthKeeps ==
    ASSUME PublicInv, UNCHANGED <<vars, targets>>, AnswerHealth
    PROVE  PublicInv'
<1> USE DEF PublicInv
<1> DEFINE due == {h \in Horizons : clock > DueAt(h) + GRACE}
<1>1. /\ reader.pc = "classify" /\ reader' = Idle /\ UNCHANGED <<disclosed, feed>>
      /\ health' = IF reader.stage = "absent" \/ reader.pending \intersect due # {}
                   THEN {} ELSE due
  BY DEF AnswerHealth, Ends
<1>2. due \subseteq Horizons
  OBVIOUS
<1> HIDE DEF due
<1>3. reader.stage # "absent" => Horizons \ resolved \subseteq reader.pending
  BY <1>1 DEF ProgressIsSafe
<1>4. health' \subseteq resolved
  BY <1>1, <1>2, <1>3
<1>5. HealthIsNotFalse'
  BY <1>4, Undisturbed DEF HealthIsNotFalse
<1>6. DisclosedIsLifted'
  BY <1>1, Undisturbed DEF DisclosedIsLifted
<1>7. reader'.pc \notin FeedPcs
  BY <1>1, IdleReader DEF FeedPcs
<1>8. FeedStands'
  BY <1>1, <1>7, Undisturbed, FeedKeepsStanding
<1>9. feed'.latest \in RoundIds /\ \A n \in Netuids : feed'.tiers[n] \in RoundIds
  BY <1>1 DEF ReaderTypes
<1> QED
  BY <1>1, <1>5, <1>6, <1>8, <1>9, RequestEnds

-----------------------------------------------------------------------------
(***************************************************************************)
(* The feed.                                                               *)
(***************************************************************************)
LEMMA MaxOfRounds ==
    ASSUME NEW S \in SUBSET RoundIds, 0 \in S
    PROVE  Max(S) \in S /\ \A r \in S : Max(S) >= r
<1>1. \A r \in S : r \in {0, 1, 2}
  BY DEF RoundIds, Rounds, FIRST, LIVE
<1>2. \E x \in S : \A r \in S : x >= r
  <2>1. CASE 2 \in S
    BY <1>1, <2>1
  <2>2. CASE 2 \notin S /\ 1 \in S
    BY <1>1, <2>2
  <2>3. CASE 2 \notin S /\ 1 \notin S
    BY <1>1, <2>3
  <2> QED
    BY <2>1, <2>2, <2>3
<1> QED
  BY <1>2 DEF Max

\* Either query answers with the newest round it may name.
LEMMA NewestNamed ==
    ASSUME NEW now
    PROVE  /\ LET r == LatestConsensusRound(now) IN
                /\ r \in RoundIds /\ Named(r, now)
                /\ \A q \in RoundIds : Named(q, now) => r >= q
           /\ \A n \in Netuids :
                LET r == LatestTierRound(n, now) IN
                /\ r \in RoundIds /\ TierNamed(n, r, now)
                /\ \A q \in RoundIds : TierNamed(n, q, now) => r >= q
<1>1. LET r == LatestConsensusRound(now) IN
        /\ r \in RoundIds /\ Named(r, now)
        /\ \A q \in RoundIds : Named(q, now) => r >= q
  <2> DEFINE S == {0} \union {r \in Rounds : PostEmbargo(r, now) /\ ConsensusOf(r) # Nothing}
  <2>1. S \in SUBSET RoundIds /\ 0 \in S
    BY DEF RoundIds
  <2>2. \A q \in RoundIds : q \in S <=> Named(q, now)
    BY DEF RoundIds, Named
  <2>3. LatestConsensusRound(now) = Max(S)
    BY DEF LatestConsensusRound
  <2> HIDE DEF S
  <2>4. Max(S) \in S /\ \A r \in S : Max(S) >= r
    BY <2>1, MaxOfRounds
  <2> QED
    BY <2>1, <2>2, <2>3, <2>4
<1>2. ASSUME NEW n \in Netuids
      PROVE  LET r == LatestTierRound(n, now) IN
             /\ r \in RoundIds /\ TierNamed(n, r, now)
             /\ \A q \in RoundIds : TierNamed(n, q, now) => r >= q
  <2> DEFINE S == {0} \union {r \in Rounds : PostEmbargo(r, now) /\ HasEveryOutcome(r, n)}
  <2>1. S \in SUBSET RoundIds /\ 0 \in S
    BY DEF RoundIds
  <2>2. \A q \in RoundIds : q \in S <=> TierNamed(n, q, now)
    BY DEF RoundIds, TierNamed
  <2>3. LatestTierRound(n, now) = Max(S)
    BY DEF LatestTierRound
  <2> HIDE DEF S
  <2>4. Max(S) \in S /\ \A r \in S : Max(S) >= r
    BY <2>1, MaxOfRounds
  <2> QED
    BY <2>1, <2>2, <2>3, <2>4
<1> QED
  BY <1>1, <1>2

\* A feed that may name LIVE shows the one frozen set.
LEMMA LiveIsLifted ==
    ASSUME PublicInv, PostEmbargo(LIVE, reader.now)
    PROVE  Lifted /\ consensus = snapshot
<1>1. reader.now \in Nat /\ clock \in Nat /\ reader.now <= clock /\ AvailableAt(LIVE) \in Nat
  BY RoundAssumption, PublicAssumption DEF PublicInv, ReaderTypes, RoundInv, TypeOK, AvailableAt
<1>2. round \in PostReveal /\ AvailableAt(LIVE) < reader.now
  BY DEF PostEmbargo, StateOf
<1>3. Lifted
  BY <1>1, <1>2 DEF Lifted
<1> QED
  BY <1>2, <1>3 DEF PublicInv, RoundInv, FrozenSetAgrees

LEMMA FeedLatestKeeps ==
    ASSUME PublicInv, UNCHANGED <<vars, targets>>, FeedLatest
    PROVE  PublicInv'
<1> USE DEF PublicInv
<1>1. PICK l : l = LatestConsensusRound(reader.now)
  OBVIOUS
<1>2. /\ reader.pc = "feed" /\ UNCHANGED <<disclosed, feed, health>>
      /\ reader' = [reader EXCEPT !.pc = "tiers", !.latest = l,
                      !.bundles = IF l = LIVE THEN consensus ELSE Nothing]
  BY <1>1 DEF FeedLatest
<1>3. /\ l \in RoundIds /\ Named(l, reader.now)
      /\ \A q \in RoundIds : Named(q, reader.now) => l >= q
  BY <1>1, NewestNamed
<1>4. DOMAIN reader = DOMAIN NoReader
  BY DEF ReaderTypes
<1>5. /\ DOMAIN reader' = DOMAIN NoReader
      /\ reader'.kind = reader.kind /\ reader'.pc = "tiers" /\ reader'.now = reader.now
      /\ reader'.latest = l /\ reader'.tiers = reader.tiers
      /\ reader'.bundles = (IF l = LIVE THEN consensus ELSE Nothing)
  BY <1>2, <1>4 DEF NoReader
<1>6. ReaderTypes'
  <2>1. reader'.pc \in Pcs
    BY <1>5 DEF Pcs, FeedPcs
  <2> QED
    BY <1>2, <1>3, <1>5, <2>1, Undisturbed DEF ReaderTypes
<1>7. FeedIsLifted'
  <2>1. l = LIVE => Lifted /\ consensus = snapshot
    <3>1. LIVE # 0
      BY DEF LIVE
    <3> QED
      BY <1>3, <3>1, LiveIsLifted DEF Named
  <2> QED
    BY <1>5, <2>1, Undisturbed DEF FeedIsLifted, Nothing
<1>8. GateIsCurrent' /\ RowsAreLifted' /\ ProgressIsSafe'
  BY <1>5 DEF GateIsCurrent, RowsAreLifted, ProgressIsSafe
<1>9. DisclosedIsLifted' /\ HealthIsNotFalse'
  BY <1>2, Undisturbed DEF DisclosedIsLifted, HealthIsNotFalse
<1>10. FeedStands'
  BY <1>2, <1>5, Undisturbed, FeedKeepsStanding DEF FeedPcs
<1>11. AnswerStands'
  <2>1. Named(feed.latest, reader.now) /\ feed.latest \in RoundIds
    BY <1>2 DEF FeedStands, FeedPcs, ReaderTypes
  <2>2. l >= feed.latest
    BY <1>3, <2>1
  <2>3. PICK now \in Nat : now = reader.now
    BY DEF ReaderTypes
  <2>4. now <= now
    OBVIOUS
  <2>5. Named(l, now)'
    BY <1>3, <2>3, <2>4, Undisturbed, Stands
  <2> QED
    BY <1>2, <1>5, <2>2, <2>3, <2>5 DEF AnswerStands, Named
<1> QED
  BY <1>6, <1>7, <1>8, <1>9, <1>10, <1>11, Undisturbed

LEMMA FeedTiersKeeps ==
    ASSUME PublicInv, UNCHANGED <<vars, targets>>, FeedTiers
    PROVE  PublicInv'
<1> USE DEF PublicInv
<1>1. PICK T : T = [n \in Netuids |-> LatestTierRound(n, reader.now)]
  OBVIOUS
<1>2. /\ reader.pc = "tiers" /\ UNCHANGED <<disclosed, feed, health>>
      /\ reader' = [reader EXCEPT !.pc = "outcomes", !.tiers = T,
                      !.bundles = IF \E n \in Netuids : T[n] = LIVE THEN consensus ELSE @]
  BY <1>1 DEF FeedTiers
<1>3. \A n \in Netuids : /\ T[n] \in RoundIds /\ TierNamed(n, T[n], reader.now)
                         /\ \A q \in RoundIds : TierNamed(n, q, reader.now) => T[n] >= q
  BY <1>1, NewestNamed
<1>4. DOMAIN reader = DOMAIN NoReader
  BY DEF ReaderTypes
<1>5. /\ DOMAIN reader' = DOMAIN NoReader
      /\ reader'.kind = reader.kind /\ reader'.pc = "outcomes" /\ reader'.now = reader.now
      /\ reader'.latest = reader.latest /\ reader'.tiers = T
      /\ reader'.bundles = (IF \E n \in Netuids : T[n] = LIVE THEN consensus ELSE reader.bundles)
  BY <1>2, <1>4 DEF NoReader
<1>6. ReaderTypes'
  <2>1. reader'.pc \in Pcs
    BY <1>5 DEF Pcs, FeedPcs
  <2> QED
    BY <1>2, <1>3, <1>5, <2>1, Undisturbed DEF ReaderTypes
<1>7. FeedIsLifted'
  <2>1. CASE \E n \in Netuids : T[n] = LIVE
    <3>1. LIVE # 0
      BY DEF LIVE
    <3>2. Lifted /\ consensus = snapshot
      BY <1>3, <2>1, <3>1, LiveIsLifted DEF TierNamed
    <3> QED
      BY <1>5, <2>1, <3>2, Undisturbed DEF FeedIsLifted
  <2>2. CASE ~\E n \in Netuids : T[n] = LIVE
    BY <1>2, <1>5, <2>2, Undisturbed DEF FeedIsLifted, Nothing
  <2> QED
    BY <2>1, <2>2
<1>8. GateIsCurrent' /\ RowsAreLifted' /\ ProgressIsSafe'
  BY <1>5 DEF GateIsCurrent, RowsAreLifted, ProgressIsSafe
<1>9. DisclosedIsLifted' /\ HealthIsNotFalse'
  BY <1>2, Undisturbed DEF DisclosedIsLifted, HealthIsNotFalse
<1>10. FeedStands'
  BY <1>2, <1>5, Undisturbed, FeedKeepsStanding DEF FeedPcs
<1>11. AnswerStands'
  <2>1. PICK now \in Nat, l \in RoundIds : now = reader.now /\ l = reader.latest
    BY DEF ReaderTypes
  <2>2. now <= now
    OBVIOUS
  <2>3. Named(l, now)' /\ l >= feed.latest
    BY <1>2, <2>1, <2>2, Undisturbed, Stands DEF AnswerStands
  <2>4. ASSUME NEW n \in Netuids PROVE TierNamed(n, T[n], now)' /\ T[n] >= feed.tiers[n]
    <3>1. PICK q \in RoundIds : q = T[n]
      BY <1>3
    <3>2. TierNamed(n, q, now)'
      BY <1>3, <2>1, <2>2, <3>1, Undisturbed, Stands
    <3>3. TierNamed(n, feed.tiers[n], reader.now) /\ feed.tiers[n] \in RoundIds
      BY <1>2 DEF FeedStands, FeedPcs, ReaderTypes
    <3>4. T[n] >= feed.tiers[n]
      BY <1>3, <3>3
    <3> QED
      BY <3>1, <3>2, <3>4
  <2> QED
    BY <1>2, <1>5, <2>1, <2>3, <2>4 DEF AnswerStands, Named, TierNamed
<1> QED
  BY <1>6, <1>7, <1>8, <1>9, <1>10, <1>11, Undisturbed

\* The answer is never behind the last one.
LEMMA AnswerFeedKeeps ==
    ASSUME PublicInv, UNCHANGED <<vars, targets>>, AnswerFeed
    PROVE  /\ PublicInv'
           /\ feed'.latest >= feed.latest
           /\ \A n \in Netuids : feed'.tiers[n] >= feed.tiers[n]
<1> USE DEF PublicInv
<1>1. /\ reader.pc = "outcomes" /\ reader' = Idle /\ health' = health
      /\ feed'.latest = reader.latest /\ feed'.tiers = reader.tiers
      /\ disclosed' = (IF reader.bundles = Nothing THEN disclosed
                       ELSE disclosed \union {reader.bundles})
  BY DEF AnswerFeed, Ends
<1>2. DisclosedIsLifted'
  BY <1>1, Undisturbed DEF DisclosedIsLifted, FeedIsLifted
<1>3. HealthIsNotFalse'
  BY <1>1, Undisturbed DEF HealthIsNotFalse
<1>4. feed'.latest \in RoundIds /\ \A n \in Netuids : feed'.tiers[n] \in RoundIds
  BY <1>1 DEF ReaderTypes
<1>5. PICK now \in Nat, l \in RoundIds : now = reader.now /\ l = reader.latest
  BY DEF ReaderTypes
<1>6. PICK later \in Nat : later = clock
  BY Undisturbed
<1>7. now <= later
  BY <1>5, <1>6 DEF ReaderTypes
<1>8. Named(l, later)'
  BY <1>1, <1>5, <1>7, Undisturbed, Stands DEF AnswerStands
<1>9. ASSUME NEW n \in Netuids PROVE TierNamed(n, feed.tiers[n], later)'
  <2>1. PICK q \in RoundIds : q = reader.tiers[n]
    BY DEF ReaderTypes
  <2>2. TierNamed(n, q, later)'
    BY <1>1, <1>5, <1>7, <2>1, Undisturbed, Stands DEF AnswerStands
  <2>3. feed'.tiers[n] = q
    BY <1>1, <2>1
  <2> QED
    BY <2>2, <2>3 DEF TierNamed
<1>10. FeedStands'
  <2>1. reader'.pc \notin FeedPcs /\ clock' = later
    BY <1>1, <1>6, IdleReader, Undisturbed DEF FeedPcs
  <2>2. Named(feed.latest, later)'
    BY <1>1, <1>5, <1>8 DEF Named
  <2> QED
    BY <1>9, <2>1, <2>2 DEF FeedStands, Named, TierNamed
<1>11. feed'.latest >= feed.latest /\ \A n \in Netuids : feed'.tiers[n] >= feed.tiers[n]
  BY <1>1 DEF AnswerStands
<1> QED
  BY <1>1, <1>2, <1>3, <1>4, <1>10, <1>11, RequestEnds

-----------------------------------------------------------------------------
(***************************************************************************)
(* The invariant holds from the last moment of the reveal window on.       *)
(***************************************************************************)
LEMMA SubmittedRows ==
    ASSUME NEW rows0 \in Submitted, NEW h \in Hotkeys
    PROVE  /\ rows0[h] \in Rows
           /\ rows0[h].verdict = "none" => rows0[h].commits = 0
           /\ rows0[h].verdict = "accepted" => /\ rows0[h].payload = rows0[h].hash
                                               /\ rows0[h].payload \in WellFormed
<1> USE RoundAssumption
<1>1. CASE rows0[h] = NoRow
  BY <1>1 DEF NoRow, Rows
<1>2. CASE \E p \in WellFormed :
             rows0[h] = [hash |-> p, payload |-> p, verdict |-> "accepted",
                         commits |-> 1, reveals |-> 1]
  BY <1>2 DEF Rows
<1> QED
  BY <1>1, <1>2 DEF Submitted

LEMMA InitPublic == PublicInit => PublicInv
<1> SUFFICES ASSUME PublicInit PROVE PublicInv
  OBVIOUS
<1> USE RoundAssumption, PublicAssumption
<1>1. RoundInv
  <2>1. NoRequest \in Requests /\ NoTick \in Ticks
    BY DEF NoRequest, Requests, NoTick, Ticks
  <2>2. sub \in [Hotkeys -> Rows]
    <3>1. \A h \in Hotkeys : sub[h] \in Rows
      BY SubmittedRows DEF PublicInit
    <3> QED
      BY <3>1 DEF PublicInit, Submitted
  <2>3. TypeOK
    BY <2>1, <2>2 DEF PublicInit, TypeOK, Nothing
  <2>4. NoRowIsEmpty /\ AcceptedOpensCommit
    BY SubmittedRows DEF PublicInit, NoRowIsEmpty, AcceptedOpensCommit, Accepted
  <2>5. \A s \in Slots : InProgress(s)
    BY DEF PublicInit, InProgress, Busy, NoRequest, CommitPc, RevealPc
  <2> QED
    BY <2>3, <2>4, <2>5 DEF PublicInit, RoundInv, OpenIsUnfrozen, ResolvingIsRevealed, NoTick,
       FrozenSetAgrees, ClosedIsResolved, AckedIsScored, PostReveal
<1>2. targets \in [Universe[LIVE] -> [TierOutputs -> Statuses]]
  BY DEF PublicInit, NoTargets, Statuses
<1>3. PICK kind \in Kinds : reader = [NoReader EXCEPT !.kind = kind]
  BY DEF PublicInit
<1>4. /\ DOMAIN reader = DOMAIN NoReader
      /\ reader.kind \in {"meta", "feed", "progress"} /\ reader.pc = "idle"
      /\ reader.now = 0 /\ reader.latest = 0 /\ \A n \in Netuids : reader.tiers[n] = 0
  BY <1>3 DEF NoReader, NoTiers
<1>5. feed.latest = 0 /\ \A n \in Netuids : feed.tiers[n] = 0
  BY DEF PublicInit, NoFeed, NoTiers
<1>6. ReaderTypes
  BY <1>4, <1>5 DEF PublicInit, ReaderTypes, Pcs, RoundIds
<1>7. GateIsCurrent /\ RowsAreLifted /\ FeedIsLifted /\ ProgressIsSafe /\ AnswerStands
  BY <1>4 DEF GateIsCurrent, RowsAreLifted, FeedIsLifted, ProgressIsSafe, AnswerStands
<1>8. DisclosedIsLifted /\ HealthIsNotFalse
  BY DEF PublicInit, DisclosedIsLifted, HealthIsNotFalse
<1>9. FeedStands
  BY <1>5 DEF FeedStands, Named, TierNamed
<1> QED
  BY <1>1, <1>2, <1>6, <1>7, <1>8, <1>9 DEF PublicInv

LEMMA NextKeepsPublic ==
    ASSUME PublicInv, [PublicNext]_allvars
    PROVE  /\ PublicInv'
           /\ feed' # feed => /\ feed'.latest >= feed.latest
                              /\ \A n \in Netuids : feed'.tiers[n] >= feed.tiers[n]
<1>1. CASE RoundRuns
  <2>1. [Next]_vars /\ UNCHANGED <<disclosed, feed, health>> /\ reader' = reader
    BY <1>1 DEF RoundRuns, Next, reads
  <2>2. OutcomesStay
    <3>1. CASE RecordTargets
      BY <3>1 DEF RecordTargets, OutcomesStay
    <3>2. CASE UNCHANGED targets
      BY <3>2 DEF OutcomesStay, PublicInv
    <3> QED
      BY <1>1, <3>1, <3>2 DEF RoundRuns
  <2> QED
    BY <2>1, <2>2, ReadsWait
<1>2. CASE ReadStep
  <2>1. UNCHANGED <<vars, targets>>
    BY <1>2 DEF ReadStep
  <2>2. CASE AnswerFeed
    BY <2>1, <2>2, AnswerFeedKeeps
  <2>3. CASE ~AnswerFeed
    <3>1. feed' = feed
      BY <1>2, <2>3 DEF ReadStep, Asks, RoundMeta, AnswerMeta, PassGate, AnswerRows,
         FeedLatest, FeedTiers, HealthProgress, AnswerHealth
    <3>2. \/ Asks \/ RoundMeta \/ AnswerMeta \/ PassGate \/ AnswerRows
          \/ FeedLatest \/ FeedTiers \/ HealthProgress \/ AnswerHealth
      BY <1>2, <2>3 DEF ReadStep
    <3> QED
      BY <2>1, <3>1, <3>2, AsksKeeps, RoundMetaKeeps, AnswerMetaKeeps, PassGateKeeps,
         FeedLatestKeeps, FeedTiersKeeps, HealthProgressKeeps, AnswerHealthKeeps
  <2> QED
    BY <2>2, <2>3
<1>3. CASE ProcessDies
  <2>1. /\ [Next]_vars /\ UNCHANGED <<targets, disclosed, feed, health>> /\ reader' = Idle
    BY <1>3 DEF ProcessDies, Next, Ends
  <2>2. OutcomesStay
    BY <2>1 DEF OutcomesStay, PublicInv
  <2> QED
    BY <2>1, <2>2, ReadsWait
<1>4. CASE UNCHANGED allvars
  <2>1. /\ UNCHANGED <<vars, targets>> /\ UNCHANGED <<disclosed, feed, health>>
        /\ reader' = reader
    BY <1>4 DEF allvars, reads
  <2> QED
    BY <2>1, Undisturbed, ReadsWait
<1> QED
  BY <1>1, <1>2, <1>3, <1>4 DEF PublicNext

-----------------------------------------------------------------------------
(***************************************************************************)
(* Theorems.                                                               *)
(***************************************************************************)
\* What a request carries from one query to the next stays what it would read, and
\* what the feed once named it may name ever after.
THEOREM PublicInvariant == PublicSpec => []PublicInv
<1>1. PublicInv /\ [PublicNext]_allvars => PublicInv'
  BY NextKeepsPublic
<1> QED
  BY <1>1, InitPublic, PTL DEF PublicSpec

\* No response shows LIVE's forecasts before the next round's commitments are in,
\* and all responses are made of the one set the round scores from.
THEOREM NothingIsShownEarly == PublicSpec => []EmbargoHolds
<1>1. AvailableAt(LIVE) = COMMIT_CLOSE + PERIOD
  BY DEF AvailableAt
<1>2. PublicInv => EmbargoHolds
  BY <1>1 DEF PublicInv, DisclosedIsLifted, Lifted, EmbargoHolds
<1> QED
  BY <1>2, PublicInvariant, PTL

\* /health vouches for resolved horizons only, however old the progress it read.
THEOREM HealthIsTrue == PublicSpec => []HealthIsNotFalse
<1>1. PublicInv => HealthIsNotFalse
  BY DEF PublicInv
<1> QED
  BY <1>1, PublicInvariant, PTL

\* No answer of the feed names an older round than the answer before it.
THEOREM FeedIsMonotone == PublicSpec => FeedNeverGoesBack
<1>1. PublicInv /\ [PublicNext]_allvars =>
        [/\ feed'.latest >= feed.latest
         /\ \A n \in Netuids : feed'.tiers[n] >= feed.tiers[n]]_feed
  BY NextKeepsPublic
<1> QED
  BY <1>1, PublicInvariant, PTL DEF PublicSpec, FeedNeverGoesBack

-----------------------------------------------------------------------------
(***************************************************************************)
(* The weighted median of a finite set of values.                          *)
(***************************************************************************)
Gap(a, v) == IF a > v THEN a - v ELSE v - a
Distances(x, w, v, S) == [m \in S |-> w[m] * Gap(x[m], v)]
Below(x, v, S) == {m \in S : x[m] <= v}
From(x, v, S) == {m \in S : x[m] >= v}
Halves(x, w, S) ==
    {v \in {x[m] : m \in S} : 2 * Sum(w, Below(x, v, S)) >= Sum(w, S)}
Nearest(x, w, S) ==
    {v \in {x[m] : m \in S} : \A u \in {x[m] : m \in S} :
       Sum(Distances(x, w, v, S), S) <= Sum(Distances(x, w, u, S), S)}

\* On one side of a step of length k every distance grows by it, on the other none
\* shrinks by more.
Moves(f, g, w, k, A, S) ==
    /\ \A m \in A : g[m] >= f[m] + k * w[m]
    /\ \A m \in S \ A : g[m] + k * w[m] >= f[m]

LEMMA SumMoves ==
    ASSUME NEW S, IsFiniteSet(S), NEW f \in [S -> Nat], NEW g \in [S -> Nat],
           NEW w \in [S -> Nat], NEW k \in Nat, NEW A \in SUBSET S, Moves(f, g, w, k, A, S)
    PROVE  Sum(g, S) + k * Sum(w, S) >= Sum(f, S) + k * (2 * Sum(w, A))
<1> DEFINE B == S \ A
           h == [m \in S |-> k * w[m]]
           fh == [m \in S |-> f[m] + h[m]]
           gh == [m \in S |-> g[m] + h[m]]
<1>1. B \in SUBSET S /\ S \in SUBSET S
  OBVIOUS
<1>2. \A m \in S : k * w[m] \in Nat
  OBVIOUS
<1>3. h \in [S -> Nat] /\ \A m \in S : h[m] = k * w[m]
  BY <1>2
<1> HIDE DEF h
<1>4. fh \in [S -> Nat] /\ gh \in [S -> Nat]
  BY <1>3
<1>5. Scales(h, k, w, S) /\ Adds(fh, f, h, S) /\ Adds(gh, g, h, S)
  BY <1>3 DEF Scales, Adds
<1>6. (\A m \in A : fh[m] <= g[m]) /\ (\A m \in B : f[m] <= gh[m])
  BY <1>3 DEF Moves
<1> HIDE DEF fh, gh, B
<1>7. Sum(fh, A) <= Sum(g, A) /\ Sum(f, B) <= Sum(gh, B)
  BY <1>1, <1>4, <1>6, SumIsMonotone
<1>8. Sum(fh, A) = Sum(f, A) + Sum(h, A) /\ Sum(gh, B) = Sum(g, B) + Sum(h, B)
  BY <1>1, <1>3, <1>4, <1>5, SumOfSums
<1>9. Sum(h, A) = k * Sum(w, A) /\ Sum(h, S) = k * Sum(w, S)
  BY <1>1, <1>3, <1>5, SumOfMultiples
<1>10. /\ Sum(f, S) = Sum(f, A) + Sum(f, B) /\ Sum(g, S) = Sum(g, A) + Sum(g, B)
       /\ Sum(h, S) = Sum(h, A) + Sum(h, B)
  BY <1>1, <1>3, SumsSplit DEF SumSplits, B
<1>11. PICK fa \in Nat, fb \in Nat, ga \in Nat, gb \in Nat, ha \in Nat, hb \in Nat, wa \in Nat, ws \in Nat :
         /\ fa = Sum(f, A) /\ fb = Sum(f, B) /\ ga = Sum(g, A) /\ gb = Sum(g, B)
         /\ ha = Sum(h, A) /\ hb = Sum(h, B) /\ wa = Sum(w, A) /\ ws = Sum(w, S)
  BY <1>1, <1>3, SumFacts DEF SumLaws
<1>12. fa + ha <= ga /\ fb <= gb + hb
  BY <1>7, <1>8, <1>11
<1>13. ga + gb + (ha + hb) >= fa + fb + (ha + ha)
  BY <1>12
<1>14. k * (2 * wa) = ha + ha /\ k * ws = ha + hb
  BY <1>9, <1>10, <1>11
<1> QED
  BY <1>10, <1>11, <1>13, <1>14

\* How distances move with the point they are measured from.
LEMMA DistancesMove ==
    ASSUME NEW S, NEW x \in [S -> Int], NEW w \in [S -> Nat], NEW u \in Int, NEW v \in Int, u < v
    PROVE  /\ Distances(x, w, u, S) \in [S -> Nat] /\ Distances(x, w, v, S) \in [S -> Nat]
           /\ Moves(Distances(x, w, u, S), Distances(x, w, v, S), w, v - u, Below(x, u, S), S)
           /\ Moves(Distances(x, w, v, S), Distances(x, w, u, S), w, v - u, From(x, v, S), S)
<1>1. \A a \in Int, c \in Nat : c * Gap(a, u) \in Nat /\ c * Gap(a, v) \in Nat
  <2>1. \A a \in Int : Gap(a, u) \in Nat /\ Gap(a, v) \in Nat
    BY DEF Gap
  <2> QED
    BY <2>1
<1>2. \A a \in Int, c \in Nat :
        /\ a <= u => c * Gap(a, v) >= c * Gap(a, u) + (v - u) * c
        /\ a >= v => c * Gap(a, u) >= c * Gap(a, v) + (v - u) * c
        /\ c * Gap(a, v) + (v - u) * c >= c * Gap(a, u)
        /\ c * Gap(a, u) + (v - u) * c >= c * Gap(a, v)
  <2> SUFFICES ASSUME NEW a \in Int, NEW c \in Nat
               PROVE  /\ a <= u => c * Gap(a, v) >= c * Gap(a, u) + (v - u) * c
                      /\ a >= v => c * Gap(a, u) >= c * Gap(a, v) + (v - u) * c
                      /\ c * Gap(a, v) + (v - u) * c >= c * Gap(a, u)
                      /\ c * Gap(a, u) + (v - u) * c >= c * Gap(a, v)
    OBVIOUS
  <2>1. PICK p \in Nat, q \in Nat, k \in Nat : p = Gap(a, u) /\ q = Gap(a, v) /\ k = v - u
    <3>1. Gap(a, u) \in Nat /\ Gap(a, v) \in Nat
      BY DEF Gap
    <3>2. v - u \in Nat
      OBVIOUS
    <3> QED
      BY <3>1, <3>2
  <2>2. /\ a <= u => q = p + k
        /\ a >= v => p = q + k
        /\ q + k >= p /\ p + k >= q
    BY <2>1 DEF Gap
  <2>3. \A i \in Nat, j \in Nat : i >= j => c * i >= c * j
    OBVIOUS
  <2>4. c * (p + k) = c * p + k * c /\ c * (q + k) = c * q + k * c
    OBVIOUS
  <2>5. p + k \in Nat /\ q + k \in Nat
    OBVIOUS
  <2>6. /\ a <= u => c * q = c * p + k * c
        /\ a >= v => c * p = c * q + k * c
        /\ c * q + k * c >= c * p /\ c * p + k * c >= c * q
    BY <2>2, <2>3, <2>4, <2>5
  <2>7. c * q \in Nat /\ c * p \in Nat /\ k * c \in Nat
    OBVIOUS
  <2> QED
    BY <2>1, <2>6, <2>7
<1> QED
  BY <1>1, <1>2 DEF Distances, Moves, Below, From

\* The weighted median is the least of the values nearest to all others.
LEMMA MedianBalances ==
    ASSUME NEW S, IsFiniteSet(S), S # {}, NEW x \in [S -> Int], NEW w \in [S -> Nat],
           \A m \in S : w[m] > 0
    PROVE  Min(Halves(x, w, S)) = Min(Nearest(x, w, S))
<1> DEFINE V == {x[m] : m \in S}
           cost(v) == Sum(Distances(x, w, v, S), S)
           under(v) == Sum(w, Below(x, v, S))
           total == Sum(w, S)
<1>1. V \in SUBSET Int /\ V # {} /\ IsFiniteSet(V)
  BY FiniteImage
<1>2. SumLaws(w, S) /\ SumSplits(w, S)
  BY SumFacts, SumsSplit
<1>3. total \in Nat /\ total > 0
  <2>1. PICK m \in S : TRUE
    OBVIOUS
  <2>2. total \in Nat /\ w[m] <= total /\ w[m] > 0 /\ w[m] \in Nat
    BY <1>2, AddendIsInSum DEF SumLaws
  <2> QED
    BY <2>2
<1>4. \A v \in V : under(v) \in Nat
  BY <1>2 DEF SumLaws, Below
<1>5. \A v \in V : cost(v) \in Nat
  <2> SUFFICES ASSUME NEW v \in V PROVE cost(v) \in Nat
    OBVIOUS
  <2>1. v \in Int /\ v < v + 1 /\ v + 1 \in Int
    BY <1>1
  <2>2. Distances(x, w, v, S) \in [S -> Nat]
    BY <2>1, DistancesMove
  <2> QED
    BY <2>2, SumFacts DEF SumLaws
<1> DEFINE H == Halves(x, w, S)
           N == Nearest(x, w, S)
           med == Min(H)
<1>6. H = {v \in V : 2 * under(v) >= total} /\ N = {v \in V : \A u \in V : cost(v) <= cost(u)}
  BY DEF Halves, Nearest
<1>7. H # {}
  <2>1. Max(V) \in V /\ \A v \in V : Max(V) >= v
    BY <1>1, FiniteExtremes
  <2>2. PICK b \in V : \A v \in V : b >= v
    BY <2>1
  <2>3. Below(x, b, S) = S
    BY <2>2 DEF Below
  <2>4. under(b) = total
    BY <2>3
  <2>5. 2 * under(b) >= total
    BY <1>3, <2>4
  <2> QED
    BY <1>6, <2>5
<1>8. med \in V /\ 2 * under(med) >= total /\ \A v \in H : med <= v
  <2>1. H \in SUBSET V
    BY <1>6
  <2>2. H \in SUBSET Int /\ IsFiniteSet(H)
    BY <1>1, <2>1, FS_Subset
  <2>3. med \in H /\ \A v \in H : med <= v
    BY <1>7, <2>2, FiniteExtremes
  <2> QED
    BY <1>6, <2>3
<1> HIDE DEF V, cost, under, total, H, N, med
<1>9. \A v \in V : v < med => 2 * under(v) < total
  <2> SUFFICES ASSUME NEW v \in V, v < med PROVE 2 * under(v) < total
    OBVIOUS
  <2>1. v \in Int /\ med \in Int /\ ~(med <= v)
    BY <1>1, <1>8
  <2>2. ~(2 * under(v) >= total)
    BY <1>6, <1>8, <2>1
  <2> QED
    BY <1>3, <1>4, <2>2
<1>10. \A u \in V : u > med => cost(med) <= cost(u)
  <2> SUFFICES ASSUME NEW u \in V, u > med PROVE cost(med) <= cost(u)
    OBVIOUS
  <2>1. med \in Int /\ u \in Int /\ u - med \in Nat
    BY <1>1, <1>8
  <2>2. PICK k \in Nat : k = u - med
    BY <2>1
  <2>3. Below(x, med, S) \in SUBSET S
    BY DEF Below
  <2>4. Sum(Distances(x, w, u, S), S) + k * Sum(w, S)
          >= Sum(Distances(x, w, med, S), S) + k * (2 * Sum(w, Below(x, med, S)))
    <3>1. med < u
      BY <2>1
    <3>2. /\ Distances(x, w, u, S) \in [S -> Nat] /\ Distances(x, w, med, S) \in [S -> Nat]
          /\ Moves(Distances(x, w, med, S), Distances(x, w, u, S), w, k, Below(x, med, S), S)
      BY <2>1, <2>2, <3>1, DistancesMove
    <3> QED
      BY <2>3, <3>2, SumMoves
  <2>5. PICK a \in Nat, b \in Nat, c \in Nat, t \in Nat :
           a = cost(u) /\ b = cost(med) /\ c = under(med) /\ t = total
    BY <1>3, <1>4, <1>5, <1>8
  <2>6. a + k * t >= b + k * (2 * c)
    BY <2>4, <2>5 DEF cost, under, total
  <2>7. 2 * c >= t
    BY <1>8, <2>5
  <2>8. k * (2 * c) >= k * t /\ k * (2 * c) \in Nat /\ k * t \in Nat
    BY <2>7
  <2> QED
    BY <2>5, <2>6, <2>8
<1>11. \A u \in V : u < med => cost(med) < cost(u)
  <2> SUFFICES ASSUME NEW u \in V, u < med PROVE cost(med) < cost(u)
    OBVIOUS
  <2> DEFINE A == From(x, med, S)
             L == S \ A
  <2>1. med \in Int /\ u \in Int /\ med - u \in Nat /\ med - u > 0
    BY <1>1, <1>8
  <2>2. PICK k \in Nat : k = med - u /\ k > 0
    BY <2>1
  <2>3. A \in SUBSET S /\ L \in SUBSET S
    BY DEF From
  <2>4. Sum(Distances(x, w, u, S), S) + k * Sum(w, S)
          >= Sum(Distances(x, w, med, S), S) + k * (2 * Sum(w, A))
    <3>1. u < med
      BY <2>1
    <3>2. /\ Distances(x, w, u, S) \in [S -> Nat] /\ Distances(x, w, med, S) \in [S -> Nat]
          /\ Moves(Distances(x, w, med, S), Distances(x, w, u, S), w, k, A, S)
      BY <2>1, <2>2, <3>1, DistancesMove
    <3> QED
      BY <2>3, <3>2, SumMoves
  <2>5. 2 * Sum(w, L) < total
    <3>1. CASE L = {}
      <4>1. Sum(w, L) = 0
        BY <1>2, <3>1 DEF SumLaws
      <4> HIDE DEF L
      <4> QED
        BY <1>3, <4>1
    <3>2. CASE L # {}
      <4> DEFINE P == {x[m] : m \in L}
      <4>1. P \in SUBSET V
        BY DEF V
      <4>2. P # {} /\ P \in SUBSET Int /\ IsFiniteSet(P)
        BY <1>1, <3>2, <4>1, FS_Subset
      <4> HIDE DEF P
      <4>3. Max(P) \in P /\ \A v \in P : Max(P) >= v
        BY <4>2, FiniteExtremes
      <4>4. PICK p \in P : \A v \in P : p >= v
        BY <4>3
      <4>5. p \in V /\ p \in Int /\ p < med
        BY <2>1, <4>1, <4>2, <4>4 DEF P, From
      <4>6. Below(x, p, S) = L
        <5>1. \A m \in L : x[m] <= p
          BY <4>2, <4>4 DEF P
        <5>2. \A m \in S \ L : x[m] > p
          BY <2>1, <4>5 DEF From
        <5>3. L \in SUBSET S
          OBVIOUS
        <5>4. \A m \in S : x[m] \in Int
          OBVIOUS
        <5> HIDE DEF L
        <5>5. \A m \in S : x[m] <= p <=> m \in L
          BY <4>5, <5>1, <5>2, <5>3, <5>4
        <5> QED
          BY <5>3, <5>5 DEF Below
      <4>7. 2 * under(p) < total
        BY <1>9, <4>5
      <4> QED
        BY <4>6, <4>7 DEF under
    <3> QED
      BY <3>1, <3>2
  <2>6. Sum(w, S) = Sum(w, A) + Sum(w, L) /\ Sum(w, A) \in Nat /\ Sum(w, L) \in Nat
    BY <1>2, <2>3 DEF SumSplits, SumLaws
  <2> HIDE DEF A, L
  <2>7. PICK a \in Nat, b \in Nat, c \in Nat, l \in Nat :
           a = cost(u) /\ b = cost(med) /\ c = Sum(w, A) /\ l = Sum(w, L)
    BY <1>5, <1>8, <2>6
  <2>8. a + k * (c + l) >= b + k * (2 * c) /\ 2 * l < c + l
    BY <2>4, <2>5, <2>6, <2>7 DEF cost, total
  <2>9. PICK d \in Nat : c = l + d /\ d > 0
    <3>1. c - l \in Nat /\ c - l > 0
      BY <2>8
    <3> QED
      BY <3>1
  <2>10. k * (2 * c) = k * (c + l) + k * d
    BY <2>9
  <2>11. k * d > 0 /\ k * d \in Nat /\ k * (c + l) \in Nat
    BY <2>2, <2>9
  <2>12. a > b
    BY <2>8, <2>10, <2>11
  <2> QED
    BY <2>7, <2>12
<1>12. med \in N /\ \A v \in N : med <= v
  <2>1. \A u \in V : cost(med) <= cost(u)
    BY <1>1, <1>5, <1>8, <1>10, <1>11
  <2>2. ASSUME NEW v \in N PROVE med <= v
    BY <1>1, <1>5, <1>6, <1>8, <1>11
  <2> QED
    BY <1>6, <1>8, <2>1, <2>2
<1>13. Min(N) = med
  <2>1. N \in SUBSET V
    BY <1>6
  <2>2. N \in SUBSET Int /\ IsFiniteSet(N) /\ N # {}
    BY <1>1, <1>12, <2>1, FS_Subset
  <2>3. PICK least \in N : least = Min(N) /\ \A v \in N : least <= v
    BY <2>2, FiniteExtremes
  <2>4. least <= med /\ med <= least /\ least \in Int /\ med \in Int
    BY <1>12, <2>2, <2>3
  <2>5. least = med
    BY <2>4
  <2> QED
    BY <2>3, <2>5
<1> QED
  BY <1>13 DEF N, med, H

-----------------------------------------------------------------------------
(***************************************************************************)
(* The tiers of the feed.                                                  *)
(***************************************************************************)
\* Finitely many forecasts of numbers, by miners whose accuracy is one.
Numeric(bundles) ==
    /\ IsFiniteSet(DOMAIN bundles)
    /\ \A m \in DOMAIN bundles :
          /\ Blends[m] \in Nat
          /\ bundles[m] # NoPayload =>
               \A n \in DOMAIN Forecast[bundles[m]], o \in TierOutputs :
                 Forecast[bundles[m]][n][o] \in Int

LEMMA ConsensusIsBalance ==
    ASSUME NEW bundles, Numeric(bundles), NEW n, Forecasters(bundles, n) # {},
           NEW o \in TierOutputs
    PROVE  WeightedMedian(bundles, n, o) = Balance(bundles, n, o)
<1> DEFINE S == Forecasters(bundles, n)
           x == [m \in S |-> Value(bundles, m, n, o)]
           w == [m \in S |-> ConsensusWeight(m)]
           values == {Value(bundles, m, n, o) : m \in S}
           weight(m) == IF Blends[m] = 0 THEN 1 ELSE Blends[m]
           distance(v, m) == weight(m) * (IF Value(bundles, m, n, o) > v
                                          THEN Value(bundles, m, n, o) - v
                                          ELSE v - Value(bundles, m, n, o))
<1>1. S \in SUBSET DOMAIN bundles /\ IsFiniteSet(S) /\ S # {}
  BY FS_Subset DEF Forecasters, Numeric
<1>2. x \in [S -> Int]
  BY DEF Forecasters, Numeric, Value
<1>3. \A m \in S : /\ ConsensusWeight(m) \in Nat /\ ConsensusWeight(m) > 0
                     /\ ConsensusWeight(m) = weight(m)
  BY <1>1 DEF Numeric, ConsensusWeight
<1>4. w \in [S -> Nat] /\ \A m \in S : w[m] > 0
  BY <1>3
<1>5. values = {x[m] : m \in S}
  OBVIOUS
<1>6. WeightedMedian(bundles, n, o) = Min(Halves(x, w, S))
  <2>1. \A v : WeightOf({m \in S : Value(bundles, m, n, o) <= v}) = Sum(w, Below(x, v, S))
    <3> SUFFICES ASSUME NEW v
                 PROVE  WeightOf({m \in S : Value(bundles, m, n, o) <= v}) = Sum(w, Below(x, v, S))
      OBVIOUS
    <3>1. Below(x, v, S) = {m \in S : Value(bundles, m, n, o) <= v}
      BY DEF Below
    <3>2. \A T \in SUBSET S : [m \in T |-> ConsensusWeight(m)] = [m \in T |-> w[m]]
      OBVIOUS
    <3> QED
      BY <3>1, <3>2 DEF WeightOf, Sum
  <2>2. WeightOf(S) = Sum(w, S)
    BY DEF WeightOf, Sum
  <2>3. {v \in values : 2 * WeightOf({m \in S : Value(bundles, m, n, o) <= v}) >= WeightOf(S)}
          = Halves(x, w, S)
    BY <1>5, <2>1, <2>2 DEF Halves
  <2> QED
    BY <2>3 DEF WeightedMedian
<1>7. Balance(bundles, n, o) = Min(Nearest(x, w, S))
  <2>1. \A v : Total([m \in S |-> distance(v, m)]) = Sum(Distances(x, w, v, S), S)
    <3> SUFFICES ASSUME NEW v
                 PROVE  Total([m \in S |-> distance(v, m)]) = Sum(Distances(x, w, v, S), S)
      OBVIOUS
    <3>1. \A m \in S : distance(v, m) = Distances(x, w, v, S)[m]
      BY <1>3 DEF Distances, Gap
    <3> HIDE DEF distance, x, w
    <3>2. [m \in S |-> distance(v, m)] = [m \in S |-> Distances(x, w, v, S)[m]]
      BY <3>1
    <3> QED
      BY <3>2 DEF Sum
  <2>2. {v \in values : \A u \in values :
           Total([m \in S |-> distance(v, m)]) <= Total([m \in S |-> distance(u, m)])}
          = Nearest(x, w, S)
    <3> HIDE DEF distance
    <3> QED
      BY <1>5, <2>1 DEF Nearest
  <2> QED
    BY <2>2 DEF Balance
<1> HIDE DEF x, w, S
<1> QED
  BY <1>1, <1>2, <1>4, <1>6, <1>7, MedianBalances

LEMMA RoundsAreNumeric ==
    ASSUME PublicInv, NEW r \in Rounds, r = LIVE => consensus = snapshot
    PROVE  Numeric(ConsensusOf(r))
<1> USE RoundAssumption, PublicAssumption
<1>1. CASE r = FIRST
  <2>1. ConsensusOf(r) = FirstBundles
    BY <1>1 DEF ConsensusOf, FIRST, LIVE
  <2>2. \A m \in DOMAIN FirstBundles : FirstBundles[m] \in Range(FirstBundles)
    BY DEF Range
  <2> QED
    BY <2>1, <2>2 DEF Numeric
<1>2. CASE r = LIVE
  <2>1. ConsensusOf(r) = snapshot /\ snapshot \in [Hotkeys -> Payloads \union {NoPayload}]
    BY <1>2 DEF ConsensusOf, PublicInv, RoundInv, TypeOK
  <2>2. DOMAIN snapshot = Hotkeys /\ \A m \in Hotkeys : snapshot[m] # NoPayload => snapshot[m] \in Payloads
    BY <2>1
  <2> QED
    BY <2>1, <2>2 DEF Numeric
<1> QED
  BY <1>1, <1>2 DEF Rounds

\* Whatever the queries of an answer read, the tier it gives follows from the
\* outcomes on record and the scored forecasts.
LEMMA AnswerIsDerivable ==
    ASSUME PublicInv, AnswerFeed, NEW n \in Netuids, feed'.tiers[n] # 0
    PROVE  TierIsDerivable(n, feed'.tiers[n], feed'.labels[n])
<1>1. /\ reader.pc = "outcomes" /\ feed'.tiers[n] = reader.tiers[n]
      /\ feed'.labels[n] = Label(n, reader.tiers[n])
  BY DEF AnswerFeed
<1>2. PICK r \in Rounds : /\ r = reader.tiers[n]
                          /\ PostEmbargo(r, reader.now) /\ HasEveryOutcome(r, n)
  BY <1>1 DEF PublicInv, AnswerStands, TierNamed
<1>3. /\ \A o \in TierOutputs : TargetsOf(r)[n][o] = "resolved"
      /\ Forecasters(ConsensusOf(r), n) # {}
  BY <1>2 DEF HasEveryOutcome
<1>4. r = LIVE => consensus = snapshot
  BY <1>2, LiveIsLifted
<1>5. ConsensusOf(r) = IF r = LIVE THEN snapshot ELSE FirstBundles
  BY <1>4 DEF ConsensusOf
<1>6. Numeric(ConsensusOf(r))
  BY <1>2, <1>4, RoundsAreNumeric
<1>7. \A o \in TierOutputs : WeightedMedian(ConsensusOf(r), n, o) = Balance(ConsensusOf(r), n, o)
  BY <1>3, <1>6, ConsensusIsBalance
<1>8. [o \in TierOutputs |-> WeightedMedian(ConsensusOf(r), n, o)]
        = [o \in TierOutputs |-> Balance(ConsensusOf(r), n, o)]
  BY <1>7
<1>9. Label(n, r) = TierOf([o \in TierOutputs |-> Balance(ConsensusOf(r), n, o)])
  <2>1. r # 0
    BY DEF Rounds, FIRST, LIVE
  <2> QED
    BY <1>3, <1>8, <2>1 DEF Label
<1> QED
  BY <1>1, <1>2, <1>3, <1>5, <1>9 DEF TierIsDerivable

\* A tier that the feed names is the tier of the scored forecasts where they
\* balance, with both outcomes on record, however its queries were overtaken
\* (_feed_payload, compute_assessment_consensus, derive_risk_tier).
THEOREM TiersFollow == PublicSpec => TiersAreDerivable
<1>1. ASSUME PublicInv, [PublicNext]_allvars
      PROVE  [feed' # feed => \A n \in Netuids : feed'.tiers[n] # 0 =>
                TierIsDerivable(n, feed'.tiers[n], feed'.labels[n])]_feed
  <2>1. AnswerFeed \/ feed' = feed
    BY <1>1 DEF PublicNext, RoundRuns, ReadStep, ProcessDies, allvars, reads, Asks, RoundMeta,
       AnswerMeta, PassGate, AnswerRows, FeedLatest, FeedTiers, HealthProgress, AnswerHealth
  <2> QED
    BY <1>1, <2>1, AnswerIsDerivable
<1> QED
  BY <1>1, PublicInvariant, PTL DEF PublicSpec, TiersAreDerivable
=============================================================================
