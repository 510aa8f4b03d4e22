---------------------------- MODULE RuntimeProofs ----------------------------
(***************************************************************************)
(* Theorems about what a neuron runs on.  RpcGate, for any number of       *)
(* threads and of generations, any allowance, any rate and any hints of    *)
(* the provider; NeuronProcess, for every deadline, age, duration, pause,  *)
(* grace and threshold that a validator accepts.                           *)
(***************************************************************************)
EXTENDS RpcGate, NeuronProcess, FiniteSetTheorems, TLAPS

-----------------------------------------------------------------------------
(***************************************************************************)
(* RpcGate.                                                                *)
(***************************************************************************)
GateRecord == [rate : 1 .. FullRate, next : Nat, retry : Nat,
               poison : {"live", "stalled", "closed"}]
Pcs == {"idle", "enter", "locked", "waiting", "throttled", "succeeded", "wrap", "retire"}
CallerRecord == [pc : Pcs, gen : Gen \cup {0}, prio : Priorities, create : BOOLEAN,
                 slot : Nat]

-----------------------------------------------------------------------------
(***************************************************************************)
(* The inductive invariant.                                                *)
(***************************************************************************)
\* A call names its generation until it ends; only the run loop rebuilds, and a
\* rebuild is essential work, which reserves no slot.
CallsAreBound ==
    \A c \in Callers :
      /\ caller[c].pc = "idle" => caller[c].slot = 0
      /\ caller[c].pc # "idle" => caller[c].gen \in Gen
      /\ caller[c].create \/ caller[c].pc \in {"wrap", "retire"} => c = Loop
      /\ caller[c].pc = "wrap" => caller[c].create
      /\ caller[c].create => caller[c].prio = "essential"
      /\ caller[c].prio = "essential" => caller[c].slot = 0

\* _generation_lock: one caller waits for the worker of a generation, which takes
\* calls only until it is poisoned.
OneHolder ==
    \A c, d \in Callers :
      caller[c].pc = "waiting" /\ caller[d].pc = "waiting" /\ caller[c].gen = caller[d].gen
        => c = d
HolderIsLive ==
    \A c \in Callers : caller[c].pc = "waiting" => gate[caller[c].gen].poison = "live"

\* The generation under construction is the run loop's alone.
RebuildIsAlone ==
    caller[Loop].create /\ caller[Loop].pc \notin {"idle", "retire"} =>
      /\ caller[Loop].gen # current
      /\ \A d \in Callers \ {Loop} :
           caller[d].pc # "idle" => caller[d].gen # caller[Loop].gen

PoisonedIsShut == \A g \in Gen : gate[g].poison # "live" => transport[g] # "open"

\* A slot still ahead is the latest reservation of its generation.
SlotsAreOwned ==
    \A c \in Callers : caller[c].slot > 0 =>
      /\ slotOwner[caller[c].gen] = c
      /\ caller[c].slot <= gate[caller[c].gen].next

GateInv ==
    /\ TypeOK
    /\ CallsAreBound /\ OneHolder /\ HolderIsLive /\ RebuildIsAlone
    /\ PoisonedIsShut /\ SlotsAreOwned
    /\ AbandonedAreCounted /\ NoTransportLeaks /\ AbandonedAreIsolated

-----------------------------------------------------------------------------
(***************************************************************************)
(* Types.                                                                  *)
(***************************************************************************)
LEMMA GateTypes ==
    ASSUME TypeOK
    PROVE  /\ \A g \in Gen : /\ gate[g] \in GateRecord
                             /\ gate[g].rate \in 1 .. FullRate /\ gate[g].next \in Nat
                             /\ gate[g].retry \in Nat
                             /\ gate[g].poison \in {"live", "stalled", "closed"}
           /\ \A c \in Callers : /\ caller[c] \in CallerRecord
                                 /\ caller[c].pc \in Pcs /\ caller[c].gen \in Gen \cup {0}
                                 /\ caller[c].prio \in Priorities
                                 /\ caller[c].create \in BOOLEAN /\ caller[c].slot \in Nat
           /\ gate \in [Gen -> GateRecord] /\ caller \in [Callers -> CallerRecord]
<1>1. gate \in [Gen -> GateRecord] /\ caller \in [Callers -> CallerRecord]
  BY DEF TypeOK, GateRecord, CallerRecord, Pcs
<1>2. \A r \in GateRecord : /\ r.rate \in 1 .. FullRate /\ r.next \in Nat /\ r.retry \in Nat
                            /\ r.poison \in {"live", "stalled", "closed"}
  BY DEF GateRecord
<1>3. \A r \in CallerRecord : /\ r.pc \in Pcs /\ r.gen \in Gen \cup {0} /\ r.prio \in Priorities
                              /\ r.create \in BOOLEAN /\ r.slot \in Nat
  BY DEF CallerRecord
<1> QED
  BY <1>1, <1>2, <1>3

\* The interval between two requests is a number of time units.
LEMMA IntervalType ==
    ASSUME NEW rate \in 1 .. FullRate
    PROVE  Interval(rate) \in Nat
  BY BoundsAssumption DEF Interval

LEMMA GenFinite ==
    /\ IsFiniteSet(Gen)
    /\ \A S \in SUBSET Gen : IsFiniteSet(S) /\ Cardinality(S) \in Nat
<1>1. IsFiniteSet(Gen)
  BY BoundsAssumption, FS_Interval DEF Gen
<1>2. \A S \in SUBSET Gen : IsFiniteSet(S)
  BY <1>1, FS_Subset
<1> QED
  BY <1>1, <1>2, FS_CardinalityType

LEMMA InitGate == Init => GateInv
<1> SUFFICES ASSUME Init PROVE GateInv
  OBVIOUS
<1> USE BoundsAssumption, CallersAssumption
<1>1. 1 \in Gen /\ FreshGate \in GateRecord /\ Idle \in CallerRecord
  BY DEF Gen, FreshGate, GateRecord, Idle, CallerRecord, Pcs, Priorities
<1>2. TypeOK
  BY <1>1 DEF Init, TypeOK, GateRecord, CallerRecord, Pcs
<1>3. \A c \in Callers : caller[c].pc = "idle" /\ caller[c].slot = 0 /\ ~caller[c].create
                         /\ caller[c].prio = "essential"
  BY DEF Init, Idle
<1>4. \A g \in Gen : gate[g].poison = "live"
  BY DEF Init, FreshGate
<1>5. AbandonedAreCounted
  BY FS_EmptySet DEF Init, AbandonedAreCounted
<1>6. NoTransportLeaks /\ AbandonedAreIsolated
  BY DEF Init, NoTransportLeaks, AbandonedAreIsolated
<1>7. CallsAreBound /\ OneHolder /\ HolderIsLive /\ RebuildIsAlone /\ SlotsAreOwned
  BY <1>3 DEF CallsAreBound, OneHolder, HolderIsLive, RebuildIsAlone, SlotsAreOwned
<1>8. PoisonedIsShut
  BY <1>4 DEF PoisonedIsShut
<1> QED
  BY <1>2, <1>5, <1>6, <1>7, <1>8 DEF GateInv

-----------------------------------------------------------------------------
(***************************************************************************)
(* Steps of one call.                                                      *)
(***************************************************************************)
\* Only a rebuild closes its generation when it ends, and only a live one.
ClosesAtMost(c) ==
    \A g \in Gen : \/ gate'[g].poison = gate[g].poison
                   \/ /\ g = caller[c].gen /\ caller[c].create
                      /\ gate[g].poison = "live" /\ gate'[g].poison = "closed"

\* A call that ends leaves nothing behind but its generation's pacing.
LEMMA CallEnds ==
    ASSUME GateInv, NEW c \in Callers, caller[c].pc \notin {"idle", "wrap", "retire"},
           UNCHANGED <<current, stuck, transport, abandoned, slotOwner>>,
           restart' \in BOOLEAN, caller' = [caller EXCEPT ![c] = Idle],
           gate' \in [Gen -> GateRecord], ClosesAtMost(c),
           \A d \in Callers : d # c /\ caller[d].slot > 0 =>
             caller[d].slot <= gate'[caller[d].gen].next
    PROVE  GateInv'
<1> USE DEF GateInv
<1>1. /\ \A d \in Callers : caller'[d] = IF d = c THEN Idle ELSE caller[d]
      /\ Idle.pc = "idle" /\ Idle.slot = 0 /\ Idle.create = FALSE /\ Idle.gen = 0
      /\ Idle.prio = "essential" /\ Idle \in CallerRecord
  BY GateTypes DEF Idle, CallerRecord, Pcs, Priorities
<1>2. TypeOK'
  BY <1>1, GateTypes DEF TypeOK, GateRecord, CallerRecord, Pcs
<1>3. CallsAreBound'
  BY <1>1 DEF CallsAreBound
<1>4. OneHolder'
  BY <1>1 DEF OneHolder
<1>5. HolderIsLive'
  <2> SUFFICES ASSUME NEW d \in Callers, caller'[d].pc = "waiting"
               PROVE  gate'[caller'[d].gen].poison = "live"
    BY DEF HolderIsLive
  <2>1. /\ d # c /\ caller'[d] = caller[d] /\ caller[d].gen \in Gen
        /\ gate[caller[d].gen].poison = "live"
    BY <1>1 DEF HolderIsLive, CallsAreBound
  <2>2. caller[c].create => c = Loop /\ caller[d].gen # caller[c].gen
    BY <2>1, <1>1 DEF CallsAreBound, RebuildIsAlone
  <2> QED
    BY <2>1, <2>2 DEF ClosesAtMost
<1>6. RebuildIsAlone'
  BY <1>1, CallersAssumption DEF RebuildIsAlone
<1>7. NoTransportLeaks'
  BY <1>1, CallersAssumption DEF NoTransportLeaks
<1>8. PoisonedIsShut'
  <2>1. caller[c].create => transport[caller[c].gen] # "open"
    BY DEF CallsAreBound, RebuildIsAlone, NoTransportLeaks
  <2> QED
    BY <2>1 DEF PoisonedIsShut, ClosesAtMost
<1>9. SlotsAreOwned'
  BY <1>1 DEF SlotsAreOwned
<1>10. AbandonedAreCounted'
  BY DEF AbandonedAreCounted
<1>11. AbandonedAreIsolated'
  <2>1. \A g \in Gen : Held(g)' => Held(g)
    BY <1>1 DEF Held
  <2>2. stuck \subseteq Gen
    BY DEF TypeOK
  <2> QED
    BY <2>1, <2>2 DEF AbandonedAreIsolated, ClosesAtMost
<1> QED
  BY <1>2, <1>3, <1>4, <1>5, <1>6, <1>7, <1>8, <1>9, <1>10, <1>11

\* An error of the call closes the generation it was to build.
LEMMA RaiseEnds ==
    ASSUME GateInv, NEW c \in Callers, caller[c].pc \notin {"idle", "wrap", "retire"},
           UNCHANGED <<current, stuck, transport, abandoned, slotOwner>>,
           restart' \in BOOLEAN, Raise(c)
    PROVE  GateInv'
<1> DEFINE g == caller[c].gen
<1>1. gate' = gate \/ (caller[c].create /\ gate[g].poison = "live"
                       /\ gate' = [gate EXCEPT ![g].poison = "closed"])
  BY DEF Raise
<1>2. g \in Gen /\ gate \in [Gen -> GateRecord] /\ \A h \in Gen : gate[h].next \in Nat
  BY GateTypes DEF GateInv, CallsAreBound
<1> HIDE DEF g
<1>3. gate' \in [Gen -> GateRecord]
  BY <1>1, <1>2 DEF GateRecord
<1>4. \A h \in Gen : gate'[h].next = gate[h].next
  BY <1>1, <1>2 DEF GateRecord
<1>5. ClosesAtMost(c)
  BY <1>1, <1>2 DEF ClosesAtMost, GateRecord, g
<1>6. \A d \in Callers : d # c /\ caller[d].slot > 0 =>
        caller[d].slot <= gate'[caller[d].gen].next
  BY <1>4, GateTypes DEF GateInv, SlotsAreOwned, CallsAreBound
<1> QED
  BY <1>3, <1>5, <1>6, CallEnds DEF Raise

\* A call goes on, to the worker only when the lock is free and its generation live.
LEMMA CallProceeds ==
    ASSUME GateInv, NEW c \in Callers, caller[c].pc \notin {"idle", "wrap", "retire"},
           NEW p \in Pcs \ {"idle", "wrap", "retire"},
           UNCHANGED <<current, gate, stuck, transport, abandoned, restart, slotOwner>>,
           caller' = [caller EXCEPT ![c].pc = p],
           p = "waiting" => ~Held(caller[c].gen) /\ gate[caller[c].gen].poison = "live"
    PROVE  GateInv'
<1> USE DEF GateInv
<1>1. \A d \in Callers :
        /\ caller'[d].gen = caller[d].gen /\ caller'[d].prio = caller[d].prio
        /\ caller'[d].create = caller[d].create /\ caller'[d].slot = caller[d].slot
        /\ caller'[d].pc = (IF d = c THEN p ELSE caller[d].pc)
  BY GateTypes DEF CallerRecord
<1>2. TypeOK'
  <2>1. caller' \in [Callers -> CallerRecord]
    BY GateTypes DEF CallerRecord
  <2> QED
    BY <2>1 DEF TypeOK, CallerRecord, Pcs
<1>3. CallsAreBound'
  BY <1>1 DEF CallsAreBound
<1>4. OneHolder'
  BY <1>1 DEF OneHolder, Held
<1>5. HolderIsLive'
  BY <1>1 DEF HolderIsLive
<1>6. RebuildIsAlone'
  BY <1>1, CallersAssumption DEF RebuildIsAlone
<1>7. NoTransportLeaks'
  BY <1>1, CallersAssumption DEF NoTransportLeaks
<1>8. SlotsAreOwned'
  BY <1>1 DEF SlotsAreOwned
<1>9. PoisonedIsShut' /\ AbandonedAreCounted'
  BY DEF PoisonedIsShut, AbandonedAreCounted
<1>10. AbandonedAreIsolated'
  <2>1. \A g \in Gen : Held(g)' => Held(g) \/ gate[g].poison = "live"
    BY <1>1 DEF Held
  <2>2. stuck \subseteq Gen
    BY DEF TypeOK
  <2> QED
    BY <2>1, <2>2 DEF AbandonedAreIsolated
<1> QED
  BY <1>2, <1>3, <1>4, <1>5, <1>6, <1>7, <1>8, <1>9, <1>10

-----------------------------------------------------------------------------
(***************************************************************************)
(* The actions of a call.                                                  *)
(***************************************************************************)
LEMMA BeginKeeps ==
    ASSUME GateInv, NEW c \in Callers, NEW p \in Priorities, Begin(c, p)
    PROVE  GateInv'
<1> USE DEF GateInv
<1> DEFINE r == [Idle EXCEPT !.pc = "enter", !.gen = current, !.prio = p]
<1>1. /\ r.pc = "enter" /\ r.gen = current /\ r.prio = p /\ r.create = FALSE /\ r.slot = 0
      /\ r \in CallerRecord /\ current \in Gen
  BY DEF Idle, CallerRecord, Pcs, TypeOK
<1>2. /\ caller' = [caller EXCEPT ![c] = r] /\ caller[c].pc = "idle"
      /\ UNCHANGED <<current, gate, stuck, transport, abandoned, restart, slotOwner>>
  BY DEF Begin
<1> HIDE DEF r
<1>3. \A d \in Callers : caller'[d] = IF d = c THEN r ELSE caller[d]
  BY <1>2, GateTypes
<1>4. TypeOK'
  <2>1. caller' \in [Callers -> CallerRecord]
    BY <1>1, <1>2, GateTypes
  <2> QED
    BY <1>2, <2>1 DEF TypeOK, CallerRecord, Pcs
<1>5. CallsAreBound'
  BY <1>1, <1>2, <1>3 DEF CallsAreBound
<1>6. OneHolder' /\ HolderIsLive'
  BY <1>1, <1>2, <1>3 DEF OneHolder, HolderIsLive
<1>7. RebuildIsAlone'
  BY <1>1, <1>2, <1>3, CallersAssumption DEF RebuildIsAlone
<1>8. NoTransportLeaks'
  BY <1>1, <1>2, <1>3, CallersAssumption DEF NoTransportLeaks
<1>9. SlotsAreOwned'
  BY <1>1, <1>2, <1>3 DEF SlotsAreOwned
<1>10. PoisonedIsShut' /\ AbandonedAreCounted'
  BY <1>2 DEF PoisonedIsShut, AbandonedAreCounted
<1>11. AbandonedAreIsolated'
  <2>1. \A g \in Gen : Held(g)' => Held(g)
    BY <1>1, <1>3 DEF Held
  <2>2. stuck \subseteq Gen
    BY DEF TypeOK
  <2> QED
    BY <1>2, <2>1, <2>2 DEF AbandonedAreIsolated
<1> QED
  BY <1>4, <1>5, <1>6, <1>7, <1>8, <1>9, <1>10, <1>11

LEMMA DeferKeeps ==
    ASSUME GateInv, NEW c \in Callers, Defer(c) \/ RejectPoisoned(c)
    PROVE  GateInv'
<1>1. caller[c].pc \in {"enter", "locked"} /\ Raise(c)
      /\ UNCHANGED <<current, stuck, transport, abandoned, restart, slotOwner>>
  BY DEF Defer, RejectPoisoned
<1>2. restart' \in BOOLEAN
  BY <1>1 DEF GateInv, TypeOK
<1> QED
  BY <1>1, <1>2, RaiseEnds

LEMMA RejectFullKeeps ==
    ASSUME GateInv, NEW c \in Callers, RejectFull(c)
    PROVE  GateInv'
<1>1. /\ caller[c].pc = "locked" /\ caller' = [caller EXCEPT ![c] = Idle]
      /\ UNCHANGED <<current, gate, stuck, transport, abandoned, slotOwner>>
      /\ restart' = (restart \/ c = Loop)
  BY DEF RejectFull
<1>2. restart' \in BOOLEAN
  BY <1>1 DEF GateInv, TypeOK
<1>3. gate' \in [Gen -> GateRecord]
  BY <1>1, GateTypes DEF GateInv
<1>4. ClosesAtMost(c)
  BY <1>1 DEF ClosesAtMost
<1>5. \A d \in Callers : d # c /\ caller[d].slot > 0 =>
        caller[d].slot <= gate'[caller[d].gen].next
  BY <1>1 DEF GateInv, SlotsAreOwned
<1> QED
  BY <1>1, <1>2, <1>3, <1>4, <1>5, CallEnds

LEMMA SubmitKeeps ==
    ASSUME GateInv, NEW c \in Callers, Submit(c)
    PROVE  GateInv'
<1>1. "waiting" \in Pcs \ {"idle", "wrap", "retire"}
  BY DEF Pcs
<1> QED
  BY <1>1, CallProceeds DEF Submit

LEMMA AdmitKeeps ==
    ASSUME GateInv, NEW c \in Callers, Admit(c)
    PROVE  GateInv'
<1> USE DEF GateInv
<1> DEFINE g == caller[c].gen
           slot == Interval(gate[g].rate)
<1>1. /\ caller[c].pc = "enter" /\ g \in Gen
      /\ UNCHANGED <<current, stuck, transport, abandoned, restart>>
  BY DEF Admit, CallsAreBound
<1>2. CASE /\ caller[c].prio = "essential" /\ caller' = [caller EXCEPT ![c].pc = "locked"]
           /\ UNCHANGED <<gate, slotOwner>>
  <2>1. "locked" \in Pcs \ {"idle", "wrap", "retire"}
    BY DEF Pcs
  <2> QED
    BY <1>1, <1>2, <2>1, CallProceeds
<1>3. CASE /\ caller[c].prio = "paced" /\ gate[g].next = 0
           /\ gate' = [gate EXCEPT ![g].next = slot]
           /\ caller' = [caller EXCEPT ![c].pc = "locked", ![c].slot = slot]
           /\ slotOwner' = [slotOwner EXCEPT ![g] = c]
  <2>1. slot \in Nat
    BY <1>1, GateTypes, IntervalType
  <2> HIDE DEF slot, g
  <2>2. \A d \in Callers :
          /\ caller'[d].gen = caller[d].gen /\ caller'[d].prio = caller[d].prio
          /\ caller'[d].create = caller[d].create
          /\ caller'[d].slot = (IF d = c THEN slot ELSE caller[d].slot)
          /\ caller'[d].pc = (IF d = c THEN "locked" ELSE caller[d].pc)
    BY <1>3, GateTypes DEF CallerRecord
  <2>3. \A h \in Gen : /\ gate'[h].poison = gate[h].poison
                       /\ gate'[h].next = (IF h = g THEN slot ELSE gate[h].next)
    BY <1>3, GateTypes DEF GateRecord
  <2>4. TypeOK'
    <3>1. caller' \in [Callers -> CallerRecord]
      <4> DEFINE r == [caller[c] EXCEPT !.pc = "locked", !.slot = slot]
      <4>1. r \in CallerRecord
        BY <2>1, GateTypes DEF CallerRecord, Pcs
      <4>2. caller' = [caller EXCEPT ![c] = r]
        BY <1>3, GateTypes
      <4> HIDE DEF r
      <4> QED
        BY <4>1, <4>2, GateTypes
    <3>2. gate' \in [Gen -> GateRecord]
      BY <1>1, <1>3, <2>1, GateTypes DEF GateRecord
    <3>3. slotOwner' \in [Gen -> Callers \cup {Nobody}]
      BY <1>1, <1>3 DEF TypeOK, g
    <3>4. current' \in Gen /\ stuck' \subseteq Gen /\ abandoned' \in Nat /\ restart' \in BOOLEAN
          /\ transport' \in [Gen -> {"none", "open", "closing", "closed"}]
      BY <1>1 DEF TypeOK
    <3> QED
      BY <3>1, <3>2, <3>3, <3>4 DEF TypeOK, CallerRecord, GateRecord, Pcs
  <2>5. CallsAreBound'
    <3> SUFFICES ASSUME NEW d \in Callers
                 PROVE  /\ caller'[d].pc = "idle" => caller'[d].slot = 0
                        /\ caller'[d].pc # "idle" => caller'[d].gen \in Gen
                        /\ caller'[d].create \/ caller'[d].pc \in {"wrap", "retire"} => d = Loop
                        /\ caller'[d].pc = "wrap" => caller'[d].create
                        /\ caller'[d].create => caller'[d].prio = "essential"
                        /\ caller'[d].prio = "essential" => caller'[d].slot = 0
      BY DEF CallsAreBound
    <3>1. /\ caller[d].pc = "idle" => caller[d].slot = 0
          /\ caller[d].pc # "idle" => caller[d].gen \in Gen
          /\ caller[d].create \/ caller[d].pc \in {"wrap", "retire"} => d = Loop
          /\ caller[d].pc = "wrap" => caller[d].create
          /\ caller[d].create => caller[d].prio = "essential"
          /\ caller[d].prio = "essential" => caller[d].slot = 0
      BY DEF CallsAreBound
    <3>2. CASE d = c
      <4>1. /\ caller[c].pc = "enter" /\ caller[c].prio = "paced" /\ caller'[c].pc = "locked"
            /\ caller'[c].prio = caller[c].prio /\ caller'[c].gen = caller[c].gen
            /\ caller'[c].create = caller[c].create
        BY <1>1, <1>3, <2>2
      <4> QED
        BY <3>1, <3>2, <4>1
    <3>3. CASE d # c
      BY <2>2, <3>1, <3>3
    <3> QED
      BY <3>2, <3>3
  <2>6. OneHolder'
    BY <2>2 DEF OneHolder
  <2>7. HolderIsLive'
    BY <2>2, <2>3 DEF HolderIsLive, CallsAreBound
  <2>8. RebuildIsAlone'
    <3>1. current' = current /\ caller[c].pc = "enter"
      BY <1>1
    <3> QED
      BY <3>1, <2>2, CallersAssumption DEF RebuildIsAlone
  <2>9. NoTransportLeaks'
    BY <1>1, <2>2, CallersAssumption DEF NoTransportLeaks
  <2>10. PoisonedIsShut' /\ AbandonedAreCounted'
    BY <1>1, <2>3 DEF PoisonedIsShut, AbandonedAreCounted
  <2>11. SlotsAreOwned'
    <3> SUFFICES ASSUME NEW d \in Callers, caller'[d].slot > 0
                 PROVE  /\ slotOwner'[caller'[d].gen] = d
                        /\ caller'[d].slot <= gate'[caller'[d].gen].next
      BY DEF SlotsAreOwned
    <3>1. CASE d = c
      <4>1. slotOwner'[g] = c
        BY <1>1, <1>3 DEF TypeOK
      <4>2. caller'[d].gen = g
        BY <2>2, <3>1 DEF g
      <4>3. caller'[d].slot = slot /\ gate'[g].next = slot /\ slot <= slot
        BY <1>1, <2>1, <2>2, <2>3, <3>1
      <4> QED
        BY <3>1, <4>1, <4>2, <4>3
    <3>2. CASE d # c
      <4>1. /\ caller'[d].slot = caller[d].slot /\ caller'[d].gen = caller[d].gen
            /\ slotOwner[caller[d].gen] = d /\ caller[d].slot <= gate[caller[d].gen].next
            /\ caller[d].gen \in Gen /\ caller[d].slot \in Nat
        BY <2>2, <3>2, GateTypes DEF SlotsAreOwned, CallsAreBound
      <4>2. caller[d].gen # g
        BY <1>3, <4>1, <2>2
      <4>3. slotOwner'[caller[d].gen] = slotOwner[caller[d].gen]
        BY <1>1, <1>3, <4>1, <4>2 DEF TypeOK
      <4> QED
        BY <2>3, <4>1, <4>2, <4>3
    <3> QED
      BY <3>1, <3>2
  <2>12. AbandonedAreIsolated'
    <3>1. \A h \in Gen : Held(h)' => Held(h)
      BY <2>2 DEF Held
    <3>2. stuck \subseteq Gen
      BY DEF TypeOK
    <3> QED
      BY <1>1, <2>3, <3>1, <3>2 DEF AbandonedAreIsolated
  <2> QED
    BY <2>4, <2>5, <2>6, <2>7, <2>8, <2>9, <2>10, <2>11, <2>12
<1> QED
  BY <1>2, <1>3 DEF Admit

LEMMA CompleteKeeps ==
    ASSUME GateInv, NEW c \in Callers, Complete(c)
    PROVE  GateInv'
<1> USE DEF GateInv
<1> DEFINE g == caller[c].gen
<1>1. /\ caller[c].pc = "waiting" /\ g \in Gen
      /\ UNCHANGED <<current, stuck, abandoned, restart, slotOwner>>
      /\ restart' \in BOOLEAN
  BY DEF Complete, CallsAreBound, TypeOK
<1>2. {"succeeded", "throttled"} \subseteq Pcs \ {"idle", "wrap", "retire"}
  BY DEF Pcs
<1>3. CASE /\ caller[c].create /\ transport' = [transport EXCEPT ![g] = "open"]
           /\ caller' = [caller EXCEPT ![c].pc = "wrap"] /\ UNCHANGED gate
  <2>1. \A d \in Callers :
          /\ caller'[d].gen = caller[d].gen /\ caller'[d].prio = caller[d].prio
          /\ caller'[d].create = caller[d].create /\ caller'[d].slot = caller[d].slot
          /\ caller'[d].pc = (IF d = c THEN "wrap" ELSE caller[d].pc)
    BY <1>3, GateTypes DEF CallerRecord
  <2>2. c = Loop /\ gate[g].poison = "live" /\ Held(g)
    BY <1>1, <1>3 DEF CallsAreBound, HolderIsLive, Held
  <2>3. \A h \in Gen : transport'[h] = (IF h = g THEN "open" ELSE transport[h])
    BY <1>3 DEF TypeOK
  <2>4. caller'[Loop].pc = "wrap" /\ caller'[Loop].gen = g
    BY <2>1, <2>2
  <2> HIDE DEF g
  <2>5. TypeOK'
    <3>1. caller' \in [Callers -> CallerRecord]
      BY <1>3, GateTypes DEF CallerRecord, Pcs
    <3>2. transport' \in [Gen -> {"none", "open", "closing", "closed"}]
      BY <1>3 DEF TypeOK
    <3> QED
      BY <1>1, <1>3, <3>1, <3>2 DEF TypeOK, CallerRecord, Pcs
  <2>6. CallsAreBound'
    BY <1>1, <1>3, <2>1, <2>2 DEF CallsAreBound
  <2>7. OneHolder' /\ HolderIsLive'
    BY <1>3, <2>1 DEF OneHolder, HolderIsLive
  <2>8. RebuildIsAlone'
    BY <1>1, <2>1, <2>2, CallersAssumption DEF RebuildIsAlone
  <2>9. NoTransportLeaks'
    <3>1. caller[Loop].pc = "waiting" /\ current' = current
      BY <1>1, <2>2
    <3> QED
      BY <2>3, <2>4, <3>1 DEF NoTransportLeaks
  <2>10. PoisonedIsShut'
    BY <1>3, <2>2, <2>3 DEF PoisonedIsShut
  <2>11. SlotsAreOwned' /\ AbandonedAreCounted'
    BY <1>1, <1>3, <2>1 DEF SlotsAreOwned, AbandonedAreCounted
  <2>12. AbandonedAreIsolated'
    <3>1. \A h \in Gen : Held(h)' => Held(h)
      BY <2>1 DEF Held
    <3>2. stuck \subseteq Gen
      BY DEF TypeOK
    <3>3. g \notin stuck
      BY <2>2 DEF AbandonedAreIsolated
    <3> QED
      BY <1>1, <1>3, <2>3, <3>1, <3>2, <3>3 DEF AbandonedAreIsolated
  <2> QED
    BY <2>5, <2>6, <2>7, <2>8, <2>9, <2>10, <2>11, <2>12
<1>4. CASE /\ ~caller[c].create /\ UNCHANGED <<transport, gate>>
           /\ caller' = IF caller[c].prio = "paced"
                        THEN [caller EXCEPT ![c].pc = "succeeded"]
                        ELSE [caller EXCEPT ![c] = Idle]
  <2>1. CASE caller[c].prio = "paced"
    BY <1>1, <1>2, <1>4, <2>1, CallProceeds
  <2>2. CASE caller[c].prio # "paced"
    <3>1. gate' \in [Gen -> GateRecord]
      BY <1>4, GateTypes
    <3>2. ClosesAtMost(c)
      BY <1>4 DEF ClosesAtMost
    <3>3. \A d \in Callers : d # c /\ caller[d].slot > 0 =>
            caller[d].slot <= gate'[caller[d].gen].next
      BY <1>4 DEF SlotsAreOwned
    <3> QED
      BY <1>1, <1>4, <2>2, <3>1, <3>2, <3>3, CallEnds
  <2> QED
    BY <2>1, <2>2
<1>5. CASE caller' = [caller EXCEPT ![c].pc = "throttled"] /\ UNCHANGED <<transport, gate>>
  BY <1>1, <1>2, <1>5, CallProceeds
<1>6. CASE Raise(c) /\ UNCHANGED transport
  BY <1>1, <1>6, RaiseEnds
<1> QED
  BY <1>3, <1>4, <1>5, <1>6 DEF Complete

LEMMA TimeOutKeeps ==
    ASSUME GateInv, NEW c \in Callers, TimeOut(c)
    PROVE  GateInv'
<1> USE DEF GateInv
<1> DEFINE g == caller[c].gen
<1>1. /\ caller[c].pc = "waiting" /\ g \in Gen /\ Held(g) /\ gate[g].poison = "live"
      /\ current' = current /\ restart' = restart /\ slotOwner' = slotOwner
      /\ gate' = [gate EXCEPT ![g].poison = "stalled"]
      /\ caller' = [caller EXCEPT ![c] = Idle]
  BY DEF TimeOut, Poisoned, CallsAreBound, HolderIsLive, Held
<1>2. /\ (stuck' = stuck \cup {g} /\ abandoned' = abandoned + 1)
           \/ UNCHANGED <<stuck, abandoned>>
      /\ transport' = IF transport[g] = "open"
                      THEN [transport EXCEPT ![g] = "closing"] ELSE transport
  BY DEF TimeOut, CountAbandoned
<1>3. /\ \A d \in Callers : caller'[d] = IF d = c THEN Idle ELSE caller[d]
      /\ Idle.pc = "idle" /\ Idle.slot = 0 /\ Idle.create = FALSE /\ Idle.gen = 0
      /\ Idle.prio = "essential" /\ Idle \in CallerRecord
  BY <1>1, GateTypes DEF Idle, CallerRecord, Pcs, Priorities
<1>4. \A d \in Callers : caller[d].pc = "waiting" /\ caller[d].gen = g => d = c
  BY <1>1 DEF OneHolder
<1> HIDE DEF g
<1>5. \A h \in Gen : /\ gate'[h].next = gate[h].next
                     /\ gate'[h].poison = (IF h = g THEN "stalled" ELSE gate[h].poison)
  BY <1>1, GateTypes DEF GateRecord
<1>6. /\ \A h \in Gen : transport'[h] = "open" => transport[h] = "open" /\ h # g
      /\ transport' \in [Gen -> {"none", "open", "closing", "closed"}]
  BY <1>1, <1>2 DEF TypeOK
<1>7. g \notin stuck /\ stuck \subseteq Gen
  BY <1>1 DEF AbandonedAreIsolated, TypeOK
<1>8. TypeOK'
  <2>1. caller' \in [Callers -> CallerRecord]
    BY <1>1, <1>3, GateTypes
  <2>2. gate' \in [Gen -> GateRecord]
    BY <1>1, GateTypes DEF GateRecord
  <2>3. stuck' \subseteq Gen /\ abandoned' \in Nat
    BY <1>1, <1>2 DEF TypeOK
  <2>4. current' \in Gen /\ restart' \in BOOLEAN /\ slotOwner' \in [Gen -> Callers \cup {Nobody}]
    BY <1>1 DEF TypeOK
  <2> QED
    BY <1>6, <2>1, <2>2, <2>3, <2>4 DEF TypeOK, CallerRecord, GateRecord, Pcs
<1>9. CallsAreBound'
  BY <1>3 DEF CallsAreBound
<1>10. OneHolder'
  BY <1>3 DEF OneHolder
<1>11. HolderIsLive'
  BY <1>3, <1>4, <1>5 DEF HolderIsLive, CallsAreBound
<1>12. RebuildIsAlone'
  BY <1>1, <1>3, CallersAssumption DEF RebuildIsAlone
<1>13. NoTransportLeaks'
  <2>1. caller[Loop].pc \in {"wrap", "retire"} => caller'[Loop] = caller[Loop]
    BY <1>1, <1>3, CallersAssumption
  <2> QED
    BY <1>1, <1>6, <2>1 DEF NoTransportLeaks
<1>14. PoisonedIsShut'
  BY <1>5, <1>6 DEF PoisonedIsShut
<1>15. SlotsAreOwned'
  BY <1>1, <1>3, <1>5 DEF SlotsAreOwned, CallsAreBound
<1>16. AbandonedAreCounted'
  <2>1. CASE stuck' = stuck \cup {g} /\ abandoned' = abandoned + 1
    BY <1>7, <2>1, GenFinite, FS_AddElement DEF AbandonedAreCounted
  <2>2. CASE UNCHANGED <<stuck, abandoned>>
    BY <2>2 DEF AbandonedAreCounted
  <2> QED
    BY <1>2, <2>1, <2>2
<1>17. AbandonedAreIsolated'
  <2>1. \A h \in Gen : Held(h)' => Held(h) /\ h # g
    BY <1>3, <1>4 DEF Held
  <2>2. stuck' \subseteq stuck \cup {g}
    BY <1>2
  <2> QED
    BY <1>1, <1>5, <1>6, <1>7, <2>1, <2>2 DEF AbandonedAreIsolated
<1> QED
  BY <1>8, <1>9, <1>10, <1>11, <1>12, <1>13, <1>14, <1>15, <1>16, <1>17

\* A throttled call slows its generation down: no reservation comes nearer.
LEMMA ThrottleMoves ==
    ASSUME GateInv, NEW c \in Callers, RecordThrottle(c)
    PROVE  /\ gate' \in [Gen -> GateRecord]
           /\ ClosesAtMost(c)
           /\ \A h \in Gen : gate'[h].next >= gate[h].next
<1> USE DEF GateInv
<1> DEFINE g == caller[c].gen
           rate == Larger(1, gate[g].rate \div 2)
<1>1. /\ caller[c].pc = "throttled" /\ g \in Gen
  BY DEF RecordThrottle, CallsAreBound
<1>2. gate[g].rate \in 1 .. FullRate /\ gate[g].next \in Nat /\ gate[g].retry \in Nat
  BY <1>1, GateTypes
<1>3. rate \in 1 .. FullRate
  BY <1>2, BoundsAssumption DEF Larger
<1>4. PICK hint \in Hints :
        LET retry == Larger(gate[g].retry, IF hint # 0 THEN hint ELSE Interval(rate))
        IN gate' = [gate EXCEPT ![g] =
                      [rate |-> rate, retry |-> retry, next |-> Larger(@.next, retry),
                       poison |-> IF caller[c].create /\ @.poison = "live"
                                  THEN "closed" ELSE @.poison]]
  BY DEF RecordThrottle
<1> DEFINE retry == Larger(gate[g].retry, IF hint # 0 THEN hint ELSE Interval(rate))
           next == Larger(gate[g].next, retry)
           poison == IF caller[c].create /\ gate[g].poison = "live"
                     THEN "closed" ELSE gate[g].poison
           r == [rate |-> rate, retry |-> retry, next |-> next, poison |-> poison]
<1>5. retry \in Nat
  <2>1. hint \in Nat
    BY BoundsAssumption
  <2>2. Interval(rate) \in Nat
    BY <1>3, IntervalType
  <2> QED
    BY <1>2, <2>1, <2>2 DEF Larger
<1>6. next \in Nat /\ next >= gate[g].next
  BY <1>2, <1>5 DEF Larger
<1>7. r \in GateRecord
  <2>1. poison \in {"live", "stalled", "closed"}
    BY <1>1, GateTypes
  <2> HIDE DEF rate, retry, next, poison
  <2> QED
    BY <1>3, <1>5, <1>6, <2>1 DEF GateRecord
<1>8. gate' = [gate EXCEPT ![g] = r]
  BY <1>4
<1>9. r.next = next /\ r.poison = poison
  OBVIOUS
<1> HIDE DEF r, g
<1>10. gate' \in [Gen -> GateRecord]
  BY <1>7, <1>8, GateTypes
<1>11. \A h \in Gen : gate'[h] = IF h = g THEN r ELSE gate[h]
  BY <1>8, GateTypes
<1>12. ClosesAtMost(c)
  BY <1>9, <1>11 DEF ClosesAtMost, g
<1>13. \A h \in Gen : gate'[h].next >= gate[h].next
  <2> SUFFICES ASSUME NEW h \in Gen PROVE gate'[h].next >= gate[h].next
    OBVIOUS
  <2>1. gate[h].next \in Nat
    BY GateTypes
  <2> QED
    BY <1>6, <1>9, <1>11, <2>1
<1> QED
  BY <1>10, <1>12, <1>13

LEMMA RecordThrottleKeeps ==
    ASSUME GateInv, NEW c \in Callers, RecordThrottle(c)
    PROVE  GateInv'
<1> USE DEF GateInv
<1>1. /\ caller[c].pc = "throttled" /\ caller' = [caller EXCEPT ![c] = Idle]
      /\ UNCHANGED <<current, stuck, transport, abandoned, restart, slotOwner>>
      /\ restart' \in BOOLEAN
  BY DEF RecordThrottle, TypeOK
<1>2. \A d \in Callers : d # c /\ caller[d].slot > 0 =>
        caller[d].slot <= gate'[caller[d].gen].next
  <2> SUFFICES ASSUME NEW d \in Callers, caller[d].slot > 0
               PROVE  caller[d].slot <= gate'[caller[d].gen].next
    OBVIOUS
  <2>1. caller[d].gen \in Gen /\ caller[d].slot <= gate[caller[d].gen].next
        /\ caller[d].slot \in Nat
    BY GateTypes DEF SlotsAreOwned, CallsAreBound
  <2>2. gate[caller[d].gen].next \in Nat /\ gate'[caller[d].gen] \in GateRecord
    BY <2>1, GateTypes, ThrottleMoves
  <2>3. gate'[caller[d].gen].next \in Nat
    BY <2>2 DEF GateRecord
  <2>4. gate'[caller[d].gen].next >= gate[caller[d].gen].next
    BY <2>1, ThrottleMoves
  <2> QED
    BY <2>1, <2>2, <2>3, <2>4
<1> QED
  BY <1>1, <1>2, CallEnds, ThrottleMoves

\* A success brings the next slot forward only over its own reservation.
LEMMA SuccessMoves ==
    ASSUME GateInv, NEW c \in Callers, RecordSuccess(c)
    PROVE  /\ caller[c].gen \in Gen
           /\ gate' \in [Gen -> GateRecord]
           /\ \A h \in Gen : gate'[h].poison = gate[h].poison
           /\ \A h \in Gen : gate'[h].next < gate[h].next =>
                h = caller[c].gen /\ gate[h].next = caller[c].slot
<1> USE DEF GateInv
<1> DEFINE g == caller[c].gen
           rate == IF gate[g].rate < FullRate THEN gate[g].rate + 1 ELSE FullRate
           next == RecoveredNext(gate[g].next, Interval(rate), caller[c].slot)
<1>1. /\ g \in Gen
      /\ gate' = IF gate[g].retry > 0 THEN gate
                 ELSE [gate EXCEPT ![g].rate = rate, ![g].next = next]
  BY DEF RecordSuccess, CallsAreBound
<1>2. gate[g].rate \in 1 .. FullRate /\ gate[g].next \in Nat /\ gate[g].retry \in Nat
  BY <1>1, GateTypes
<1>3. rate \in 1 .. FullRate
  BY <1>2, BoundsAssumption
<1>4. next \in Nat /\ (next < gate[g].next => gate[g].next = caller[c].slot)
  <2>1. Interval(rate) \in Nat
    BY <1>3, IntervalType
  <2> QED
    BY <1>2, <2>1 DEF RecoveredNext, Larger
<1> HIDE DEF rate, next, g
<1>5. /\ gate' \in [Gen -> GateRecord]
      /\ \A h \in Gen : /\ gate'[h].poison = gate[h].poison
                        /\ gate'[h].next = gate[h].next \/ (h = g /\ gate'[h].next = next)
  <2>1. CASE gate[g].retry > 0
    BY <1>1, <2>1, GateTypes
  <2>2. CASE ~(gate[g].retry > 0)
    <3> DEFINE r == [gate[g] EXCEPT !.rate = rate, !.next = next]
    <3>1. r \in GateRecord /\ r.next = next /\ r.poison = gate[g].poison
      BY <1>1, <1>3, <1>4, GateTypes DEF GateRecord
    <3>2. gate' = [gate EXCEPT ![g] = r]
      BY <1>1, <2>2, GateTypes
    <3> HIDE DEF r
    <3> QED
      BY <1>1, <3>1, <3>2, GateTypes
  <2> QED
    BY <2>1, <2>2
<1>6. \A h \in Gen : gate'[h].next < gate[h].next => h = g /\ gate[h].next = caller[c].slot
  <2> SUFFICES ASSUME NEW h \in Gen, gate'[h].next < gate[h].next
               PROVE  h = g /\ gate[h].next = caller[c].slot
    OBVIOUS
  <2>1. gate[h].next \in Nat
    BY GateTypes
  <2>2. h = g /\ gate'[h].next = next
    BY <1>5, <2>1
  <2> QED
    BY <1>4, <2>2
<1> QED
  BY <1>1, <1>5, <1>6 DEF g

LEMMA RecordSuccessKeeps ==
    ASSUME GateInv, NEW c \in Callers, RecordSuccess(c)
    PROVE  GateInv'
<1> USE DEF GateInv
<1>1. /\ caller[c].pc = "succeeded" /\ caller' = [caller EXCEPT ![c] = Idle]
      /\ UNCHANGED <<current, stuck, transport, abandoned, restart, slotOwner>>
      /\ restart' \in BOOLEAN
  BY DEF RecordSuccess, TypeOK
<1>2. ClosesAtMost(c)
  BY SuccessMoves DEF ClosesAtMost
<1>3. \A d \in Callers : d # c /\ caller[d].slot > 0 =>
        caller[d].slot <= gate'[caller[d].gen].next
  <2> SUFFICES ASSUME NEW d \in Callers, d # c, caller[d].slot > 0
               PROVE  caller[d].slot <= gate'[caller[d].gen].next
    OBVIOUS
  <2>1. /\ caller[d].gen \in Gen /\ caller[d].slot <= gate[caller[d].gen].next
        /\ caller[d].slot \in Nat /\ slotOwner[caller[d].gen] = d
    BY GateTypes DEF SlotsAreOwned, CallsAreBound
  <2>2. gate[caller[d].gen].next \in Nat /\ gate'[caller[d].gen] \in GateRecord
    BY <2>1, GateTypes, SuccessMoves
  <2>3. gate'[caller[d].gen].next \in Nat
    BY <2>2 DEF GateRecord
  <2>4. ~(gate'[caller[d].gen].next < gate[caller[d].gen].next)
    <3> SUFFICES ASSUME gate'[caller[d].gen].next < gate[caller[d].gen].next
                 PROVE  FALSE
      OBVIOUS
    <3>1. caller[d].gen = caller[c].gen /\ gate[caller[d].gen].next = caller[c].slot
      BY <2>1, SuccessMoves
    <3>2. caller[c].slot > 0
      BY <2>1, <2>2, <3>1
    <3>3. slotOwner[caller[c].gen] = c
      BY <3>2 DEF SlotsAreOwned
    <3> QED
      BY <2>1, <3>1, <3>3
  <2> QED
    BY <2>1, <2>2, <2>3, <2>4
<1> QED
  BY <1>1, <1>2, <1>3, CallEnds, SuccessMoves

-----------------------------------------------------------------------------
(***************************************************************************)
(* The end of a generation and its replacement.                            *)
(***************************************************************************)
\* A step that only changes transports, stuck workers and their count.
LEMMA WorkerKeeps ==
    ASSUME GateInv, UNCHANGED <<current, gate, caller, restart, slotOwner>>,
           transport' \in [Gen -> {"none", "open", "closing", "closed"}],
           \A g \in Gen : transport'[g] = "open" => transport[g] = "open",
           stuck' \subseteq stuck, abandoned' \in Nat, AbandonedAreCounted'
    PROVE  GateInv'
<1> USE DEF GateInv
<1>1. TypeOK'
  BY DEF TypeOK
<1>2. CallsAreBound' /\ OneHolder' /\ HolderIsLive' /\ RebuildIsAlone' /\ SlotsAreOwned'
  BY DEF CallsAreBound, OneHolder, HolderIsLive, RebuildIsAlone, SlotsAreOwned
<1>3. PoisonedIsShut' /\ NoTransportLeaks'
  BY DEF PoisonedIsShut, NoTransportLeaks
<1>4. AbandonedAreIsolated'
  <2>1. \A g \in Gen : Held(g)' = Held(g)
    BY DEF Held
  <2>2. stuck \subseteq Gen
    BY DEF TypeOK
  <2> QED
    BY <2>1, <2>2 DEF AbandonedAreIsolated
<1> QED
  BY <1>1, <1>2, <1>3, <1>4

LEMMA ClosePoisonedKeeps ==
    ASSUME GateInv, NEW g \in Gen, ClosePoisoned(g)
    PROVE  GateInv'
<1>1. /\ transport' = [transport EXCEPT ![g] = "closed"]
      /\ UNCHANGED <<current, gate, stuck, abandoned, caller, restart, slotOwner>>
  BY DEF ClosePoisoned
<1>2. /\ transport' \in [Gen -> {"none", "open", "closing", "closed"}]
      /\ \A h \in Gen : transport'[h] = "open" => transport[h] = "open"
  BY <1>1 DEF GateInv, TypeOK
<1>3. abandoned' \in Nat /\ AbandonedAreCounted'
  BY <1>1 DEF GateInv, TypeOK, AbandonedAreCounted
<1> QED
  BY <1>1, <1>2, <1>3, WorkerKeeps

LEMMA CompleteAbandonedKeeps ==
    ASSUME GateInv, NEW g \in Gen, CompleteAbandoned(g)
    PROVE  GateInv'
<1>1. /\ g \in stuck /\ stuck' = stuck \ {g} /\ abandoned' = abandoned - 1
      /\ transport' = [transport EXCEPT ![g] =
                         IF transport[g] = "none" THEN "closed" ELSE transport[g]]
      /\ UNCHANGED <<current, gate, caller, restart, slotOwner>>
  BY DEF CompleteAbandoned, Released, CleanedUp
<1>2. /\ transport' \in [Gen -> {"none", "open", "closing", "closed"}]
      /\ \A h \in Gen : transport'[h] = "open" => transport[h] = "open"
  BY <1>1 DEF GateInv, TypeOK
<1>3. stuck \in SUBSET Gen /\ abandoned = Cardinality(stuck)
  BY DEF GateInv, TypeOK, AbandonedAreCounted
<1>4. /\ Cardinality(stuck \ {g}) = Cardinality(stuck) - 1
      /\ Cardinality(stuck \ {g}) \in Nat
  <2>1. IsFiniteSet(stuck) /\ stuck \ {g} \in SUBSET Gen
    BY <1>3, GenFinite
  <2> QED
    BY <1>1, <2>1, GenFinite, FS_RemoveElement
<1>5. abandoned' \in Nat /\ AbandonedAreCounted'
  BY <1>1, <1>3, <1>4 DEF AbandonedAreCounted
<1> QED
  BY <1>1, <1>2, <1>5, WorkerKeeps

LEMMA BeginReconnectKeeps ==
    ASSUME GateInv, BeginReconnect
    PROVE  GateInv'
<1> USE DEF GateInv
<1>1. PICK g \in Gen :
        /\ Collected(g)
        /\ gate' = [gate EXCEPT ![g] = Replacement(gate[current])]
        /\ transport' = [transport EXCEPT ![g] = "none"]
        /\ caller' = [caller EXCEPT ![Loop] =
                        [Idle EXCEPT !.pc = "enter", !.gen = g, !.create = TRUE]]
        /\ slotOwner' = [slotOwner EXCEPT ![g] = Nobody]
  BY DEF BeginReconnect
<1>2. caller[Loop].pc = "idle" /\ UNCHANGED <<current, stuck, abandoned, restart>>
  BY DEF BeginReconnect
<1> DEFINE r == [Idle EXCEPT !.pc = "enter", !.gen = g, !.create = TRUE]
           new == Replacement(gate[current])
<1>3. /\ r.pc = "enter" /\ r.gen = g /\ r.create = TRUE /\ r.prio = "essential" /\ r.slot = 0
      /\ r \in CallerRecord
  BY DEF Idle, CallerRecord, Pcs, Priorities
<1>4. new \in GateRecord /\ new.poison = "live"
  <2>1. gate[current] \in GateRecord
    BY GateTypes DEF TypeOK
  <2> QED
    BY <2>1 DEF Replacement, GateRecord
<1> HIDE DEF r, new
<1>5. \A d \in Callers : caller'[d] = IF d = Loop THEN r ELSE caller[d]
  BY <1>1, GateTypes DEF r
<1>6. \A h \in Gen : /\ gate'[h] = (IF h = g THEN new ELSE gate[h])
                     /\ transport'[h] = (IF h = g THEN "none" ELSE transport[h])
                     /\ slotOwner'[h] = (IF h = g THEN Nobody ELSE slotOwner[h])
  BY <1>1 DEF TypeOK, new
<1>7. /\ g # current /\ g \notin stuck
      /\ \A d \in Callers : caller[d].pc # "idle" => caller[d].gen # g
  BY <1>1 DEF Collected
<1>8. TypeOK'
  <2>1. caller' \in [Callers -> CallerRecord]
    BY <1>1, <1>3, GateTypes DEF r
  <2>2. gate' \in [Gen -> GateRecord]
    BY <1>1, <1>4, GateTypes DEF new
  <2>3. transport' \in [Gen -> {"none", "open", "closing", "closed"}]
    BY <1>1 DEF TypeOK
  <2>4. slotOwner' \in [Gen -> Callers \cup {Nobody}]
    BY <1>1 DEF TypeOK
  <2>5. current' \in Gen /\ stuck' \subseteq Gen /\ abandoned' \in Nat /\ restart' \in BOOLEAN
    BY <1>2 DEF TypeOK
  <2> QED
    BY <2>1, <2>2, <2>3, <2>4, <2>5 DEF TypeOK, CallerRecord, GateRecord, Pcs
<1>9. CallsAreBound'
  BY <1>3, <1>5 DEF CallsAreBound
<1>10. OneHolder'
  BY <1>3, <1>5 DEF OneHolder
<1>11. HolderIsLive'
  BY <1>3, <1>5, <1>6, <1>7 DEF HolderIsLive, CallsAreBound
<1>12. RebuildIsAlone'
  BY <1>2, <1>3, <1>5, <1>7, CallersAssumption DEF RebuildIsAlone
<1>13. NoTransportLeaks'
  BY <1>2, <1>6 DEF NoTransportLeaks
<1>14. PoisonedIsShut'
  BY <1>4, <1>6 DEF PoisonedIsShut
<1>15. SlotsAreOwned'
  <2> SUFFICES ASSUME NEW d \in Callers, caller'[d].slot > 0
               PROVE  /\ slotOwner'[caller'[d].gen] = d
                      /\ caller'[d].slot <= gate'[caller'[d].gen].next
    BY DEF SlotsAreOwned
  <2>1. d # Loop /\ caller'[d] = caller[d]
    BY <1>3, <1>5
  <2>2. caller[d].pc # "idle" /\ caller[d].gen \in Gen
    BY <2>1, GateTypes DEF CallsAreBound
  <2>3. caller[d].gen # g
    BY <1>7, <2>2
  <2> QED
    BY <1>6, <2>1, <2>2, <2>3 DEF SlotsAreOwned
<1>16. AbandonedAreCounted'
  BY <1>2 DEF AbandonedAreCounted
<1>17. AbandonedAreIsolated'
  <2>1. \A h \in Gen : Held(h)' => Held(h)
    BY <1>3, <1>5 DEF Held
  <2>2. stuck \subseteq Gen
    BY DEF TypeOK
  <2> QED
    BY <1>2, <1>6, <1>7, <2>1, <2>2 DEF AbandonedAreIsolated
<1> QED
  BY <1>8, <1>9, <1>10, <1>11, <1>12, <1>13, <1>14, <1>15, <1>16, <1>17

\* The run loop ends a rebuild or a retirement: the generation it held is shut.
LEMMA GenerationEnds ==
    ASSUME GateInv, caller[Loop].pc \in {"wrap", "retire"}, ~Held(caller[Loop].gen),
           UNCHANGED <<current, stuck, abandoned, restart, slotOwner>>,
           caller' = [caller EXCEPT ![Loop] = Idle],
           \/ gate' = gate
           \/ gate[caller[Loop].gen].poison = "live"
              /\ gate' = [gate EXCEPT ![caller[Loop].gen].poison = "closed"],
           transport' \in {transport, [transport EXCEPT ![caller[Loop].gen] = "closed"]},
           transport'[caller[Loop].gen] # "open"
    PROVE  GateInv'
<1> USE DEF GateInv
<1> DEFINE g == caller[Loop].gen
<1>1. g \in Gen
  BY CallersAssumption DEF CallsAreBound
<1>2. /\ \A d \in Callers : caller'[d] = IF d = Loop THEN Idle ELSE caller[d]
      /\ Idle.pc = "idle" /\ Idle.slot = 0 /\ Idle.create = FALSE /\ Idle.gen = 0
      /\ Idle.prio = "essential" /\ Idle \in CallerRecord
  BY GateTypes DEF Idle, CallerRecord, Pcs, Priorities
<1>3. \A d \in Callers : caller[d].pc = "waiting" => caller[d].gen # g
  BY DEF Held
<1>4. g \in stuck => gate[g].poison = "stalled"
  BY DEF AbandonedAreIsolated
<1>5. /\ \A h \in Gen : transport'[h] = "open" => transport[h] = "open" /\ h # g
      /\ transport' \in [Gen -> {"none", "open", "closing", "closed"}]
  BY <1>1 DEF TypeOK
<1> HIDE DEF g
<1>6. /\ gate' \in [Gen -> GateRecord]
      /\ \A h \in Gen : /\ gate'[h].next = gate[h].next
                        /\ h # g => gate'[h].poison = gate[h].poison
                        /\ gate[h].poison # "live" => gate'[h].poison = gate[h].poison
  <2>1. CASE gate' = gate
    BY <2>1, GateTypes
  <2>2. CASE gate[g].poison = "live" /\ gate' = [gate EXCEPT ![g].poison = "closed"]
    BY <1>1, <2>2, GateTypes DEF GateRecord
  <2> QED
    BY <2>1, <2>2 DEF g
<1>7. TypeOK'
  <2>1. caller' \in [Callers -> CallerRecord]
    BY <1>2, GateTypes
  <2>2. current' \in Gen /\ stuck' \subseteq Gen /\ abandoned' \in Nat /\ restart' \in BOOLEAN
        /\ slotOwner' \in [Gen -> Callers \cup {Nobody}]
    BY DEF TypeOK
  <2> QED
    BY <1>5, <1>6, <2>1, <2>2 DEF TypeOK, CallerRecord, GateRecord, Pcs
<1>8. CallsAreBound'
  BY <1>2 DEF CallsAreBound
<1>9. OneHolder'
  BY <1>2 DEF OneHolder
<1>10. HolderIsLive'
  BY <1>2, <1>3, <1>6 DEF HolderIsLive, CallsAreBound
<1>11. RebuildIsAlone'
  BY <1>2, CallersAssumption DEF RebuildIsAlone
<1>12. NoTransportLeaks'
  BY <1>2, <1>5 DEF NoTransportLeaks, g
<1>13. PoisonedIsShut'
  BY <1>5, <1>6 DEF PoisonedIsShut
<1>14. SlotsAreOwned'
  BY <1>2, <1>6, GateTypes DEF SlotsAreOwned, CallsAreBound
<1>15. AbandonedAreCounted'
  BY DEF AbandonedAreCounted
<1>16. AbandonedAreIsolated'
  <2>1. \A h \in Gen : Held(h)' => Held(h)
    BY <1>2 DEF Held
  <2>2. stuck \subseteq Gen
    BY DEF TypeOK
  <2> QED
    BY <1>5, <1>6, <2>1, <2>2 DEF AbandonedAreIsolated
<1> QED
  BY <1>7, <1>8, <1>9, <1>10, <1>11, <1>12, <1>13, <1>14, <1>15, <1>16

LEMMA WrapKeeps ==
    ASSUME GateInv, Wrap
    PROVE  GateInv'
<1> USE DEF GateInv
<1> DEFINE g == caller[Loop].gen
<1>1. /\ caller[Loop].pc = "wrap" /\ caller[Loop].create /\ g \in Gen /\ current \in Gen
      /\ UNCHANGED <<stuck, abandoned, restart, slotOwner>>
  BY CallersAssumption DEF Wrap, CallsAreBound, TypeOK
<1>2. /\ g # current
      /\ \A d \in Callers \ {Loop} : caller[d].pc # "idle" => caller[d].gen # g
  BY <1>1 DEF RebuildIsAlone
<1>3. CASE /\ current' = g
           /\ caller' = [caller EXCEPT ![Loop] = [@ EXCEPT !.pc = "retire", !.gen = current]]
           /\ UNCHANGED <<gate, transport>>
  <2>1. \A d \in Callers :
          /\ caller'[d].prio = caller[d].prio
          /\ caller'[d].create = caller[d].create /\ caller'[d].slot = caller[d].slot
          /\ caller'[d].pc = (IF d = Loop THEN "retire" ELSE caller[d].pc)
          /\ caller'[d].gen = (IF d = Loop THEN current ELSE caller[d].gen)
    BY <1>3, GateTypes DEF CallerRecord
  <2>2. caller[Loop].slot = 0
    BY <1>1, CallersAssumption DEF CallsAreBound
  <2> HIDE DEF g
  <2>3. TypeOK'
    <3>1. caller' \in [Callers -> CallerRecord]
      <4> DEFINE r == [caller[Loop] EXCEPT !.pc = "retire", !.gen = current]
      <4>1. r \in CallerRecord
        BY <1>1, CallersAssumption, GateTypes DEF CallerRecord, Pcs
      <4>2. caller' = [caller EXCEPT ![Loop] = r]
        BY <1>3
      <4> HIDE DEF r
      <4> QED
        BY <4>1, <4>2, GateTypes
    <3>2. current' \in Gen
      BY <1>1, <1>3
    <3>3. /\ UNCHANGED <<gate, stuck, transport, abandoned, restart, slotOwner>>
      BY <1>1, <1>3
    <3> QED
      BY <3>1, <3>2, <3>3 DEF TypeOK, CallerRecord, Pcs
  <2>4. CallsAreBound'
    BY <1>1, <2>1, <2>2 DEF CallsAreBound
  <2>5. OneHolder' /\ HolderIsLive'
    BY <1>3, <2>1 DEF OneHolder, HolderIsLive
  <2>6. RebuildIsAlone'
    BY <2>1, CallersAssumption DEF RebuildIsAlone
  <2>7. NoTransportLeaks'
    BY <1>1, <1>3, <2>1, CallersAssumption DEF NoTransportLeaks, g
  <2>8. PoisonedIsShut' /\ AbandonedAreCounted'
    BY <1>1, <1>3 DEF PoisonedIsShut, AbandonedAreCounted
  <2>9. SlotsAreOwned'
    BY <1>1, <1>3, <2>1, <2>2 DEF SlotsAreOwned
  <2>10. AbandonedAreIsolated'
    <3>1. \A h \in Gen : Held(h)' => Held(h)
      BY <2>1 DEF Held
    <3>2. stuck \subseteq Gen
      BY DEF TypeOK
    <3> QED
      BY <1>1, <1>3, <3>1, <3>2 DEF AbandonedAreIsolated
  <2> QED
    BY <2>3, <2>4, <2>5, <2>6, <2>7, <2>8, <2>9, <2>10
<1>4. CASE Raise(Loop) /\ transport' = [transport EXCEPT ![g] = "closed"] /\ UNCHANGED current
  <2>1. ~Held(g)
    BY <1>1, <1>2 DEF Held
  <2>2. transport'[g] # "open"
    BY <1>1, <1>4 DEF TypeOK
  <2>3. caller' = [caller EXCEPT ![Loop] = Idle]
        /\ (gate' = gate \/ (gate[g].poison = "live"
                             /\ gate' = [gate EXCEPT ![g].poison = "closed"]))
    BY <1>4 DEF Raise
  <2> QED
    BY <1>1, <1>4, <2>1, <2>2, <2>3, GenerationEnds
<1> QED
  BY <1>3, <1>4 DEF Wrap

LEMMA RetireOldKeeps ==
    ASSUME GateInv, RetireOld
    PROVE  GateInv'
<1> DEFINE g == caller[Loop].gen
<1>1. /\ caller[Loop].pc = "retire" /\ ~Held(g) /\ caller' = [caller EXCEPT ![Loop] = Idle]
      /\ UNCHANGED <<current, stuck, abandoned, restart, slotOwner>>
  BY DEF RetireOld
<1>2. g \in Gen /\ transport \in [Gen -> {"none", "open", "closing", "closed"}]
  BY <1>1, CallersAssumption DEF GateInv, CallsAreBound, TypeOK
<1>3. CASE /\ gate[g].poison = "live" /\ gate' = [gate EXCEPT ![g].poison = "closed"]
           /\ transport' = [transport EXCEPT ![g] = "closed"]
  <2>1. transport'[g] # "open"
    BY <1>2, <1>3
  <2> QED
    BY <1>1, <1>3, <2>1, GenerationEnds
<1>4. CASE gate[g].poison # "live" /\ UNCHANGED <<gate, transport>>
  <2>1. transport'[g] # "open"
    BY <1>2, <1>4 DEF GateInv, PoisonedIsShut
  <2> QED
    BY <1>1, <1>4, <2>1, GenerationEnds
<1> QED
  BY <1>3, <1>4 DEF RetireOld

LEMMA AdvanceKeeps ==
    ASSUME GateInv, Advance
    PROVE  GateInv'
<1> USE DEF GateInv
<1>1. /\ gate' = [g \in Gen |-> [gate[g] EXCEPT !.next = Sooner(@), !.retry = Sooner(@)]]
      /\ caller' = [c \in Callers |-> [caller[c] EXCEPT !.slot = Sooner(@)]]
      /\ UNCHANGED <<current, stuck, transport, abandoned, restart, slotOwner>>
  BY DEF Advance
<1>2. \A t \in Nat : Sooner(t) \in Nat /\ Sooner(t) <= t
  BY DEF Sooner
<1>3. \A g \in Gen : /\ gate'[g].poison = gate[g].poison
                     /\ gate'[g].next = Sooner(gate[g].next)
  BY <1>1, GateTypes DEF GateRecord
<1>4. \A c \in Callers :
        /\ caller'[c].pc = caller[c].pc /\ caller'[c].gen = caller[c].gen
        /\ caller'[c].prio = caller[c].prio /\ caller'[c].create = caller[c].create
        /\ caller'[c].slot = Sooner(caller[c].slot)
  BY <1>1, GateTypes DEF CallerRecord
<1>5. TypeOK'
  <2>1. gate' \in [Gen -> GateRecord]
    <3> SUFFICES ASSUME NEW g \in Gen
                 PROVE  [gate[g] EXCEPT !.next = Sooner(@), !.retry = Sooner(@)] \in GateRecord
      BY <1>1
    <3>1. gate[g] \in GateRecord
      BY GateTypes
    <3> QED
      BY <1>2, <3>1 DEF GateRecord
  <2>2. caller' \in [Callers -> CallerRecord]
    <3> SUFFICES ASSUME NEW c \in Callers
                 PROVE  [caller[c] EXCEPT !.slot = Sooner(@)] \in CallerRecord
      BY <1>1
    <3>1. caller[c] \in CallerRecord
      BY GateTypes
    <3> QED
      BY <1>2, <3>1 DEF CallerRecord
  <2> QED
    BY <1>1, <2>1, <2>2 DEF TypeOK, CallerRecord, GateRecord, Pcs
<1>6. CallsAreBound'
  <2>1. Sooner(0) = 0
    BY DEF Sooner
  <2> QED
    BY <1>4, <2>1 DEF CallsAreBound
<1>7. OneHolder'
  BY <1>4 DEF OneHolder
<1>8. HolderIsLive'
  BY <1>3, <1>4 DEF HolderIsLive, CallsAreBound
<1>9. RebuildIsAlone'
  <2>1. current' = current
    BY <1>1
  <2> QED
    BY <1>4, <2>1, CallersAssumption DEF RebuildIsAlone
<1>10. NoTransportLeaks'
  BY <1>1, <1>4, CallersAssumption DEF NoTransportLeaks
<1>11. PoisonedIsShut' /\ AbandonedAreCounted'
  BY <1>1, <1>3 DEF PoisonedIsShut, AbandonedAreCounted
<1>12. SlotsAreOwned'
  <2> SUFFICES ASSUME NEW c \in Callers, caller'[c].slot > 0
               PROVE  /\ slotOwner'[caller'[c].gen] = c
                      /\ caller'[c].slot <= gate'[caller'[c].gen].next
    BY DEF SlotsAreOwned
  <2>1. caller[c].slot \in Nat /\ caller[c].slot > 0
    BY <1>4, GateTypes DEF Sooner
  <2>2. /\ caller[c].gen \in Gen /\ slotOwner[caller[c].gen] = c
        /\ caller[c].slot <= gate[caller[c].gen].next
    BY <2>1 DEF SlotsAreOwned, CallsAreBound
  <2>3. gate[caller[c].gen].next \in Nat
    BY <2>2, GateTypes
  <2>4. Sooner(caller[c].slot) <= Sooner(gate[caller[c].gen].next)
    BY <2>1, <2>2, <2>3 DEF Sooner
  <2> QED
    BY <1>1, <1>3, <1>4, <2>2, <2>4
<1>13. AbandonedAreIsolated'
  <2>1. \A h \in Gen : Held(h)' => Held(h)
    BY <1>4 DEF Held
  <2>2. stuck \subseteq Gen
    BY DEF TypeOK
  <2> QED
    BY <1>1, <1>3, <2>1, <2>2 DEF AbandonedAreIsolated
<1> QED
  BY <1>5, <1>6, <1>7, <1>8, <1>9, <1>10, <1>11, <1>12, <1>13

-----------------------------------------------------------------------------
(***************************************************************************)
(* The theorems.                                                           *)
(***************************************************************************)
LEMMA NextKeepsGate == GateInv /\ [Next]_vars => GateInv'
<1> SUFFICES ASSUME GateInv, [Next]_vars PROVE GateInv'
  OBVIOUS
<1>1. CASE \E c \in Callers : \/ \E p \in Priorities : Begin(c, p)
                              \/ Defer(c) \/ Admit(c) \/ Submit(c) \/ RejectPoisoned(c)
  BY <1>1, BeginKeeps, DeferKeeps, AdmitKeeps, SubmitKeeps
<1>2. CASE \E c \in Callers : \/ RejectFull(c) \/ Complete(c) \/ TimeOut(c)
                              \/ RecordThrottle(c) \/ RecordSuccess(c)
  BY <1>2, RejectFullKeeps, CompleteKeeps, TimeOutKeeps, RecordThrottleKeeps,
     RecordSuccessKeeps
<1>3. CASE \E g \in Gen : ClosePoisoned(g) \/ CompleteAbandoned(g)
  BY <1>3, ClosePoisonedKeeps, CompleteAbandonedKeeps
<1>4. CASE Advance \/ BeginReconnect \/ Wrap \/ RetireOld
  BY <1>4, AdvanceKeeps, BeginReconnectKeeps, WrapKeeps, RetireOldKeeps
<1>5. CASE UNCHANGED vars
  <2>1. \A g \in Gen : Held(g)' = Held(g)
    BY <1>5 DEF vars, Held
  <2>2. stuck \subseteq Gen
    BY DEF GateInv, TypeOK
  <2>3. AbandonedAreIsolated'
    BY <1>5, <2>1, <2>2 DEF vars, GateInv, AbandonedAreIsolated
  <2>4. TypeOK' /\ AbandonedAreCounted' /\ NoTransportLeaks'
    BY <1>5 DEF vars, GateInv, TypeOK, AbandonedAreCounted, NoTransportLeaks
  <2>5. CallsAreBound' /\ OneHolder' /\ HolderIsLive' /\ RebuildIsAlone' /\ PoisonedIsShut'
        /\ SlotsAreOwned'
    BY <1>5 DEF vars, GateInv, CallsAreBound, OneHolder, HolderIsLive, RebuildIsAlone,
                PoisonedIsShut, SlotsAreOwned
  <2> QED
    BY <2>3, <2>4, <2>5 DEF GateInv
<1> QED
  BY <1>1, <1>2, <1>3, <1>4, <1>5 DEF Next

\* Who holds a generation, what shuts it and who reserved its next slot stay in
\* agreement through timeouts, late ends and reconnections.
THEOREM GateInvariant == Spec => []GateInv
<1>1. Init => GateInv
  BY InitGate
<1>2. GateInv /\ [Next]_vars => GateInv'
  BY NextKeepsGate
<1> QED
  BY <1>1, <1>2, PTL DEF Spec

\* The process-wide allowance counts exactly the workers that outlived their call
\* (_AbandonedGenerationState): no timeout, late end or replacement leaks a place.
THEOREM AllowanceIsExact == Spec => []AbandonedAreCounted
<1>1. GateInv => AbandonedAreCounted
  BY DEF GateInv
<1> QED
  BY <1>1, GateInvariant, PTL

\* No timeout, late rebuild or failed wrap leaves a websocket open that nothing
\* will close.
THEOREM TransportsAreClosed == Spec => []NoTransportLeaks
<1>1. GateInv => NoTransportLeaks
  BY DEF GateInv
<1> QED
  BY <1>1, GateInvariant, PTL

\* A worker that outlived its call never works beside another one on its websocket.
THEOREM StalledWorkIsIsolated == Spec => []AbandonedAreIsolated
<1>1. GateInv => AbandonedAreIsolated
  BY DEF GateInv
<1> QED
  BY <1>1, GateInvariant, PTL

\* What brings a slot forward: the passing of time and the success that owns it.
LEMMA SlotsMove ==
    ASSUME GateInv, [Next]_vars, NEW g \in Gen, ~Collected(g), gate'[g].next < gate[g].next
    PROVE  \/ gate'[g].next = Sooner(gate[g].next) /\ Advance
           \/ \E c \in Callers : /\ caller[c].pc = "succeeded" /\ caller'[c].pc = "idle"
                               /\ caller[c].gen = g /\ slotOwner[g] = c
<1> USE DEF GateInv
<1>1. gate[g].next \in Nat /\ gate \in [Gen -> GateRecord] /\ caller \in [Callers -> CallerRecord]
  BY GateTypes
<1>2. gate' # gate
  BY <1>1
<1>3. ASSUME NEW h, NEW v, gate' = [gate EXCEPT ![h].poison = v]
      PROVE  FALSE
  BY <1>1, <1>3 DEF GateRecord
<1>4. ASSUME NEW c \in Callers, Raise(c)
      PROVE  FALSE
  BY <1>2, <1>3, <1>4 DEF Raise
<1>5. CASE \E c \in Callers : RecordSuccess(c)
  <2>1. PICK c \in Callers : RecordSuccess(c)
    BY <1>5
  <2>2. /\ caller[c].pc = "succeeded" /\ caller'[c].pc = "idle"
    BY <1>1, <2>1 DEF RecordSuccess, Idle
  <2>3. g = caller[c].gen /\ gate[g].next = caller[c].slot /\ gate' \in [Gen -> GateRecord]
    BY <2>1, SuccessMoves
  <2>4. gate'[g].next \in Nat
    BY <2>3 DEF GateRecord
  <2>5. caller[c].slot > 0
    BY <1>1, <2>3, <2>4
  <2>6. slotOwner[g] = c
    BY <2>3, <2>5 DEF SlotsAreOwned
  <2> QED
    BY <2>2, <2>3, <2>6
<1>6. CASE Advance
  BY <1>1, <1>6 DEF Advance, GateRecord
<1>7. CASE BeginReconnect
  <2>1. PICK h \in Gen : Collected(h) /\ gate' = [gate EXCEPT ![h] = Replacement(gate[current])]
    BY <1>7 DEF BeginReconnect
  <2>2. gate'[g] = gate[g]
    BY <1>1, <2>1
  <2> QED
    BY <1>1, <2>2
<1>8. CASE Wrap \/ RetireOld
  BY <1>2, <1>3, <1>4, <1>8, CallersAssumption DEF Wrap, RetireOld
<1>9. CASE \E c \in Callers : RecordThrottle(c)
  <2>1. gate'[g].next >= gate[g].next /\ gate' \in [Gen -> GateRecord]
    BY <1>9, ThrottleMoves
  <2>2. gate'[g].next \in Nat
    BY <2>1 DEF GateRecord
  <2> QED
    BY <1>1, <2>1, <2>2
<1>10. CASE \E c \in Callers : Admit(c)
  <2>1. PICK c \in Callers : Admit(c)
    BY <1>10
  <2> DEFINE h == caller[c].gen
             slot == Interval(gate[h].rate)
  <2>2. gate[h].next = 0 /\ gate' = [gate EXCEPT ![h].next = slot] /\ h \in Gen
    BY <1>2, <2>1 DEF Admit, CallsAreBound
  <2>3. slot \in Nat
    BY <2>2, GateTypes, IntervalType
  <2> HIDE DEF slot, h
  <2>4. gate'[g].next = (IF g = h THEN slot ELSE gate[g].next)
    BY <1>1, <2>2 DEF GateRecord
  <2> QED
    BY <1>1, <2>2, <2>3, <2>4
<1>11. CASE \E c \in Callers : TimeOut(c)
  BY <1>3, <1>11 DEF TimeOut, Poisoned
<1>12. CASE \E c \in Callers : Complete(c) \/ Defer(c) \/ RejectPoisoned(c)
  BY <1>2, <1>4, <1>12 DEF Complete, Defer, RejectPoisoned
<1>13. CASE \E c \in Callers : \/ \E p \in Priorities : Begin(c, p)
                               \/ Submit(c) \/ RejectFull(c)
  BY <1>2, <1>13 DEF Begin, Submit, RejectFull
<1>14. CASE \E h \in Gen : ClosePoisoned(h) \/ CompleteAbandoned(h)
  BY <1>2, <1>14 DEF ClosePoisoned, CompleteAbandoned
<1>15. CASE UNCHANGED vars
  BY <1>2, <1>15 DEF vars
<1> QED
  BY <1>5, <1>6, <1>7, <1>8, <1>9, <1>10, <1>11, <1>12, <1>13, <1>14, <1>15 DEF Next

\* _record_success gives no slot away that another call reserved after its own.
THEOREM LateSuccessKeepsSlots == Spec => SlotsAreKept
<1>1. GateInv /\ [Next]_vars =>
        [\A g \in Gen : ~Collected(g) /\ gate'[g].next < gate[g].next =>
            \/ gate'[g].next = Sooner(gate[g].next) /\ Advance
            \/ \E c \in Callers : /\ caller[c].pc = "succeeded" /\ caller'[c].pc = "idle"
                                /\ caller[c].gen = g /\ slotOwner[g] = c]_vars
  BY SlotsMove
<1> QED
  BY <1>1, GateInvariant, PTL DEF Spec, SlotsAreKept

-----------------------------------------------------------------------------
(***************************************************************************)
(* NeuronProcess: the inductive invariant.                                 *)
(***************************************************************************)
MainPcs == {"construct", "poll", "latch", "alive", "marker", "heartbeat", "recheck", "sleep",
            "stopped", "ask", "joinLoop", "joinHelper", "close", "final", "drain", "exited"}
Reasons == {"none", "loop_exited", "tick_stale", "incomplete"}
MainState == [pc : MainPcs, code : {0, 1}, reason : Reasons]
LoopPcs == Timed \cup {"none", "synced", "forwarded", "dead"}
LoopState == [pc : LoopPcs, first : BOOLEAN, outcome : Outcomes]

ProcessTypes ==
    /\ kind \in {"validator", "miner"} /\ main \in MainState /\ loop \in LoopState
    /\ latched \in BOOLEAN /\ hangs \in BOOLEAN /\ helper \in {"none", "running", "ended", "hung"}
    /\ spent \in Nat /\ beat \in Nat /\ longOp \in Nat \cup {None}

\* While the status is a success, what has been joined is over, and once the last
\* check is behind nothing demands a restart.
CleanSoFar ==
    main.code = 0 =>
      /\ main.pc \in {"joinHelper", "close", "final", "drain", "exited"} => loop.pc = "dead"
      /\ main.pc \in {"close", "final", "drain", "exited"} => helper = "ended"
      /\ main.pc \in {"drain", "exited"} => ~latched

\* The loop runs from the end of construction on.
LoopIsBuilt ==
    /\ main.pc = "construct" => loop.pc = "none"
    /\ loop.pc = "none" => main.pc \in {"construct", "drain", "exited"} /\ spent = 0

\* A marker is there exactly while a long operation is under way, and as old as
\* that is.
MarkerIsTimely ==
    /\ longOp # None <=> loop.pc \in {"sync", "synced", "forward", "forwarded"}
    /\ loop.pc \in {"sync", "forward"} => longOp = spent
    /\ longOp # None => longOp <= LONG

\* Without one the heartbeat is as old as the short operations since the last.
HeartbeatIsTimely ==
    /\ loop.pc \in {"reconnect", "starting", "probe"} => spent <= RPC
    /\ loop.pc = "idle" => beat <= spent /\ spent <= TICK
    /\ loop.pc = "reconnect" => beat <= spent
    /\ loop.pc = "starting" => beat <= RPC + spent
    /\ loop.pc = "probe" => beat <= 2 * RPC + spent

\* A check that found the loop alive reads the marker and then the heartbeat at one
\* moment: whatever the loop does between the reads, the heartbeat is young.
CheckIsTimely ==
    /\ main.pc = "marker" /\ loop.pc = "dead" => beat <= MAX_AGE
    /\ main.pc = "heartbeat" => beat <= MAX_AGE

LoopIsTimely ==
    kind = "validator" /\ ~hangs => MarkerIsTimely /\ HeartbeatIsTimely /\ CheckIsTimely

OnlyValidatorsAreWatched == main.pc \in {"marker", "heartbeat"} => kind = "validator"

ProcessInv ==
    /\ ProcessTypes /\ CleanSoFar
    /\ LoopIsBuilt /\ LoopIsTimely /\ OnlyValidatorsAreWatched /\ OnlyHungIsStale

-----------------------------------------------------------------------------
(***************************************************************************)
(* What each thread leaves alone, and how it moves.                        *)
(***************************************************************************)
loopFacts == <<kind, latched, loop, spent, hangs, beat, longOp, helper>>

\* Where a step of the main thread leads, and with what status.
MainMove ==
    /\ main' \in MainState
    /\ main'.code # main.code => main'.code = 1
    /\ main'.reason = "tick_stale" => \/ main.reason = "tick_stale"
                                      \/ main.pc = "marker" /\ longOp # None /\ longOp > MAX_DURATION
                                      \/ main.pc = "heartbeat" /\ beat > MAX_AGE
    /\ main'.pc # "construct"
    /\ main'.pc = "marker" => main.pc = "alive" /\ kind = "validator" /\ loop.pc # "dead"
    /\ main'.pc = "heartbeat" => main.pc = "marker" /\ longOp = None
    /\ main.pc \in {"construct", "drain", "exited"} => main'.pc \in {"drain", "exited"}
    /\ main'.code = 0 =>
         /\ main'.pc = "joinHelper" => loop.pc = "dead"
         /\ main'.pc = "close" => main.pc = "joinHelper" /\ helper = "ended"
         /\ main'.pc = "final" => main.pc = "close"
         /\ main'.pc = "drain" => main.pc = "final" /\ ~latched
         /\ main'.pc = "exited" => main.pc = "drain"

Is(m, pc, code, reason) ==
    m \in MainState /\ m.pc = pc /\ m.code = code /\ m.reason = reason

LEMMA MainRecords ==
    ASSUME NEW m \in MainState, NEW p \in MainPcs, NEW c \in {0, 1}, NEW r \in Reasons
    PROVE  /\ Is([m EXCEPT !.pc = p], p, m.code, m.reason)
           /\ Is([m EXCEPT !.pc = p, !.code = c], p, c, m.reason)
           /\ Is([m EXCEPT !.pc = p, !.reason = r], p, m.code, r)
           /\ Is([m EXCEPT !.pc = p, !.code = c, !.reason = r], p, c, r)
BY DEF Is, MainState

\* The main thread goes on to pc with this status, for this reason.
MainIs(pc, code, reason) == Is(main', pc, code, reason)

LEMMA MainMoves ==
    ASSUME ProcessTypes, MainStep \/ ConstructionFails \/ Drained
    PROVE  MainMove /\ UNCHANGED loopFacts
<1>1. \A p \in MainPcs, c \in {0, 1}, r \in Reasons :
        /\ Is([main EXCEPT !.pc = p], p, main.code, main.reason)
        /\ Is([main EXCEPT !.pc = p, !.code = c], p, c, main.reason)
        /\ Is([main EXCEPT !.pc = p, !.reason = r], p, main.code, r)
        /\ Is([main EXCEPT !.pc = p, !.code = c, !.reason = r], p, c, r)
  BY MainRecords DEF ProcessTypes
<1>2. main.code \in {0, 1} /\ main.reason \in Reasons
  BY DEF ProcessTypes, MainState
<1> USE <1>1, <1>2 DEF MainPcs, Reasons, MainIs
<1>3. (StartupGuard \/ ConstructionFails) =>
        main.pc = "construct" /\ MainIs("drain", 1, main.reason)
  BY DEF StartupGuard, GuardFires, ConstructionFails, Terminate
<1>4. Poll => main.pc = "poll" /\ \E p \in {"stopped", "latch"} : MainIs(p, main.code, main.reason)
  BY DEF Poll, MainTo
<1>5. Wake => main.pc = "sleep" /\ MainIs("poll", main.code, main.reason)
  BY DEF Wake, MainTo
<1>6. CheckLatch => main.pc = "latch" /\
     \/ MainIs("drain", 1, main.reason)
     \/ MainIs("alive", main.code, main.reason)
  BY DEF CheckLatch, ForceOr, Terminate, MainTo
<1>7. Stopped => main.pc = "stopped" /\
     \/ MainIs("drain", 1, main.reason)
     \/ MainIs("ask", main.code, main.reason)
  BY DEF Stopped, ForceOr, Terminate, MainTo
<1>8. CheckAlive => main.pc = "alive" /\
        \/ MainIs("recheck", main.code, "loop_exited")
        \/ loop.pc # "dead" /\ kind = "validator" /\ MainIs("marker", main.code, main.reason)
        \/ MainIs("sleep", main.code, main.reason)
  BY DEF CheckAlive
<1>9. ReadMarker => main.pc = "marker" /\
        \/ longOp # None /\ longOp > MAX_DURATION /\ MainIs("recheck", main.code, "tick_stale")
        \/ longOp = None /\ MainIs("heartbeat", main.code, main.reason)
        \/ MainIs("sleep", main.code, main.reason)
  BY DEF ReadMarker, StaleIf
<1>10. ReadHeartbeat => main.pc = "heartbeat" /\
         \/ beat > MAX_AGE /\ MainIs("recheck", main.code, "tick_stale")
         \/ MainIs("sleep", main.code, main.reason)
  BY DEF ReadHeartbeat, StaleIf
<1>11. Recheck => main.pc = "recheck" /\ \E p \in {"drain", "ask"} : MainIs(p, 1, main.reason)
  BY DEF Recheck, Terminate
<1>12. AskToQuit => main.pc = "ask" /\
     \/ MainIs("joinLoop", main.code, main.reason)
     \/ MainIs("joinLoop", 1, "incomplete")
  BY DEF AskToQuit
<1>13. JoinLoop => main.pc = "joinLoop" /\
         \/ loop.pc = "dead" /\ MainIs("joinHelper", main.code, main.reason)
         \/ MainIs("joinHelper", 1, "incomplete")
  BY DEF JoinLoop, Joined
<1>14. JoinHelper => main.pc = "joinHelper" /\
         \/ helper = "ended" /\ MainIs("close", main.code, main.reason)
         \/ MainIs("close", 1, "incomplete")
  BY DEF JoinHelper, Joined
<1>15. Close => main.pc = "close" /\
     \/ MainIs("final", main.code, main.reason)
     \/ MainIs("final", 1, main.reason)
  BY DEF Close, MainTo
<1>16. Final => main.pc = "final" /\
     \/ MainIs("drain", 1, main.reason)
     \/ ~latched /\ MainIs("drain", main.code, main.reason)
  BY DEF Final, Finally, ForceOr, Terminate, MainTo
<1>17. ForcedExit => main.pc # "exited" /\ MainIs("exited", 1, main.reason)
  BY DEF ForcedExit
<1>18. Drained => main.pc = "drain" /\ MainIs("exited", main.code, main.reason)
  BY DEF Drained, Exit
<1>19. UNCHANGED loopFacts
  BY DEF MainStep, StartupGuard, Poll, CheckLatch, CheckAlive, ReadMarker, ReadHeartbeat,
     Recheck, Wake, Stopped, AskToQuit, JoinLoop, JoinHelper, Joined, Close, Final, ForcedExit,
     ConstructionFails, Drained, loopVars, loopFacts
<1> HIDE <1>1, <1>2 DEF MainPcs, Reasons
<1>20. CASE StartupGuard \/ ConstructionFails \/ Poll \/ Wake \/ CheckLatch \/ Stopped
  BY <1>3, <1>4, <1>5, <1>6, <1>7, <1>19, <1>20 DEF Is, MainMove
<1>21. CASE CheckAlive \/ ReadMarker \/ ReadHeartbeat \/ Recheck \/ AskToQuit
  BY <1>8, <1>9, <1>10, <1>11, <1>12, <1>19, <1>21 DEF Is, MainMove
<1>22. CASE JoinLoop \/ JoinHelper \/ Close \/ Final \/ ForcedExit \/ Drained
  BY <1>13, <1>14, <1>15, <1>16, <1>17, <1>18, <1>19, <1>22 DEF Is, MainMove
<1> QED
  BY <1>20, <1>21, <1>22 DEF MainStep

\* Where a step of the run loop leads, and the marks it makes.
LoopMove ==
    /\ UNCHANGED <<kind, main, hangs, helper>>
    /\ loop' \in LoopState /\ latched' \in BOOLEAN /\ spent' = 0
    /\ \/ /\ loop.pc = "sync" /\ loop'.pc = "synced"
          /\ beat' = 0 /\ longOp' = longOp
       \/ /\ loop.pc = "forward" /\ loop'.pc = "forwarded"
          /\ beat' = 0 /\ longOp' = longOp
       \/ /\ loop.pc \in {"synced", "forwarded"}
          /\ loop'.pc \in {"dead", "reconnect", "starting", "probe", "idle"}
          /\ beat' = 0 /\ longOp' = None
       \/ /\ loop.pc = "reconnect" /\ loop'.pc \in {"starting", "probe", "dead"}
                                                   \cup {p \in {"idle"} : kind = "miner"}
          /\ beat' = beat /\ longOp' = longOp
       \/ /\ loop.pc = "starting" /\ loop'.pc = "probe"
          /\ beat' = beat /\ longOp' = longOp
       \/ /\ loop.pc = "probe" /\ loop'.pc = "forward"
          /\ beat' = beat /\ longOp' = IF longOp = None THEN 0 ELSE longOp
       \/ /\ loop.pc = "idle" /\ loop'.pc = "sync"
          /\ beat' = 0 /\ longOp' = 0
       \/ /\ loop.pc = "idle"
          /\ loop'.pc = "dead" \/ (kind = "miner" /\ loop'.pc \in {"sync", "reconnect"})
          /\ beat' = beat /\ longOp' = longOp

LEMMA OutcomeRecorded ==
    ASSUME NEW l \in LoopState, NEW p \in LoopPcs, NEW o \in Outcomes
    PROVE  [l EXCEPT !.pc = p, !.outcome = o] \in LoopState /\ [l EXCEPT !.pc = p, !.outcome = o].pc = p
BY DEF LoopState, LoopPcs

LEMMA LoopGoes ==
    ASSUME ProcessTypes, NEW p \in LoopPcs, LoopTo(p)
    PROVE  loop' \in LoopState /\ loop'.pc = p /\ spent' = 0
<1>1. PICK first : loop' = [loop EXCEPT !.pc = p, !.first = first] /\ first \in BOOLEAN
  <2>1. (loop.first /\ p \in {"reconnect", "starting"}) \in BOOLEAN
    BY Zenon
  <2>2. loop' = [loop EXCEPT !.pc = p, !.first = loop.first /\ p \in {"reconnect", "starting"}]
    BY DEF LoopTo
  <2> QED
    BY <2>1, <2>2, Zenon
<1>2. loop' \in LoopState /\ loop'.pc = p
  BY <1>1 DEF ProcessTypes, LoopState, LoopPcs
<1> QED
  BY <1>2 DEF LoopTo

LEMMA LoopMoves ==
    ASSUME ProcessTypes, LoopStep
    PROVE  LoopMove
<1>1. \A p \in LoopPcs :
        LoopTo(p) => loop' \in LoopState /\ loop'.pc = p /\ spent' = 0
  BY LoopGoes
<1>2. Onward \in {"starting", "probe"} \cup {p \in {"idle"} : kind = "miner"}
  BY DEF Onward
<1> USE DEF Timed, LoopPcs
<1>3. ASSUME SyncEnds \/ ForwardEnds PROVE LoopMove
  <2>1. PICK o \in Outcomes : EndLongOp(o)
    BY <1>3 DEF SyncEnds, ForwardEnds, Outcomes
  <2>2. /\ loop' = [loop EXCEPT !.pc = IF loop.pc = "sync" THEN "synced" ELSE "forwarded",
                                !.outcome = o]
        /\ spent' = 0 /\ beat' = 0 /\ longOp' = longOp
    BY <2>1 DEF EndLongOp, MarkEnds
  <2>3. loop' \in LoopState /\ loop'.pc = IF loop.pc = "sync" THEN "synced" ELSE "forwarded"
    <3>1. PICK p \in {"synced", "forwarded"} :
            p = IF loop.pc = "sync" THEN "synced" ELSE "forwarded"
      OBVIOUS
    <3>2. loop' = [loop EXCEPT !.pc = p, !.outcome = o] /\ p \in LoopPcs
      BY <2>2, <3>1
    <3> HIDE DEF LoopPcs
    <3>3. loop' \in LoopState /\ loop'.pc = p
      BY <3>2, OutcomeRecorded DEF ProcessTypes
    <3> QED
      BY <3>1, <3>3
  <2>4. /\ loop.pc \in {"sync", "forward"}
        /\ UNCHANGED <<kind, main, hangs, helper>> /\ latched' = latched
    BY <1>3 DEF SyncEnds, ForwardEnds, Ends, unmoved, mainVars
  <2> QED
    BY <2>2, <2>3, <2>4 DEF LoopMove, ProcessTypes
<1>4. ASSUME ClearMarker PROVE LoopMove
  <2>1. /\ UNCHANGED <<kind, main, hangs, helper>> /\ beat' = 0 /\ longOp' = None
        /\ loop.pc \in {"synced", "forwarded"}
    BY <1>4 DEF ClearMarker, unmoved, mainVars
  <2>2. /\ LoopTo("dead") \/ LoopTo("reconnect") \/ LoopTo(Onward) \/ LoopTo("idle")
        /\ latched' = TRUE \/ latched' = latched
    BY <1>4, Zenon DEF ClearMarker, AfterSync, Die
  <2>3. loop' \in LoopState /\ spent' = 0
        /\ loop'.pc \in {"dead", "reconnect", "starting", "probe", "idle"}
    BY <1>1, <1>2, <2>2
  <2> QED
    BY <2>1, <2>2, <2>3 DEF LoopMove, ProcessTypes
<1>5. ASSUME Reconnect PROVE LoopMove
  <2>1. /\ UNCHANGED <<kind, main, hangs, helper, beat, longOp>> /\ loop.pc = "reconnect"
        /\ latched' = TRUE \/ latched' = latched
        /\ LoopTo(Onward) \/ LoopTo("dead")
    BY <1>5 DEF Reconnect, Ends, Die, unmoved, mainVars
  <2>2. loop' \in LoopState /\ spent' = 0 /\ loop'.pc \in {Onward, "dead"}
    BY <1>1, <1>2, <2>1
  <2> QED
    BY <1>2, <2>1, <2>2 DEF LoopMove, ProcessTypes
<1>6. ASSUME Starting \/ Forward PROVE LoopMove
  BY <1>1, <1>6 DEF Starting, Forward, Ends, unmoved, mainVars, LoopMove, ProcessTypes
<1>7. ASSUME Paused \/ MinerPaused PROVE LoopMove
  <2>1. UNCHANGED <<kind, main, hangs, helper>> /\ latched' = latched /\ loop.pc = "idle"
    BY <1>7 DEF Paused, MinerPaused, Ends, unmoved, mainVars
  <2>2. CASE Paused
    BY <1>1, <2>1, <2>2 DEF Paused, Die, LoopMove, ProcessTypes
  <2>3. CASE MinerPaused
    BY <1>1, <2>1, <2>3 DEF MinerPaused, Die, LoopMove, ProcessTypes
  <2> QED
    BY <1>7, <2>2, <2>3
<1> QED
  BY <1>3, <1>4, <1>5, <1>6, <1>7 DEF LoopStep

-----------------------------------------------------------------------------
(***************************************************************************)
(* The invariant is kept.                                                  *)
(***************************************************************************)
LEMMA MainKeeps ==
    ASSUME ProcessInv, MainStep \/ ConstructionFails \/ Drained
    PROVE  ProcessInv'
<1> USE TimesAssumption DEF ProcessInv
<1>1. MainMove /\ UNCHANGED loopFacts
  BY MainMoves
<1>2. ProcessTypes'
  BY <1>1 DEF ProcessTypes, MainMove, loopFacts
<1>3. CleanSoFar'
  <2>1. main.code \in {0, 1} /\ main'.code \in {0, 1}
    BY <1>1 DEF ProcessTypes, MainMove, MainState
  <2> QED
    BY <1>1, <2>1 DEF CleanSoFar, MainMove, loopFacts
<1>4. LoopIsBuilt' /\ OnlyValidatorsAreWatched'
  BY <1>1 DEF LoopIsBuilt, OnlyValidatorsAreWatched, MainMove, loopFacts
<1>5. ASSUME main.pc = "marker", longOp = None, kind = "validator", ~hangs
      PROVE  beat <= MAX_AGE
  <2>1. loop.pc \in {"reconnect", "starting", "probe", "idle", "dead"}
    BY <1>5 DEF ProcessTypes, LoopState, LoopPcs, Timed, LoopIsBuilt, LoopIsTimely, MarkerIsTimely
  <2> QED
    BY <1>5, <2>1 DEF ProcessTypes, LoopIsTimely, HeartbeatIsTimely, CheckIsTimely
<1>6. LoopIsTimely'
  <2>1. MarkerIsTimely' <=> MarkerIsTimely
    BY <1>1 DEF MarkerIsTimely, loopFacts
  <2>2. HeartbeatIsTimely' <=> HeartbeatIsTimely
    BY <1>1 DEF HeartbeatIsTimely, loopFacts
  <2>3. kind = "validator" /\ ~hangs => CheckIsTimely'
    BY <1>1, <1>5 DEF CheckIsTimely, LoopIsTimely, MainMove, loopFacts
  <2> QED
    BY <1>1, <2>1, <2>2, <2>3 DEF LoopIsTimely, loopFacts
<1>7. OnlyHungIsStale'
  <2>1. longOp \in Nat \cup {None} /\ beat \in Nat
    BY DEF ProcessTypes
  <2>2. ASSUME ~hangs, main.pc = "marker", longOp # None PROVE ~(longOp > MAX_DURATION)
    BY <2>1, <2>2 DEF OnlyValidatorsAreWatched, LoopIsTimely, MarkerIsTimely, None
  <2>3. ASSUME ~hangs, main.pc = "heartbeat" PROVE ~(beat > MAX_AGE)
    BY <2>1, <2>3 DEF OnlyValidatorsAreWatched, LoopIsTimely, CheckIsTimely
  <2> QED
    BY <1>1, <2>2, <2>3 DEF OnlyHungIsStale, MainMove, loopFacts
<1> QED
  BY <1>2, <1>3, <1>4, <1>6, <1>7

LEMMA LoopKeeps ==
    ASSUME ProcessInv, LoopStep
    PROVE  ProcessInv'
<1> USE TimesAssumption DEF ProcessInv
<1>1. LoopMove
  BY LoopMoves
<1>2. ProcessTypes'
  <2>1. beat \in Nat /\ longOp \in Nat \cup {None}
    BY DEF ProcessTypes
  <2>2. beat' \in Nat /\ longOp' \in Nat \cup {None}
    BY <1>1, <2>1 DEF LoopMove
  <2>3. UNCHANGED <<kind, main, hangs, helper>> /\ loop' \in LoopState /\ latched' \in BOOLEAN /\ spent' = 0
    BY <1>1 DEF LoopMove
  <2> QED
    BY <2>2, <2>3 DEF ProcessTypes
<1>3. loop.pc \notin {"none", "dead"} /\ loop'.pc # "none"
  BY <1>1 DEF LoopMove, LoopState, LoopPcs, Timed
<1>4. CleanSoFar'
  BY <1>1, <1>3 DEF CleanSoFar, LoopMove
<1>5. LoopIsBuilt' /\ OnlyValidatorsAreWatched' /\ OnlyHungIsStale'
  BY <1>1, <1>3 DEF LoopIsBuilt, OnlyValidatorsAreWatched, OnlyHungIsStale, LoopMove
<1>6. ASSUME kind = "validator", ~hangs
      PROVE  MarkerIsTimely' /\ HeartbeatIsTimely' /\ CheckIsTimely'
  <2>1. MarkerIsTimely /\ HeartbeatIsTimely /\ CheckIsTimely /\ kind # "miner"
    BY <1>6 DEF LoopIsTimely
  <2>2. spent \in Nat /\ beat \in Nat /\ longOp \in Nat \cup {None} /\ spent' = 0 /\ main' = main
    BY <1>1 DEF ProcessTypes, LoopMove
  <2>3. MarkerIsTimely'
    BY <1>1, <2>1, <2>2 DEF LoopMove, MarkerIsTimely, None
  <2>4. HeartbeatIsTimely'
    BY <1>1, <2>1, <2>2 DEF LoopMove, HeartbeatIsTimely
  <2>5. beat' = beat \/ beat' = 0
    BY <1>1 DEF LoopMove
  <2>6. loop'.pc = "dead" => beat' <= MAX_AGE
    BY <1>1, <2>1, <2>2 DEF LoopMove, HeartbeatIsTimely
  <2>7. CheckIsTimely'
    BY <2>1, <2>2, <2>5, <2>6 DEF CheckIsTimely
  <2> QED
    BY <2>3, <2>4, <2>7
<1>7. LoopIsTimely'
  BY <1>1, <1>6 DEF LoopIsTimely, LoopMove
<1> QED
  BY <1>2, <1>4, <1>5, <1>7

LEMMA TimeKeeps ==
    ASSUME ProcessInv, TimePasses
    PROVE  ProcessInv'
<1> USE TimesAssumption DEF ProcessInv
<1>1. /\ main.pc \in {"construct", "sleep", "joinLoop", "joinHelper", "drain"}
      /\ UNCHANGED <<kind, main, latched, loop, hangs, helper>>
  BY DEF TimePasses, NothingDue
<1>2. spent \in Nat /\ beat \in Nat /\ longOp \in Nat \cup {None} /\ kind \in {"validator", "miner"}
  BY DEF ProcessTypes
<1>3. /\ spent' = IF loop.pc \in Timed /\ ~hangs THEN spent + 1 ELSE spent
      /\ beat' = IF kind = "validator" THEN UpTo(MAX_AGE + 1, beat) ELSE beat
      /\ longOp' = IF longOp = None THEN None ELSE UpTo(MAX_DURATION + 1, longOp)
  BY DEF TimePasses
<1>4. beat' \in Nat /\ longOp' \in Nat \cup {None} /\ spent' \in Nat
  BY <1>2, <1>3 DEF UpTo
<1>5. ProcessTypes'
  BY <1>1, <1>4 DEF ProcessTypes
<1>6. CleanSoFar' /\ LoopIsBuilt' /\ OnlyValidatorsAreWatched' /\ OnlyHungIsStale'
  <2>1. loop.pc = "none" => spent' = spent
    BY <1>3 DEF Timed
  <2> QED
    BY <1>1, <2>1 DEF CleanSoFar, LoopIsBuilt, OnlyValidatorsAreWatched, OnlyHungIsStale
<1>7. ASSUME kind = "validator", ~hangs
      PROVE  MarkerIsTimely' /\ HeartbeatIsTimely' /\ CheckIsTimely'
  <2>1. MarkerIsTimely /\ HeartbeatIsTimely
    BY <1>7 DEF LoopIsTimely
  <2>2. loop.pc \notin {"synced", "forwarded"} /\ (loop.pc \in Timed => spent < Lasts[loop.pc])
    BY <1>7 DEF TimePasses, NothingDue
  <2>3. /\ loop.pc \in {"sync", "forward"} => spent < LONG
        /\ loop.pc \in {"reconnect", "starting", "probe"} => spent < RPC
        /\ loop.pc = "idle" => spent < TICK
    BY <2>2 DEF Timed, Lasts
  <2>4. loop.pc \in Timed => spent' = spent + 1
    BY <1>3, <1>7
  <2>5. beat' <= beat + 1
    BY <1>2, <1>3 DEF UpTo
  <2>6. MarkerIsTimely'
    <3>1. CASE longOp = None
      BY <1>1, <1>3, <2>1, <3>1 DEF MarkerIsTimely
    <3>2. CASE longOp # None
      <4>1. loop.pc \in {"sync", "forward"} /\ longOp = spent /\ spent < LONG
        BY <2>1, <2>2, <2>3, <3>2 DEF MarkerIsTimely
      <4>2. longOp' = longOp + 1 /\ spent' = spent + 1
        BY <1>2, <1>3, <2>4, <3>2, <4>1 DEF UpTo, Timed
      <4> QED
        BY <1>1, <1>2, <4>1, <4>2 DEF MarkerIsTimely, None
    <3> QED
      BY <3>1, <3>2
  <2>7. HeartbeatIsTimely'
    BY <1>1, <1>2, <1>4, <2>1, <2>3, <2>4, <2>5 DEF HeartbeatIsTimely, Timed
  <2>8. CheckIsTimely'
    BY <1>1 DEF CheckIsTimely
  <2> QED
    BY <2>6, <2>7, <2>8
<1>8. LoopIsTimely'
  BY <1>1, <1>7 DEF LoopIsTimely
<1> QED
  BY <1>5, <1>6, <1>8

LEMMA BuildKeeps ==
    ASSUME ProcessInv, Constructed
    PROVE  ProcessInv'
<1> USE TimesAssumption DEF ProcessInv
<1>1. Is(main', "poll", main.code, main.reason)
  <2>1. main' = [main EXCEPT !.pc = "poll"]
    BY DEF Constructed, MainTo
  <2>2. main \in MainState
    BY DEF ProcessTypes
  <2> QED
    BY <2>1, <2>2 DEF Is, MainState, MainPcs
<1>2. loop' \in LoopState /\ loop'.pc = "sync"
  <2>1. loop' = [loop EXCEPT !.pc = "sync"]
    BY DEF Constructed
  <2>2. loop \in LoopState
    BY DEF ProcessTypes
  <2> QED
    BY <2>1, <2>2 DEF LoopState, LoopPcs, Timed
<1>3. /\ UNCHANGED <<kind, latched, hangs, spent>> /\ helper' = "running" /\ beat' = 0
      /\ longOp' = IF kind = "validator" THEN 0 ELSE None
      /\ spent = 0
  BY DEF Constructed, LoopIsBuilt
<1>4. ProcessTypes'
  BY <1>1, <1>2, <1>3 DEF ProcessTypes, Is
<1>5. CleanSoFar' /\ LoopIsBuilt' /\ OnlyValidatorsAreWatched' /\ OnlyHungIsStale'
  BY <1>1, <1>2, <1>3 DEF CleanSoFar, LoopIsBuilt, OnlyValidatorsAreWatched, OnlyHungIsStale, Is
<1>6. LoopIsTimely'
  BY <1>1, <1>2, <1>3 DEF LoopIsTimely, MarkerIsTimely, HeartbeatIsTimely, CheckIsTimely, Is, None
<1> QED
  BY <1>4, <1>5, <1>6

LEMMA RestKeeps ==
    ASSUME ProcessInv, HelperEnds \/ Signal \/ Hang \/ UNCHANGED processVars
    PROVE  ProcessInv'
<1> USE DEF ProcessInv
<1>1. /\ UNCHANGED <<kind, main, latched, loop, spent, beat, longOp>>
      /\ hangs' = hangs \/ hangs' = TRUE
      /\ helper' = helper \/ (helper = "running" /\ helper' \in {"ended", "hung"})
  BY DEF HelperEnds, Signal, Hang, processVars, mainVars, loopVars
<1>2. ProcessTypes'
  BY <1>1 DEF ProcessTypes
<1>3. CleanSoFar' /\ LoopIsBuilt' /\ OnlyValidatorsAreWatched' /\ OnlyHungIsStale'
  BY <1>1 DEF CleanSoFar, LoopIsBuilt, OnlyValidatorsAreWatched, OnlyHungIsStale
<1>4. LoopIsTimely'
  BY <1>1 DEF LoopIsTimely, MarkerIsTimely, HeartbeatIsTimely, CheckIsTimely
<1> QED
  BY <1>2, <1>3, <1>4

LEMMA InitProcess ==
    ASSUME ProcessInit
    PROVE  ProcessInv
<1>1. ProcessTypes
  BY KindsAssumption DEF ProcessInit, ProcessTypes, MainState, MainPcs, Reasons, LoopState, LoopPcs,
     Outcomes, None
<1>2. CleanSoFar /\ LoopIsBuilt /\ OnlyValidatorsAreWatched /\ OnlyHungIsStale
  BY DEF ProcessInit, CleanSoFar, LoopIsBuilt, OnlyValidatorsAreWatched, OnlyHungIsStale
<1>3. LoopIsTimely
  BY DEF ProcessInit, LoopIsTimely, MarkerIsTimely, HeartbeatIsTimely, CheckIsTimely, None
<1> QED
  BY <1>1, <1>2, <1>3 DEF ProcessInv

-----------------------------------------------------------------------------
(***************************************************************************)
(* The theorems.                                                           *)
(***************************************************************************)
\* The inductive invariant of a neuron process (shutdown.py, base/validator.py).
THEOREM ProcessInvariant == FairSpec => []ProcessInv
<1>1. ProcessInit => ProcessInv
  BY InitProcess
<1>2. ProcessInv /\ [ProcessNext]_processVars => ProcessInv'
  BY BuildKeeps, MainKeeps, LoopKeeps, TimeKeeps, RestKeeps DEF ProcessNext
<1> QED
  BY <1>1, <1>2, PTL DEF FairSpec

\* A process that reports success left nothing running and nothing demanded
\* (stop_run_thread, force_restart_if_rpc_abandoned).
THEOREM SuccessLeavesNothing == FairSpec => []SuccessIsClean
<1>1. ProcessInv => SuccessIsClean
  BY DEF ProcessInv, CleanSoFar, SuccessIsClean
<1> QED
  BY <1>1, ProcessInvariant, PTL

\* The watchdog ends no loop for being stale that does not hang, for any times the
\* validator accepts (_tick_stale, _end_long_op).
THEOREM NoFalseStaleness == FairSpec => []OnlyHungIsStale
<1>1. ProcessInv => OnlyHungIsStale
  BY DEF ProcessInv
<1> QED
  BY <1>1, ProcessInvariant, PTL
=============================================================================
