------------------------------- MODULE RpcGate -------------------------------
(***************************************************************************)
(* The gate every chain RPC of a neuron goes through (base/rate_gate.py)   *)
(* and the reconnection that replaces it (base/neuron.py).  A generation   *)
(* is one gate, one worker thread and one websocket with a common life: a  *)
(* call that misses its deadline poisons all three, and its worker, which  *)
(* cannot be killed, counts against a process-wide allowance until it      *)
(* ends.  Several threads may call; the run loop alone reconnects.  A      *)
(* deadline may pass whenever a worker is at work, so it needs no clock.   *)
(* Every other instant is kept as the time left until it, which is all the *)
(* code compares.  The request rate is in FullRate-ths per time unit.      *)
(***************************************************************************)
EXTENDS Naturals, FiniteSets

CONSTANTS
    Callers,        \* the threads that call through the gate
    Loop,           \* the one that rebuilds the connection
    MaxAbandoned,   \* _MAX_ABANDONED_GENERATIONS
    FullRate,       \* _initial_rate, in the steps a success regains (8)
    Hints,          \* retry-after hints of a provider; 0 is none
    MaxGen          \* bound: generations that exist at the same time

ASSUME CallersAssumption == Loop \in Callers
ASSUME BoundsAssumption ==
    /\ MaxAbandoned \in Nat /\ Hints \subseteq Nat
    /\ MaxGen \in Nat \ {0} /\ FullRate \in Nat \ {0}

VARIABLES
    current,      \* generation of self.rpc_gate and self.gated_subtensor
    gate,         \* rate, next request, retry-after and poison of a generation
    stuck,        \* generations whose worker outlived its call
    transport,    \* its websocket
    abandoned,    \* _AbandonedGenerationState.count
    caller,       \* what each thread is doing
    restart,      \* _chain_rpc_restart_required
    slotOwner     \* history: who made a generation's latest reservation

vars == <<current, gate, stuck, transport, abandoned, caller,
          restart, slotOwner>>

Gen == 1 .. MaxGen
Nobody == "nobody"
Priorities == {"essential", "paced"}
Interval(rate) == FullRate \div rate
Larger(a, b) == IF a > b THEN a ELSE b
FreshGate == [rate |-> FullRate, next |-> 0, retry |-> 0, poison |-> "live"]
Idle == [pc |-> "idle", gen |-> 0, prio |-> "essential", create |-> FALSE,
         slot |-> 0]

TypeOK ==
    /\ current \in Gen
    /\ gate \in [Gen -> [rate : 1 .. FullRate, next : Nat, retry : Nat,
                         poison : {"live", "stalled", "closed"}]]
    /\ stuck \subseteq Gen
    /\ transport \in [Gen -> {"none", "open", "closing", "closed"}]
    /\ abandoned \in Nat
    /\ caller \in [Callers ->
         [pc : {"idle", "enter", "locked", "waiting", "throttled", "succeeded",
                "wrap", "retire"},
          gen : Gen \cup {0}, prio : Priorities, create : BOOLEAN, slot : Nat]]
    /\ restart \in BOOLEAN
    /\ slotOwner \in [Gen -> Callers \cup {Nobody}]

Init ==
    /\ current = 1 /\ abandoned = 0 /\ restart = FALSE
    /\ gate = [g \in Gen |-> FreshGate]
    /\ stuck = {}
    /\ transport = [g \in Gen |-> IF g = 1 THEN "open" ELSE "none"]
    /\ caller = [c \in Callers |-> Idle]
    /\ slotOwner = [g \in Gen |-> Nobody]

-----------------------------------------------------------------------------
(* A call: admission under _lock, then the bounded call under              *)
(* _generation_lock, then the outcome under _lock again.                   *)

\* The facade routes an SDK call to the gate it was built with.
Begin(c, p) ==
    /\ c = Loop => ~restart
    /\ caller[c].pc = "idle"
    /\ caller' = [caller EXCEPT ![c] =
                    [Idle EXCEPT !.pc = "enter", !.gen = current, !.prio = p]]
    /\ UNCHANGED <<current, gate, stuck, transport, abandoned,
                   restart, slotOwner>>

\* What a caller does once its call raised: a failed rebuild closes the
\* generation it was made on and keeps the existing one.
Raise(c) ==
    LET g == caller[c].gen IN
    /\ gate' = IF caller[c].create /\ gate[g].poison = "live"
               THEN [gate EXCEPT ![g].poison = "closed"] ELSE gate
    /\ caller' = [caller EXCEPT ![c] = Idle]

\* now < _retry_after_monotonic: RateLimited, for essential work too.
Defer(c) ==
    /\ caller[c].pc = "enter" /\ gate[caller[c].gen].retry > 0
    /\ Raise(c)
    /\ UNCHANGED <<current, stuck, transport, abandoned,
                   restart, slotOwner>>

\* Essential work is admitted at once, paced work when its slot has come: until
\* then it sleeps, and looks again.
Admit(c) ==
    LET g == caller[c].gen
        slot == Interval(gate[g].rate)
    IN
    /\ caller[c].pc = "enter" /\ gate[g].retry = 0
    /\ \/ /\ caller[c].prio = "essential"
          /\ caller' = [caller EXCEPT ![c].pc = "locked"]
          /\ UNCHANGED <<gate, slotOwner>>
       \/ /\ caller[c].prio = "paced" /\ gate[g].next = 0
          /\ gate' = [gate EXCEPT ![g].next = slot]
          /\ caller' = [caller EXCEPT ![c].pc = "locked", ![c].slot = slot]
          /\ slotOwner' = [slotOwner EXCEPT ![g] = c]
    /\ UNCHANGED <<current, stuck, transport, abandoned, restart>>

\* _generation_lock is held for as long as a caller waits for the worker.
Held(g) == \E c \in Callers : caller[c].pc = "waiting" /\ caller[c].gen = g

\* The lock taken and every check passed: the operation goes to the worker.
Submit(c) ==
    LET g == caller[c].gen IN
    /\ caller[c].pc = "locked" /\ ~Held(g)
    /\ abandoned < MaxAbandoned /\ gate[g].poison = "live"
    /\ caller' = [caller EXCEPT ![c].pc = "waiting"]
    /\ UNCHANGED <<current, gate, stuck, transport, abandoned, restart, slotOwner>>

\* ChainRpcStalled of a poisoned generation.
RejectPoisoned(c) ==
    LET g == caller[c].gen IN
    /\ caller[c].pc = "locked" /\ ~Held(g)
    /\ abandoned < MaxAbandoned /\ gate[g].poison # "live"
    /\ Raise(c)
    /\ UNCHANGED <<current, stuck, transport, abandoned,
                   restart, slotOwner>>

\* ChainRpcRestartRequired: the run loop latches the demand, in its own
\* handler or in the one of the rebuild.
RejectFull(c) ==
    /\ caller[c].pc = "locked" /\ ~Held(caller[c].gen)
    /\ abandoned >= MaxAbandoned
    /\ restart' = (restart \/ c = Loop)
    /\ caller' = [caller EXCEPT ![c] = Idle]
    /\ UNCHANGED <<current, gate, stuck, transport, abandoned, slotOwner>>

\* The operation ends in time: a result, a provider throttle, or an error.
Complete(c) ==
    LET g == caller[c].gen IN
    /\ caller[c].pc = "waiting"
    /\ \/ /\ caller[c].create          \* the websocket of the rebuild exists now
          /\ transport' = [transport EXCEPT ![g] = "open"]
          /\ caller' = [caller EXCEPT ![c].pc = "wrap"]
          /\ UNCHANGED gate
       \/ /\ ~caller[c].create /\ UNCHANGED <<transport, gate>>
          /\ caller' = IF caller[c].prio = "paced"
                       THEN [caller EXCEPT ![c].pc = "succeeded"]
                       ELSE [caller EXCEPT ![c] = Idle]
       \/ /\ caller' = [caller EXCEPT ![c].pc = "throttled"]
          /\ UNCHANGED <<transport, gate>>
       \/ Raise(c) /\ UNCHANGED transport
    /\ UNCHANGED <<current, stuck, abandoned, restart, slotOwner>>

\* Mutant: the timeout is reported and the generation goes on.
PoisonedNot(g) == gate

Poisoned(g) == [gate EXCEPT ![g].poison = "stalled"]

CountAbandoned(g) == stuck' = stuck \cup {g} /\ abandoned' = abandoned + 1

\* The deadline passes.  An operation its worker had picked up cannot be
\* cancelled: it is counted.  The websocket is closed from a thread of its own.
TimeOut(c) ==
    LET g == caller[c].gen IN
    /\ caller[c].pc = "waiting"
    /\ gate' = Poisoned(g)
    /\ \/ CountAbandoned(g)
       \/ UNCHANGED <<stuck, abandoned>>
    /\ transport' = IF transport[g] = "open"
                    THEN [transport EXCEPT ![g] = "closing"] ELSE transport
    /\ caller' = [caller EXCEPT ![c] = Idle]
    /\ UNCHANGED <<current, restart, slotOwner>>

ClosePoisoned(g) ==
    /\ transport[g] = "closing"
    /\ transport' = [transport EXCEPT ![g] = "closed"]
    /\ UNCHANGED <<current, gate, stuck, abandoned, caller,
                   restart, slotOwner>>

\* Mutants: the cleanup's failure keeps the place; nothing is cleaned up.
ReleasedNever(count) == count
CleanedUpNot(ws) == IF ws = "none" THEN "open" ELSE ws

Released(count) == count - 1

\* A websocket built when nobody waits for it any more is closed.
CleanedUp(ws) == IF ws = "none" THEN "closed" ELSE ws

\* The abandoned operation ends at last, its result is cleaned up and its place
\* in the allowance is free again.
CompleteAbandoned(g) ==
    /\ g \in stuck
    /\ stuck' = stuck \ {g}
    /\ abandoned' = Released(abandoned)
    /\ transport' = [transport EXCEPT ![g] = CleanedUp(@)]
    /\ UNCHANGED <<current, gate, caller, restart, slotOwner>>

\* _record_rate_limit: slower, and nothing before the cooldown ends.
RecordThrottle(c) ==
    LET g == caller[c].gen
        rate == Larger(1, gate[g].rate \div 2)
    IN
    /\ caller[c].pc = "throttled"
    /\ \E hint \in Hints :
         LET retry == Larger(gate[g].retry, IF hint # 0 THEN hint ELSE Interval(rate))
         IN gate' = [gate EXCEPT ![g] =
                       [rate |-> rate, retry |-> retry, next |-> Larger(@.next, retry),
                        poison |-> IF caller[c].create /\ @.poison = "live"
                                   THEN "closed" ELSE @.poison]]
    /\ caller' = [caller EXCEPT ![c] = Idle]
    /\ UNCHANGED <<current, stuck, transport, abandoned,
                   restart, slotOwner>>

\* Mutant: whatever has been reserved since.
RecoveredNextAlways(next, recovered, slot) == recovered

\* Where the next slot goes after a paced success that reserved `slot'.
RecoveredNext(next, recovered, slot) ==
    IF next = slot THEN recovered ELSE Larger(next, recovered)

\* _record_success: faster again, unless a cooldown began meanwhile.
RecordSuccess(c) ==
    LET g == caller[c].gen
        rate == IF gate[g].rate < FullRate THEN gate[g].rate + 1 ELSE FullRate
    IN
    /\ caller[c].pc = "succeeded"
    /\ gate' = IF gate[g].retry > 0 THEN gate
               ELSE [gate EXCEPT ![g].rate = rate,
                       ![g].next = RecoveredNext(@, Interval(rate), caller[c].slot)]
    /\ caller' = [caller EXCEPT ![c] = Idle]
    /\ UNCHANGED <<current, stuck, transport, abandoned,
                   restart, slotOwner>>

-----------------------------------------------------------------------------
(* _reconnect_subtensor, by the run loop.                                  *)

Replacement(old) == [old EXCEPT !.poison = "live"]

\* A generation nothing refers to any more: its place may be taken.
Collected(g) ==
    /\ g # current /\ g \notin stuck
    /\ transport[g] \notin {"open", "closing"}
    /\ \A c \in Callers : caller[c].pc # "idle" => caller[c].gen # g

\* A fresh gate with the old one's pacing, and the rebuild through it.
BeginReconnect ==
    /\ ~restart
    /\ caller[Loop].pc = "idle"
    /\ \E g \in Gen :
         /\ Collected(g)
         /\ gate' = [gate EXCEPT ![g] = Replacement(gate[current])]
         /\ transport' = [transport EXCEPT ![g] = "none"]
         /\ caller' = [caller EXCEPT ![Loop] =
                         [Idle EXCEPT !.pc = "enter", !.gen = g, !.create = TRUE]]
         /\ slotOwner' = [slotOwner EXCEPT ![g] = Nobody]
    /\ UNCHANGED <<current, stuck, abandoned, restart>>

\* The facade binds the websocket to the generation and replaces the old one,
\* or it cannot, and the new websocket is closed.
Wrap ==
    LET g == caller[Loop].gen IN
    /\ caller[Loop].pc = "wrap"
    /\ \/ /\ current' = g
          /\ caller' = [caller EXCEPT ![Loop] = [@ EXCEPT !.pc = "retire", !.gen = current]]
          /\ UNCHANGED <<gate, transport>>
       \/ /\ Raise(Loop)
          /\ transport' = [transport EXCEPT ![g] = "closed"]
          /\ UNCHANGED current
    /\ UNCHANGED <<stuck, abandoned, restart, slotOwner>>

\* close_generation of the old one waits for the call it may be in.
RetireOld ==
    LET g == caller[Loop].gen IN
    /\ caller[Loop].pc = "retire" /\ ~Held(g)
    /\ IF gate[g].poison = "live"
       THEN /\ gate' = [gate EXCEPT ![g].poison = "closed"]
            /\ transport' = [transport EXCEPT ![g] = "closed"]
       ELSE UNCHANGED <<gate, transport>>
    /\ caller' = [caller EXCEPT ![Loop] = Idle]
    /\ UNCHANGED <<current, stuck, abandoned, restart, slotOwner>>

Sooner(t) == IF t > 0 THEN t - 1 ELSE 0

\* Time passes: every instant still ahead comes nearer.
Advance ==
    /\ gate' = [g \in Gen |-> [gate[g] EXCEPT !.next = Sooner(@), !.retry = Sooner(@)]]
    /\ caller' = [c \in Callers |->
                    [caller[c] EXCEPT !.slot = Sooner(@)]]
    /\ UNCHANGED <<current, stuck, transport, abandoned, restart, slotOwner>>

Next ==
    \/ Advance \/ BeginReconnect \/ Wrap \/ RetireOld
    \/ \E c \in Callers :
         \/ \E p \in Priorities : Begin(c, p)
         \/ Defer(c) \/ Admit(c) \/ Submit(c) \/ RejectPoisoned(c)
         \/ RejectFull(c) \/ Complete(c) \/ TimeOut(c)
         \/ RecordThrottle(c) \/ RecordSuccess(c)
    \/ \E g \in Gen : ClosePoisoned(g) \/ CompleteAbandoned(g)

Spec == Init /\ [][Next]_vars

-----------------------------------------------------------------------------
(* Properties                                                              *)

\* The shared count is the number of workers that outlived their call and are
\* still at work: every timeout, late end and replacement keeps it so, or the
\* allowance leaks and the neuron restarts for nothing (or never).
AbandonedAreCounted ==
    abandoned = Cardinality(stuck)

\* A websocket stays open only as the current one, as the one the reconnection
\* is about to install or retire, or as one being closed: none is leaked by a
\* timeout, a late rebuild or a rebuild that could not be wrapped.
NoTransportLeaks ==
    \A g \in Gen : transport[g] = "open" =>
        \/ g = current
        \/ caller[Loop].pc \in {"wrap", "retire"} /\ caller[Loop].gen = g

\* A worker still busy with an abandoned call never shares its websocket with a
\* new one: its generation takes no work and its websocket is closed or closing.
AbandonedAreIsolated ==
    \A g \in stuck :
        /\ gate[g].poison = "stalled" /\ ~Held(g)
        /\ transport[g] # "open"

\* The next paced slot of a generation is brought forward only by the caller that
\* reserved it: a late success never gives away a slot reserved after its own.
SlotsAreKept ==
    [][\A g \in Gen : ~Collected(g) /\ gate'[g].next < gate[g].next =>
          \/ gate'[g].next = Sooner(gate[g].next) /\ Advance
          \/ \E c \in Callers : /\ caller[c].pc = "succeeded" /\ caller'[c].pc = "idle"
                              /\ caller[c].gen = g /\ slotOwner[g] = c]_vars
=============================================================================
