-------------------------- MODULE EmissionContract --------------------------
(***************************************************************************)
(* What durable weight emission promises, without blocks, deadlines, the   *)
(* SDK or the scan: attempts are opened one at a time; an attempt takes    *)
(* effect on chain only while it is open; it is confirmed only when it     *)
(* took effect; and what a writer without a ledger left behind takes       *)
(* effect, if ever, before the first attempt.                              *)
(***************************************************************************)
EXTENDS Integers

CONSTANTS
    Attempts,   \* the batches of the ledger, in the order they are recorded
    Legacy      \* an extrinsic the ledger does not know

VARIABLES
    verdict,    \* what the ledger says of an attempt
    effect      \* extrinsics whose weights were applied on chain

vars == <<verdict, effect>>

Init ==
    /\ verdict = [a \in Attempts |-> "none"]
    /\ effect \in {{}, {Legacy}}

Untouched == \A a \in Attempts : verdict[a] = "none"
SingleFlight == \A a \in Attempts : verdict[a] # "open"

Begin(a) ==
    /\ SingleFlight
    /\ verdict[a] = "none" /\ \A b \in Attempts : b < a => verdict[b] # "none"
    /\ verdict' = [verdict EXCEPT ![a] = "open"]
    /\ UNCHANGED effect

\* A failure noticed before anything was prepared.
BeginFailed(a) ==
    /\ SingleFlight
    /\ verdict[a] = "none" /\ \A b \in Attempts : b < a => verdict[b] # "none"
    /\ verdict' = [verdict EXCEPT ![a] = "failed"]
    /\ UNCHANGED effect

TakeEffect(x) ==
    /\ x \notin effect
    /\ IF x = Legacy THEN Untouched ELSE verdict[x] = "open"
    /\ effect' = effect \cup {x}
    /\ UNCHANGED verdict

Decide(a, v) ==
    /\ verdict[a] = "open"
    /\ v = "confirmed" => a \in effect
    /\ v = "failed" => a \notin effect
    /\ verdict' = [verdict EXCEPT ![a] = v]
    /\ UNCHANGED effect

Next ==
    \/ \E a \in Attempts : Begin(a) \/ BeginFailed(a)
    \/ \E x \in Attempts \cup {Legacy} : TakeEffect(x)
    \/ \E a \in Attempts, v \in {"confirmed", "unconfirmed", "failed"} : Decide(a, v)

Spec == Init /\ [][Next]_vars
=============================================================================
