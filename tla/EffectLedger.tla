----------------------------- MODULE EffectLedger -----------------------------
(***************************************************************************)
(* What the effect gateway promises, without callers, blobs or histories:  *)
(* an operation is decided once, is called at most once and only after it  *)
(* was recorded as dispatched, resolves at most once, and every answer     *)
(* given for it is the one result that was recorded.                       *)
(***************************************************************************)
EXTENDS Naturals

CONSTANTS Op, Result, NoResult

VARIABLES
    phase,      \* the recorded state of each operation
    calls,      \* how often the provider was called
    recorded,   \* the result on record
    served      \* answers given: pairs of operation and result

ledger == <<phase, calls, recorded, served>>

Init ==
    /\ phase = [o \in Op |-> "absent"]
    /\ calls = [o \in Op |-> 0]
    /\ recorded = [o \in Op |-> NoResult]
    /\ served = {}

Move(o, from, to) ==
    /\ phase[o] = from
    /\ phase' = [phase EXCEPT ![o] = to]

Admit(o) == Move(o, "absent", "prepared") /\ UNCHANGED <<calls, recorded, served>>

Refuse(o) == Move(o, "absent", "denied") /\ UNCHANGED <<calls, recorded, served>>

Dispatch(o) == Move(o, "prepared", "dispatched") /\ UNCHANGED <<calls, recorded, served>>

CallProvider(o) ==
    /\ phase[o] = "dispatched" /\ calls[o] = 0
    /\ calls' = [calls EXCEPT ![o] = 1]
    /\ UNCHANGED <<phase, recorded, served>>

Record(o, r) ==
    /\ calls[o] = 1
    /\ Move(o, "dispatched", "succeeded")
    /\ recorded' = [recorded EXCEPT ![o] = r]
    /\ served' = served \cup {<<o, r>>}
    /\ UNCHANGED calls

Fail(o) ==
    /\ calls[o] = 1
    /\ Move(o, "dispatched", "failed")
    /\ UNCHANGED <<calls, recorded, served>>

Suspect(o) == Move(o, "dispatched", "unknown") /\ UNCHANGED <<calls, recorded, served>>

Replay(o) ==
    /\ phase[o] = "succeeded"
    /\ served' = served \cup {<<o, recorded[o]>>}
    /\ UNCHANGED <<phase, calls, recorded>>

Next == \E o \in Op :
    \/ Admit(o) \/ Refuse(o) \/ Dispatch(o) \/ CallProvider(o)
    \/ \E r \in Result : Record(o, r)
    \/ Fail(o) \/ Suspect(o) \/ Replay(o)

Spec == Init /\ [][Next]_ledger
=============================================================================
