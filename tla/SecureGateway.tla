---------------------------- MODULE SecureGateway ----------------------------
(***************************************************************************)
(* The effect gateway composed with the capability service through         *)
(* CapabilityAuthorizer: authorize runs inside authorize_and_persist's     *)
(* immediate transaction, so consumption, audit, intent and first history  *)
(* rows commit or roll back together.  All other actions are those of the  *)
(* two components, interleaved.  The service's definitions are extended,   *)
(* the gateway is an instance over the same branches whose operation ids   *)
(* are the service's request ids.                                          *)
(***************************************************************************)
EXTENDS CapabilityService

CONSTANTS Executor, Input, Result, BranchOf, Faults, Mortal,   \* of EffectGateway
          HandleOf,   \* the handle each gateway's authorizer is bound to
          ChargeOf,   \* and its fixed budget charge
          ScopeOf     \* the scope an intent's canonical bytes name

VARIABLES intents, attempts, history, attempt_history, branches, supervised,
          blobs, provider, invocations, exec, receipts

Gw == INSTANCE EffectGateway WITH Op <- RequestId

ASSUME AdapterTypes ==
    /\ HandleOf \in [Executor -> Capability]
    /\ ChargeOf \in [Executor -> Charge]
    /\ ScopeOf \in [Input -> Scope]

\* The gateway's own assumptions, with request ids for its operation ids.
ASSUME GatewayTypes ==
    /\ BranchOf \in [RequestId -> Branch]
    /\ Faults \subseteq Gw!FaultPoint
    /\ Mortal \subseteq Executor
    /\ {Gw!None, Gw!NotSent, "failed"} \cap Result = {}
    /\ Gw!None \notin Input /\ Gw!None \notin RequestId

gwVars == <<intents, attempts, history, attempt_history, branches, supervised,
            blobs, provider, invocations, exec, receipts>>
secureVars == <<vars, gwVars>>

SecureInit == Init /\ Gw!Init

-----------------------------------------------------------------------------
\* CapabilityAuthorizer::authorize: the operation id is the request id.
UseOf(e, revision) ==
    [branch |-> BranchOf[exec[e].op], scope |-> ScopeOf[exec[e].input],
     revision |-> revision, budget |-> ChargeOf[e], request |-> exec[e].op]

\* FOREIGN KEY (capability_id, branch_id, session_id) of effect_intents: the
\* intent may name no capability, or one of its own branch.
ForeignKeyHolds(e) ==
    LET c == HandleOf[e] IN
    status[c] = "absent" \/ grant[c].branch = BranchOf[exec[e].op]

\* Mutant: authority is consumed in a transaction of its own, and the intent
\* insert may still fail.
PersistAllowed_Separate(e, revision, now) ==
    /\ Gw!PersistAuthorized(e) \/ Gw!PersistRolledBack(e)
    /\ Len(decisions) < MaxDecisions
    /\ Allow(HandleOf[e], UseOf(e, revision), now)

PersistAllowed(e, revision, now) ==
    /\ Gw!PersistAuthorized(e)
    /\ Len(decisions) < MaxDecisions
    /\ ForeignKeyHolds(e)
    /\ Allow(HandleOf[e], UseOf(e, revision), now)

PersistDenied(e, revision, now) ==
    /\ Gw!PersistDenied(e)
    /\ Len(decisions) < MaxDecisions
    /\ ForeignKeyHolds(e)
    /\ Deny(HandleOf[e], UseOf(e, revision), now)

\* The denial names the presented capability; when that belongs to another
\* branch the INSERT of the intent fails and the audit record goes with it.
PersistDenialLost(e, revision, now) ==
    /\ Gw!PersistRolledBack(e)
    /\ ~ForeignKeyHolds(e)
    /\ Verdict(HandleOf[e], UseOf(e, revision), now) # "allowed"
    /\ UNCHANGED vars

\* authorize returns Err, or SQLite cannot commit.
PersistUnavailable(e) ==
    /\ e \in Mortal
    /\ Gw!PersistRolledBack(e)
    /\ UNCHANGED vars

-----------------------------------------------------------------------------
\* CapabilityService operations reached from the CLI while effects are in flight.
AdministerService == Administer /\ UNCHANGED gwVars

\* The steps of execute that do not touch authority.
Execute ==
    /\ \/ \E e \in Executor, o \in RequestId, i \in Input, f \in Faults : Gw!Call(e, o, i, f)
       \/ \E e \in Executor : Gw!Advance(e) \/ Gw!Stop(e)
       \/ \E b \in Branch, s \in {"completed", "failed"} : Gw!MarkTerminal(b, s)
    /\ UNCHANGED vars

SecureNext ==
    \/ AdministerService
    \/ Execute
    \/ \E e \in Executor, r \in Revision, now \in Time :
          PersistAllowed(e, r, now) \/ PersistDenied(e, r, now) \/ PersistDenialLost(e, r, now)
    \/ \E e \in Executor : PersistUnavailable(e)

SecureSpec == SecureInit /\ [][SecureNext]_secureVars

-----------------------------------------------------------------------------
(* Properties. *)

\* The rows of capability_authorizations made for operation o.
AuthorizationsOf(o) == {a \in authorizations : a.request = o}

\* Consumption and intent are one transaction: an operation was admitted if and
\* only if exactly one authorization was consumed for it, whatever happened to
\* its caller; a denied or rolled-back operation has consumed nothing.
ConsumedIffAdmitted ==
    \A o \in RequestId :
        Cardinality(AuthorizationsOf(o)) =
            IF intents[o].state \in {"absent", "denied"} THEN 0 ELSE 1

\* End to end: over all branches of a delegation, replays, crashes and races, the
\* provider is called no more often than the use count a capability was issued
\* with allows.
CallsWithinAuthority ==
    \A c \in Capability :
        status[c] # "absent" /\ grant[c].max_uses # None =>
            Cardinality({o \in RequestId : invocations[o] > 0 /\
                            \E a \in AuthorizationsOf(o) : ancestry[a.capability][c] # None})
                <= grant[c].max_uses
=============================================================================
