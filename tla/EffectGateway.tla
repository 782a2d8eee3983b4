---------------------------- MODULE EffectGateway ----------------------------
(***************************************************************************)
(* The effect gateway of crates/epoch-effects: EffectGateway::execute run  *)
(* by concurrent callers (threads or processes on one database) that may   *)
(* stop between any two durable steps.  Each SQLite transaction, blob      *)
(* write and provider call is one action; a call that returns Err from a   *)
(* transaction has rolled it back.                                         *)
(*                                                                         *)
(* An operation stands for OperationId::derive(session, branch, replay     *)
(* key), an input for the canonical intent bytes and their hash, a result  *)
(* for the provider's bytes and their hash.  The authorizer is any trusted *)
(* implementation of the trait; SecureGateway composes the real one.  The  *)
(* provider adapter is outside src/ and idempotent by operation id.        *)
(***************************************************************************)
EXTENDS Integers, FiniteSets, Sequences

CONSTANTS
    Executor,   \* concurrent callers of execute
    Op,         \* operation ids
    Input,      \* canonical inputs
    Result,     \* provider results
    Branch,
    BranchOf,   \* the branch an operation id was derived from
    Faults,     \* the fault points callers ask execute to inject
    Mortal      \* the callers that may crash or meet storage errors

None == "none"
NotSent == "not sent"     \* the provider never acted on the operation

FaultPoint == {"None", "AfterPrepared", "AfterDispatchedBeforeInvoke",
               "AfterInvokeBeforeCommit"}

ASSUME BranchOfType == BranchOf \in [Op -> Branch]
ASSUME FaultsType == Faults \subseteq FaultPoint
ASSUME MortalType == Mortal \subseteq Executor
ASSUME ResultNotTag == {None, NotSent, "failed"} \cap Result = {}
ASSUME InputNotNone == None \notin Input /\ None \notin Op

VARIABLES
    intents,          \* effect_intents: state, input_hash, result_hash
    attempts,         \* effect_attempts.state of attempt 1
    history,          \* effect_transition_history
    attempt_history,  \* effect_attempt_history
    branches,         \* branches.state
    supervised,       \* branches whose supervised run has not ended
    blobs,            \* contents in the blob store
    provider,         \* what the provider did for an operation
    invocations,      \* provider calls per operation
    exec,             \* local state of each caller
    receipts          \* receipts execute returned

vars == <<intents, attempts, history, attempt_history, branches, supervised,
          blobs, provider, invocations, exec, receipts>>

\* The durable rows a gateway transaction writes.
effectRows == <<intents, attempts, history, attempt_history>>
external == <<provider, invocations>>

IntentState == {"absent", "prepared", "denied", "dispatched",
                "succeeded", "failed", "unknown"}

BranchState == {"created", "running", "suspended", "completed",
                "promoted", "abandoned", "failed"}

Transition == {"requested", "prepared", "dispatched", "committed", "failed", "unknown"}

Step == {"idle", "find", "put_input", "authorize", "prepared", "dispatched",
         "invoked", "commit"}

NoIntent == [state |-> "absent", input |-> None, result |-> None]
Idle == [pc |-> "idle", op |-> None, input |-> None, fault |-> "None", outcome |-> None]

Intent == [state : IntentState, input : Input \cup {None}, result : Result \cup {None}]

\* The locals of execute, of its CanonicalIntent and of the pending outcome.
Caller == [pc : Step, op : Op \cup {None}, input : Input \cup {None},
           fault : FaultPoint, outcome : Result \cup {"failed", None}]

TypeOK ==
    /\ intents \in [Op -> Intent]
    /\ attempts \in [Op -> {None, "started", "succeeded", "failed", "unknown"}]
    /\ history \in [Op -> Seq(Transition)]
    /\ attempt_history \in [Op -> Seq({"started", "committed", "failed", "unknown"})]
    /\ branches \in [Branch -> BranchState]
    /\ supervised \subseteq Branch
    /\ blobs \subseteq Input \cup Result
    /\ provider \in [Op -> Result \cup {NotSent}]
    /\ invocations \in [Op -> Nat]
    /\ exec \in [Executor -> Caller]
    /\ receipts \subseteq [op : Op, input : Input, result : Result, replayed : BOOLEAN]

\* A forked branch is 'created' and never run; a supervised one is 'running'.
Init ==
    /\ intents = [o \in Op |-> NoIntent]
    /\ attempts = [o \in Op |-> None]
    /\ history = [o \in Op |-> <<>>]
    /\ attempt_history = [o \in Op |-> <<>>]
    /\ supervised \in SUBSET Branch
    /\ branches = [b \in Branch |-> IF b \in supervised THEN "running" ELSE "created"]
    /\ blobs = {}
    /\ provider = [o \in Op |-> NotSent]
    /\ invocations = [o \in Op |-> 0]
    /\ exec = [e \in Executor |-> Idle]
    /\ receipts = {}

-----------------------------------------------------------------------------
(* Control of one caller. *)

At(e, pc) == exec[e].pc = pc
Goto(e, pc) == exec' = [exec EXCEPT ![e].pc = pc]
Return(e) == exec' = [exec EXCEPT ![e] = Idle]

\* A caller enters execute with an intent and a fault point.
Call(e, o, i, fault) ==
    /\ At(e, "idle")
    /\ exec' = [exec EXCEPT ![e] = [pc |-> "find", op |-> o, input |-> i,
                                    fault |-> fault, outcome |-> None]]
    /\ UNCHANGED <<effectRows, branches, supervised, blobs, external, receipts>>

Existing(o) == intents[o].state # "absent"

\* Mutant: the recorded input is not compared.
Replayable_AnyInput(o, i) == intents[o].state = "succeeded"

\* resolve_existing: only a committed operation with the same input replays.
Replayable(o, i) == intents[o].state = "succeeded" /\ intents[o].input = i

\* resolve_existing returns the recorded result, read from the blob store, or
\* the errors OperationInputConflict and UnresolvedOperation.
ResolveExisting(e) ==
    LET o == exec[e].op  i == exec[e].input IN
    /\ receipts' =
          IF Replayable(o, i) /\ intents[o].result \in blobs
          THEN receipts \cup {[op |-> o, input |-> i,
                               result |-> intents[o].result, replayed |-> TRUE]}
          ELSE receipts
    /\ Return(e)
    /\ UNCHANGED <<effectRows, branches, supervised, blobs, external>>

\* The first lookup, outside any transaction.
FindExisting(e) ==
    /\ At(e, "find") /\ Existing(exec[e].op)
    /\ ResolveExisting(e)

FindNothing(e) ==
    /\ At(e, "find") /\ ~Existing(exec[e].op)
    /\ Goto(e, "put_input")
    /\ UNCHANGED <<effectRows, branches, supervised, blobs, external, receipts>>

PutInput(e) ==
    /\ At(e, "put_input")
    /\ blobs' = blobs \cup {exec[e].input}
    /\ Goto(e, "authorize")
    /\ UNCHANGED <<effectRows, branches, supervised, external, receipts>>

-----------------------------------------------------------------------------
(* authorize_and_persist: one immediate transaction. *)

\* The lookup is repeated under the write lock.
PersistExisting(e) ==
    /\ At(e, "authorize") /\ Existing(exec[e].op)
    /\ ResolveExisting(e)

InsertIntent(o, i, state, transition) ==
    /\ intents' = [intents EXCEPT ![o] = [state |-> state, input |-> i, result |-> None]]
    /\ history' = [history EXCEPT ![o] = <<"requested", transition>>]
    /\ UNCHANGED <<attempts, attempt_history>>

\* Mutant: the lookup is not repeated inside the transaction, and the insert
\* replaces the row of a concurrent caller.
PersistAuthorized_NoRecheck(e) ==
    /\ At(e, "authorize")
    /\ InsertIntent(exec[e].op, exec[e].input, "prepared", "prepared")
    /\ Goto(e, "prepared")
    /\ UNCHANGED <<branches, supervised, blobs, external, receipts>>

PersistAuthorized(e) ==
    /\ At(e, "authorize") /\ ~Existing(exec[e].op)
    /\ InsertIntent(exec[e].op, exec[e].input, "prepared", "prepared")
    /\ Goto(e, "prepared")
    /\ UNCHANGED <<branches, supervised, blobs, external, receipts>>

\* A denial is durable: the row occupies the operation id for good.
PersistDenied(e) ==
    /\ At(e, "authorize") /\ ~Existing(exec[e].op)
    /\ InsertIntent(exec[e].op, exec[e].input, "denied", "failed")
    /\ Return(e)
    /\ UNCHANGED <<branches, supervised, blobs, external, receipts>>

\* The authorizer errs, or a row is refused by the schema: all is rolled back.
PersistRolledBack(e) ==
    /\ At(e, "authorize") /\ ~Existing(exec[e].op)
    /\ Return(e)
    /\ UNCHANGED <<effectRows, branches, supervised, blobs, external, receipts>>

-----------------------------------------------------------------------------
(* dispatch. *)

FaultAfterPrepared(e) ==
    /\ At(e, "prepared") /\ exec[e].fault = "AfterPrepared"
    /\ Return(e)
    /\ UNCHANGED <<effectRows, branches, supervised, blobs, external, receipts>>

MarkDispatched(e) ==
    LET o == exec[e].op IN
    /\ At(e, "prepared") /\ exec[e].fault # "AfterPrepared"
    /\ intents[o].state = "prepared"
    /\ intents' = [intents EXCEPT ![o].state = "dispatched"]
    /\ attempts' = [attempts EXCEPT ![o] = "started"]
    /\ history' = [history EXCEPT ![o] = Append(@, "dispatched")]
    /\ attempt_history' = [attempt_history EXCEPT ![o] = Append(@, "started")]
    /\ Goto(e, "dispatched")
    /\ UNCHANGED <<branches, supervised, blobs, external, receipts>>

\* The provider, keyed by operation id: it repeats what it did before, or acts
\* now, or fails; after a failure it may have acted or not.
Provide(o, outcome) ==
    /\ invocations' = [invocations EXCEPT ![o] = @ + 1]
    /\ \/ outcome \in Result /\ provider[o] \in {NotSent, outcome}
          /\ provider' = [provider EXCEPT ![o] = outcome]
       \/ outcome = "failed"
          /\ \E r \in Result \cup {NotSent} :
                /\ provider[o] \in {NotSent, r}
                /\ provider' = [provider EXCEPT ![o] = r]

Invoke(e, outcome) ==
    /\ At(e, "dispatched") /\ exec[e].fault # "AfterDispatchedBeforeInvoke"
    /\ Provide(exec[e].op, outcome)
    /\ exec' = [exec EXCEPT ![e].pc = "invoked", ![e].outcome = outcome]
    /\ UNCHANGED <<effectRows, branches, supervised, blobs, receipts>>

\* Mutant: the attempt row is left as it was.
Resolve_AttemptForgotten(o, state, result, transition) ==
    /\ intents[o].state = "dispatched"
    /\ intents' = [intents EXCEPT ![o].state = state, ![o].result = result]
    /\ history' = [history EXCEPT ![o] = Append(@, transition)]
    /\ attempt_history' = [attempt_history EXCEPT ![o] = Append(@, transition)]
    /\ UNCHANGED attempts

\* update_resolution, update_attempt and both history rows.
Resolve(o, state, result, transition) ==
    /\ intents[o].state = "dispatched"
    /\ attempts[o] = "started"
    /\ intents' = [intents EXCEPT ![o].state = state, ![o].result = result]
    /\ attempts' = [attempts EXCEPT ![o] = state]
    /\ history' = [history EXCEPT ![o] = Append(@, transition)]
    /\ attempt_history' = [attempt_history EXCEPT ![o] = Append(@, transition)]

\* The UPDATE of branches inside mark_unknown, which must change one row.
Suspend(b) ==
    /\ branches[b] \in {"created", "running", "suspended", "completed"}
    /\ branches' = [branches EXCEPT ![b] = "suspended"]

\* An injected fault at or after dispatch.
FaultDue(e) ==
    \/ At(e, "dispatched") /\ exec[e].fault = "AfterDispatchedBeforeInvoke"
    \/ At(e, "invoked") /\ exec[e].fault = "AfterInvokeBeforeCommit"

MarkUnknown(e) ==
    /\ FaultDue(e)
    /\ Resolve(exec[e].op, "unknown", None, "unknown")
    /\ Suspend(BranchOf[exec[e].op])
    /\ Return(e)
    /\ UNCHANGED <<supervised, blobs, external, receipts>>

\* The branch ended otherwise: mark_unknown errs and the row stays dispatched.
MarkUnknownRefused(e) ==
    /\ FaultDue(e)
    /\ branches[BranchOf[exec[e].op]] \in {"promoted", "abandoned", "failed"}
    /\ Return(e)
    /\ UNCHANGED <<effectRows, branches, supervised, blobs, external, receipts>>

\* Mutant: a failed call returns its error without recording it.
MarkFailed_NotRecorded(e) ==
    /\ At(e, "invoked") /\ ~FaultDue(e) /\ exec[e].outcome = "failed"
    /\ Return(e)
    /\ UNCHANGED <<effectRows, branches, supervised, blobs, external, receipts>>

MarkFailed(e) ==
    /\ At(e, "invoked") /\ ~FaultDue(e) /\ exec[e].outcome = "failed"
    /\ Resolve(exec[e].op, "failed", None, "failed")
    /\ Return(e)
    /\ UNCHANGED <<branches, supervised, blobs, external, receipts>>

PutResult(e) ==
    /\ At(e, "invoked") /\ ~FaultDue(e) /\ exec[e].outcome \in Result
    /\ blobs' = blobs \cup {exec[e].outcome}
    /\ Goto(e, "commit")
    /\ UNCHANGED <<effectRows, branches, supervised, external, receipts>>

CommitResult(e) ==
    LET o == exec[e].op IN
    /\ At(e, "commit")
    /\ Resolve(o, "succeeded", exec[e].outcome, "committed")
    /\ receipts' = receipts \cup {[op |-> o, input |-> exec[e].input,
                                    result |-> exec[e].outcome, replayed |-> FALSE]}
    /\ Return(e)
    /\ UNCHANGED <<branches, supervised, blobs, external>>

\* The caller's process dies, or a storage call, the clock CHECKs of the schema
\* or validate_media_type make execute return early: what was durable stays.
Stop(e) ==
    /\ e \in Mortal /\ ~At(e, "idle")
    /\ Return(e)
    /\ UNCHANGED <<effectRows, branches, supervised, blobs, external, receipts>>

-----------------------------------------------------------------------------
(* The supervisor's mark_terminal, whose UPDATE has no condition on state. *)
MarkTerminal(b, s) ==
    /\ b \in supervised
    /\ branches' = [branches EXCEPT ![b] = s]
    /\ supervised' = supervised \ {b}
    /\ UNCHANGED <<effectRows, blobs, external, exec, receipts>>

\* The steps of execute that ask the authorizer nothing.
Advance(e) ==
    \/ FindExisting(e) \/ FindNothing(e) \/ PutInput(e) \/ PersistExisting(e)
    \/ FaultAfterPrepared(e) \/ MarkDispatched(e)
    \/ \E outcome \in Result \cup {"failed"} : Invoke(e, outcome)
    \/ MarkUnknown(e) \/ MarkUnknownRefused(e) \/ MarkFailed(e)
    \/ PutResult(e) \/ CommitResult(e)

\* Everything a caller does by itself once inside execute.
Proceed(e) ==
    \/ Advance(e)
    \/ PersistAuthorized(e) \/ PersistDenied(e) \/ PersistRolledBack(e)

Next ==
    \/ \E e \in Executor, o \in Op, i \in Input, f \in Faults : Call(e, o, i, f)
    \/ \E e \in Executor : Proceed(e)
    \/ \E e \in Executor : Stop(e)
    \/ \E b \in Branch, s \in {"completed", "failed"} : MarkTerminal(b, s)

Spec == Init /\ [][Next]_vars

\* A running thread is scheduled: execute has no wait but the database lock.
FairSpec == Spec /\ \A e \in Executor : WF_vars(Proceed(e))

-----------------------------------------------------------------------------
(* Properties. *)

Owns(e, o) == exec[e].op = o /\ exec[e].pc \in {"prepared", "dispatched", "invoked", "commit"}

\* FR-034: however many callers race on an operation and wherever they stop,
\* the provider is called for it at most once.
InvokedAtMostOnce == \A o \in Op : invocations[o] <= 1

\* FR-033: a provider call follows the durable dispatched transition and the
\* started attempt, so a crash cannot hide that a call may have been made.
DispatchIsDurableFirst ==
    \A o \in Op : invocations[o] > 0 =>
        /\ Len(history[o]) >= 3 /\ history[o][3] = "dispatched"
        /\ attempt_history[o] # <<>>

\* "Known not sent": an operation found prepared or denied never reached the
\* provider, whichever caller left it there.
PreparedIsNotSent ==
    \A o \in Op : intents[o].state \in {"absent", "prepared", "denied"} =>
        invocations[o] = 0 /\ provider[o] = NotSent

\* All receipts of an operation agree with each other, with the record and with
\* what the provider really did, and answer only the input that was recorded.
ReceiptsAreTheRecord ==
    \A t \in receipts :
        /\ intents[t.op].state = "succeeded"
        /\ intents[t.op].input = t.input /\ intents[t.op].result = t.result
        /\ provider[t.op] = t.result

\* A committed operation can always be replayed: its result reached the blob
\* store before the row that names it.
ResultIsReadable ==
    \A o \in Op : /\ intents[o].state = "succeeded" => intents[o].result \in blobs
                  /\ intents[o].state # "absent" => intents[o].input \in blobs

\* The public name of a resolved state in the histories.
Recorded(s) == IF s = "succeeded" THEN "committed" ELSE s

\* What the four effect tables say of an operation besides its summary state.
Story(o, transitions, attempt_transitions, attempt) ==
    /\ history[o] = transitions
    /\ attempt_history[o] = attempt_transitions
    /\ attempts[o] = attempt

\* The mutable summary row, the transition history, the attempt row and the
\* attempt history tell the same story in every reachable state.
SummaryMatchesHistory ==
    \A o \in Op :
        LET s == intents[o].state IN
        /\ s = "absent" => Story(o, <<>>, <<>>, None)
        /\ s = "denied" => Story(o, <<"requested", "failed">>, <<>>, None)
        /\ s = "prepared" => Story(o, <<"requested", "prepared">>, <<>>, None)
        /\ s = "dispatched" =>
              Story(o, <<"requested", "prepared", "dispatched">>, <<"started">>, "started")
        /\ s \in {"succeeded", "failed", "unknown"} =>
              Story(o, <<"requested", "prepared", "dispatched", Recorded(s)>>,
                       <<"started", Recorded(s)>>, s)

\* An outcome that becomes unknown suspends its branch in the same transaction.
UnknownSuspends ==
    [][\A o \in Op : intents[o].state # "unknown" /\ intents'[o].state = "unknown"
                      => branches'[BranchOf[o]] = "suspended"]_vars

\* The gateway implements the ledger.
Ledger == INSTANCE EffectLedger WITH
    NoResult <- None,
    phase <- [o \in Op |-> intents[o].state],
    calls <- invocations,
    recorded <- [o \in Op |-> intents[o].result],
    served <- {<<t.op, t.result>> : t \in receipts}

\* Every durable step of execute is a step of EffectLedger or invisible to it.
ImplementsLedger == Ledger!Spec

\* Every call of execute returns: in particular no UPDATE of dispatch finds its
\* row in an unexpected state, and nobody waits for another caller.
EveryCallReturns == \A e \in Executor : ~At(e, "idle") ~> At(e, "idle")

\* A caller that does not die resolves what it has dispatched, whatever the
\* others do, unless the branch ended meanwhile in a state mark_unknown refuses
\* to suspend.
DispatchedIsResolved ==
    \A o \in Op, e \in Executor \ Mortal :
        intents[o].state = "dispatched" /\ Owns(e, o) ~>
            \/ intents[o].state # "dispatched"
            \/ branches[BranchOf[o]] = "failed"

\* docs/runtime-spec.md, FR-035: "Ambiguous non-reconcilable effects shall
\* suspend the branch."  An effect is ambiguous when it was dispatched and no
\* caller is left that will resolve it.
AmbiguousEffectSuspends ==
    \A o \in Op :
        intents[o].state = "dispatched" /\ (\A e \in Executor : ~Owns(e, o))
        ~> branches[BranchOf[o]] = "suspended"
=============================================================================
