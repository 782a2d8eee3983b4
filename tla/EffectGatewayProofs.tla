------------------------- MODULE EffectGatewayProofs -------------------------
(***************************************************************************)
(* Proofs about EffectGateway, for any number of callers, operations,      *)
(* inputs, results and branches.  The invariants the runs check are not    *)
(* inductive by themselves: what makes them hold is that at most one       *)
(* caller holds an operation after authorize_and_persist and that the row  *)
(* is exactly where that caller's control is.                              *)
(***************************************************************************)
EXTENDS EffectGateway, SequenceTheorems, TLAPS

\* The caller is between authorize_and_persist and its return.
Holds(e) == exec[e].pc \in {"prepared", "dispatched", "invoked", "commit"}

\* A caller inside execute carries a real intent, whose bytes are in the blob
\* store from PutInput on.
CallersCarryInputs ==
    \A e \in Executor :
        /\ exec[e].pc # "idle" => exec[e].op \in Op /\ exec[e].input \in Input
        /\ exec[e].pc = "authorize" \/ Holds(e) => exec[e].input \in blobs

\* The rows of a held operation are where its holder's control is.
RowMatchesHolder ==
    \A e \in Executor : Holds(e) =>
        /\ intents[exec[e].op].state = IF exec[e].pc = "prepared" THEN "prepared" ELSE "dispatched"
        /\ intents[exec[e].op].input = exec[e].input
        /\ invocations[exec[e].op] = IF exec[e].pc \in {"prepared", "dispatched"} THEN 0 ELSE 1
        /\ exec[e].pc \in {"invoked", "commit"} /\ exec[e].outcome \in Result
              => provider[exec[e].op] = exec[e].outcome
        /\ exec[e].pc = "invoked" => exec[e].outcome \in Result \cup {"failed"}
        /\ exec[e].pc = "commit" => exec[e].outcome \in Result /\ exec[e].outcome \in blobs

\* No two callers hold the same operation.
SoleHolder ==
    \A e, f \in Executor : Holds(e) /\ Holds(f) /\ exec[e].op = exec[f].op => e = f

\* What a row says about the blob store and the provider, held or not.
RowMatchesWorld ==
    \A o \in Op :
        /\ invocations[o] <= 1
        /\ intents[o].state \in {"absent", "prepared", "denied"} =>
              invocations[o] = 0 /\ provider[o] = NotSent
        /\ intents[o].state = "succeeded" =>
              /\ intents[o].result \in Result /\ intents[o].result \in blobs
              /\ provider[o] = intents[o].result
        /\ intents[o].state # "succeeded" => intents[o].result = None
        /\ intents[o].state # "absent" => intents[o].input \in Input /\ intents[o].input \in blobs

Inv ==
    /\ TypeOK
    /\ CallersCarryInputs
    /\ RowMatchesHolder
    /\ SoleHolder
    /\ RowMatchesWorld
    /\ SummaryMatchesHistory
    /\ ReceiptsAreTheRecord

-----------------------------------------------------------------------------
\* The invariant holds before any call.
LEMMA InitInv == Init => Inv
<1> SUFFICES ASSUME Init PROVE Inv
  OBVIOUS
<1>1. TypeOK
  BY DEF Init, TypeOK, NoIntent, Idle, Intent, IntentState, BranchState, Transition, Caller, Step, FaultPoint
<1>2. CallersCarryInputs /\ RowMatchesHolder /\ SoleHolder
  BY DEF Init, CallersCarryInputs, RowMatchesHolder, SoleHolder, Holds, Idle
<1>3. RowMatchesWorld /\ ReceiptsAreTheRecord
  BY DEF Init, RowMatchesWorld, ReceiptsAreTheRecord, NoIntent
<1>4. SummaryMatchesHistory
  BY DEF Init, SummaryMatchesHistory, Story, NoIntent
<1> QED
  BY <1>1, <1>2, <1>3, <1>4 DEF Inv

\* A history of one entry, extended.
LEMMA AppendToSingleton ==
  ASSUME NEW a, NEW b
  PROVE  Append(<<a>>, b) = <<a, b>>
<1> DEFINE S == {a, b}
<1>1. <<a>> \in Seq(S) /\ <<a, b>> \in Seq(S) /\ Append(<<a>>, b) \in Seq(S)
  OBVIOUS
<1>2. Len(Append(<<a>>, b)) = 2 /\ Len(<<a, b>>) = 2
  BY <1>1
<1>3. \A i \in 1..2 : Append(<<a>>, b)[i] = <<a, b>>[i]
  BY <1>1
<1> HIDE DEF S
<1> QED
  BY <1>1, <1>2, <1>3, SeqEqual

\* A history of two entries, extended.
LEMMA AppendToPair ==
  ASSUME NEW a, NEW b, NEW c
  PROVE  Append(<<a, b>>, c) = <<a, b, c>>
<1> DEFINE S == {a, b, c}
<1>1. <<a, b>> \in Seq(S) /\ <<a, b, c>> \in Seq(S) /\ Append(<<a, b>>, c) \in Seq(S)
  OBVIOUS
<1>2. Len(Append(<<a, b>>, c)) = 3 /\ Len(<<a, b, c>>) = 3
  BY <1>1
<1>3. \A i \in 1..3 : Append(<<a, b>>, c)[i] = <<a, b, c>>[i]
  BY <1>1
<1> HIDE DEF S
<1> QED
  BY <1>1, <1>2, <1>3, SeqEqual

\* A history of three entries, extended.
LEMMA AppendToTriple ==
  ASSUME NEW a, NEW b, NEW c, NEW d
  PROVE  Append(<<a, b, c>>, d) = <<a, b, c, d>>
<1> DEFINE S == {a, b, c, d}
<1>1. <<a, b, c>> \in Seq(S) /\ <<a, b, c, d>> \in Seq(S) /\ Append(<<a, b, c>>, d) \in Seq(S)
  OBVIOUS
<1>2. Len(Append(<<a, b, c>>, d)) = 4 /\ Len(<<a, b, c, d>>) = 4
  BY <1>1
<1>3. \A i \in 1..4 : Append(<<a, b, c>>, d)[i] = <<a, b, c, d>>[i]
  BY <1>1
<1> HIDE DEF S
<1> QED
  BY <1>1, <1>2, <1>3, SeqEqual

\* Moving a call to its next step keeps its type.
LEMMA GotoType ==
  ASSUME NEW f \in [Executor -> Caller], NEW e \in Executor, NEW pc \in Step
  PROVE  [f EXCEPT ![e].pc = pc] \in [Executor -> Caller]
<1>1. [f[e] EXCEPT !.pc = pc] \in Caller
  BY DEF Caller
<1> QED
  BY <1>1

\* A caller that returns and writes nothing releases what it held.
LEMMA ReturnInv ==
  ASSUME Inv, NEW e \in Executor, Return(e),
         UNCHANGED <<effectRows, branches, supervised, blobs, external, receipts>>
  PROVE  Inv'
<1> USE DEF Return, effectRows, external
<1>1. TypeOK'
  BY DEF Inv, TypeOK, Idle, Caller, Step, FaultPoint
<1>2. CallersCarryInputs'
  BY DEF Inv, TypeOK, Caller, CallersCarryInputs, Holds, Idle
<1>3. RowMatchesHolder'
  BY DEF Inv, TypeOK, RowMatchesHolder, Holds, Idle
<1>4. SoleHolder'
  BY DEF Inv, TypeOK, SoleHolder, Holds, Idle
<1>5. RowMatchesWorld' /\ ReceiptsAreTheRecord'
  BY DEF Inv, RowMatchesWorld, ReceiptsAreTheRecord
<1>6. SummaryMatchesHistory'
  BY DEF Inv, SummaryMatchesHistory, Story
<1> QED
  BY <1>1, <1>2, <1>3, <1>4, <1>5, <1>6 DEF Inv

\* resolve_existing adds a receipt only for the recorded input and result.
LEMMA ResolveExistingInv ==
  ASSUME Inv, NEW e \in Executor, exec[e].pc # "idle", ResolveExisting(e)
  PROVE  Inv'
<1> DEFINE o == exec[e].op
           t == [op |-> o, input |-> exec[e].input, result |-> intents[o].result,
                 replayed |-> TRUE]
<1> USE DEF ResolveExisting, Return, effectRows, external
<1>1. o \in Op /\ exec[e].input \in Input
  BY DEF Inv, CallersCarryInputs
<1>2. CASE Replayable(o, exec[e].input) /\ intents[o].result \in blobs
  <2>1. receipts' = receipts \cup {t}
    BY <1>2
  <2>2. t \in [op : Op, input : Input, result : Result, replayed : BOOLEAN]
    BY <1>1, <1>2 DEF Inv, RowMatchesWorld, Replayable
  <2>3. /\ intents[o].state = "succeeded"
        /\ intents[o].input = t.input /\ intents[o].result = t.result
    BY <1>1, <1>2 DEF Inv, TypeOK, Replayable
  <2>4. TypeOK'
    BY <2>1, <2>2 DEF Inv, TypeOK, Idle, Caller, Step, FaultPoint
  <2>5. CallersCarryInputs'
    BY DEF Inv, TypeOK, Caller, CallersCarryInputs, Holds, Idle
  <2>6. RowMatchesHolder'
    BY DEF Inv, TypeOK, RowMatchesHolder, Holds, Idle
  <2>7. SoleHolder'
    BY DEF Inv, TypeOK, SoleHolder, Holds, Idle
  <2>8. RowMatchesWorld'
    BY DEF Inv, RowMatchesWorld
  <2>9. SummaryMatchesHistory'
    BY DEF Inv, SummaryMatchesHistory, Story
  <2>10. provider[o] = t.result
    BY <1>1, <1>2 DEF Inv, RowMatchesWorld, Replayable
  <2>11. t.op = o
    OBVIOUS
  <2> HIDE DEF t
  <2>12. ReceiptsAreTheRecord'
    BY <2>1, <2>3, <2>10, <2>11 DEF Inv, ReceiptsAreTheRecord
  <2> QED
    BY <2>4, <2>5, <2>6, <2>7, <2>8, <2>9, <2>12 DEF Inv
<1>3. CASE ~(Replayable(o, exec[e].input) /\ intents[o].result \in blobs)
  BY <1>3, ReturnInv
<1> QED
  BY <1>2, <1>3

\* The row a caller inserts is new, so nobody held the operation before.
LEMMA PersistAuthorizedInv ==
  ASSUME Inv, NEW e \in Executor, PersistAuthorized(e)
  PROVE  Inv'
<1> USE DEF PersistAuthorized, At, Existing, InsertIntent, Goto, external
<1>1. exec[e].op \in Op /\ exec[e].input \in Input /\ exec[e].input \in blobs
  BY DEF Inv, CallersCarryInputs
<1>2. \A f \in Executor : Holds(f) => exec[f].op # exec[e].op
  BY DEF Inv, RowMatchesHolder
<1>3. TypeOK'
  <2>1. exec' \in [Executor -> Caller]
    BY GotoType DEF Inv, TypeOK, Step
  <2>2. /\ intents' \in [Op -> Intent]
        /\ history' \in [Op -> Seq(Transition)]
    BY <1>1 DEF Inv, TypeOK, Intent, IntentState, Transition
  <2> QED
    BY <2>1, <2>2 DEF Inv, TypeOK
<1>4. CallersCarryInputs'
  BY DEF Inv, TypeOK, Caller, CallersCarryInputs, Holds, Idle
<1>5. RowMatchesHolder'
  BY <1>1, <1>2 DEF Inv, TypeOK, CallersCarryInputs, RowMatchesHolder, RowMatchesWorld, Holds, Idle
<1>6. SoleHolder'
  BY <1>2 DEF Inv, TypeOK, SoleHolder, Holds, Idle
<1>7. RowMatchesWorld'
  BY <1>1 DEF Inv, TypeOK, RowMatchesWorld
<1>8. SummaryMatchesHistory'
  BY <1>1 DEF Inv, TypeOK, SummaryMatchesHistory, Story
<1>9. ReceiptsAreTheRecord'
  <2>1. \A t \in receipts : t.op # exec[e].op
    BY DEF Inv, ReceiptsAreTheRecord
  <2> QED
    BY <2>1 DEF Inv, TypeOK, ReceiptsAreTheRecord
<1> QED
  BY <1>3, <1>4, <1>5, <1>6, <1>7, <1>8, <1>9 DEF Inv

\* A denied caller inserts a row that nobody will hold.
LEMMA PersistDeniedInv ==
  ASSUME Inv, NEW e \in Executor, PersistDenied(e)
  PROVE  Inv'
<1> USE DEF PersistDenied, At, Existing, InsertIntent, Return, external
<1>1. exec[e].op \in Op /\ exec[e].input \in Input /\ exec[e].input \in blobs
  BY DEF Inv, CallersCarryInputs
<1>2. \A f \in Executor : Holds(f) => exec[f].op # exec[e].op
  BY DEF Inv, RowMatchesHolder
<1>3. TypeOK'
  BY <1>1 DEF Inv, TypeOK, Intent, IntentState, Transition, Idle, Caller, Step, FaultPoint
<1>4. CallersCarryInputs'
  BY DEF Inv, TypeOK, Caller, CallersCarryInputs, Holds, Idle
<1>5. RowMatchesHolder'
  BY <1>1, <1>2 DEF Inv, TypeOK, CallersCarryInputs, RowMatchesHolder, RowMatchesWorld, Holds, Idle
<1>6. SoleHolder'
  BY <1>2 DEF Inv, TypeOK, SoleHolder, Holds, Idle
<1>7. RowMatchesWorld'
  BY <1>1 DEF Inv, TypeOK, RowMatchesWorld
<1>8. SummaryMatchesHistory'
  BY <1>1 DEF Inv, TypeOK, SummaryMatchesHistory, Story
<1>9. ReceiptsAreTheRecord'
  <2>1. \A t \in receipts : t.op # exec[e].op
    BY DEF Inv, ReceiptsAreTheRecord
  <2> QED
    BY <2>1 DEF Inv, TypeOK, ReceiptsAreTheRecord
<1> QED
  BY <1>3, <1>4, <1>5, <1>6, <1>7, <1>8, <1>9 DEF Inv

\* Entering execute holds nothing yet.
LEMMA CallInv ==
  ASSUME Inv, NEW e \in Executor, NEW o \in Op, NEW i \in Input, NEW fault \in Faults,
         Call(e, o, i, fault)
  PROVE  Inv'
<1> USE DEF Call, At, effectRows, external
<1>3. TypeOK'
  BY FaultsType DEF Inv, TypeOK, Caller, Step
<1>4. CallersCarryInputs'
  BY DEF Inv, TypeOK, Caller, CallersCarryInputs, Holds
<1>5. RowMatchesHolder'
  BY DEF Inv, TypeOK, RowMatchesHolder, Holds
<1>6. SoleHolder'
  BY DEF Inv, TypeOK, SoleHolder, Holds
<1>7. RowMatchesWorld'
  BY DEF Inv, RowMatchesWorld
<1>8. SummaryMatchesHistory'
  BY DEF Inv, SummaryMatchesHistory, Story
<1>9. ReceiptsAreTheRecord'
  BY DEF Inv, ReceiptsAreTheRecord
<1> QED
  BY <1>3, <1>4, <1>5, <1>6, <1>7, <1>8, <1>9 DEF Inv

\* A lookup that finds no row only moves the call on.
LEMMA FindNothingInv ==
  ASSUME Inv, NEW e \in Executor, FindNothing(e)
  PROVE  Inv'
<1> USE DEF FindNothing, At, Goto, effectRows, external
<1>3. TypeOK'
  BY GotoType DEF Inv, TypeOK, Step
<1>4. CallersCarryInputs'
  BY DEF Inv, TypeOK, CallersCarryInputs, Holds
<1>5. RowMatchesHolder'
  BY DEF Inv, TypeOK, RowMatchesHolder, Holds
<1>6. SoleHolder'
  BY DEF Inv, TypeOK, SoleHolder, Holds
<1>7. RowMatchesWorld'
  BY DEF Inv, RowMatchesWorld
<1>8. SummaryMatchesHistory'
  BY DEF Inv, SummaryMatchesHistory, Story
<1>9. ReceiptsAreTheRecord'
  BY DEF Inv, ReceiptsAreTheRecord
<1> QED
  BY <1>3, <1>4, <1>5, <1>6, <1>7, <1>8, <1>9 DEF Inv

\* Storing the input blob only moves the call on.
LEMMA PutInputInv ==
  ASSUME Inv, NEW e \in Executor, PutInput(e)
  PROVE  Inv'
<1> USE DEF PutInput, At, Goto, effectRows, external
<1>1. exec[e].input \in Input
  BY DEF Inv, CallersCarryInputs
<1>3. TypeOK'
  <2>1. exec' \in [Executor -> Caller]
    BY GotoType DEF Inv, TypeOK, Step
  <2> QED
    BY <1>1, <2>1 DEF Inv, TypeOK
<1>4. CallersCarryInputs'
  BY DEF Inv, TypeOK, CallersCarryInputs, Holds
<1>5. RowMatchesHolder'
  BY DEF Inv, TypeOK, RowMatchesHolder, Holds
<1>6. SoleHolder'
  BY DEF Inv, TypeOK, SoleHolder, Holds
<1>7. RowMatchesWorld'
  BY DEF Inv, RowMatchesWorld
<1>8. SummaryMatchesHistory'
  BY DEF Inv, SummaryMatchesHistory, Story
<1>9. ReceiptsAreTheRecord'
  BY DEF Inv, ReceiptsAreTheRecord
<1> QED
  BY <1>3, <1>4, <1>5, <1>6, <1>7, <1>8, <1>9 DEF Inv

\* The holder of a prepared row moves it to dispatched; no other row changes.
LEMMA MarkDispatchedInv ==
  ASSUME Inv, NEW e \in Executor, MarkDispatched(e)
  PROVE  Inv'
<1> USE DEF MarkDispatched, At, Goto, external
<1>1. exec[e].op \in Op /\ Holds(e)
  BY DEF Inv, CallersCarryInputs, Holds
<1>2. \A f \in Executor : f # e /\ Holds(f) => exec[f].op # exec[e].op
  BY <1>1 DEF Inv, SoleHolder
<1>3. TypeOK'
  <2>1. exec' \in [Executor -> Caller]
    BY GotoType DEF Inv, TypeOK, Step
  <2>2. intents' \in [Op -> Intent]
    <3>1. [intents[exec[e].op] EXCEPT !.state = "dispatched"] \in Intent
      BY <1>1 DEF Inv, TypeOK, Intent, IntentState
    <3> QED
      BY <1>1, <3>1 DEF Inv, TypeOK
  <2>3. /\ history' \in [Op -> Seq(Transition)]
        /\ attempts' \in [Op -> {None, "started", "succeeded", "failed", "unknown"}]
        /\ attempt_history' \in [Op -> Seq({"started", "committed", "failed", "unknown"})]
    BY <1>1 DEF Inv, TypeOK, Transition
  <2> QED
    BY <2>1, <2>2, <2>3 DEF Inv, TypeOK
<1>4. CallersCarryInputs'
  BY DEF Inv, TypeOK, CallersCarryInputs, Holds
<1>5. RowMatchesHolder'
  BY <1>1, <1>2 DEF Inv, TypeOK, CallersCarryInputs, RowMatchesHolder, Holds
<1>6. SoleHolder'
  BY <1>1, <1>2 DEF Inv, TypeOK, SoleHolder, Holds
<1>7. RowMatchesWorld'
  BY <1>1 DEF Inv, TypeOK, RowMatchesWorld
<1>8. SummaryMatchesHistory'
  <2>1. Story(exec[e].op, <<"requested", "prepared">>, <<>>, None)
    BY <1>1 DEF Inv, SummaryMatchesHistory
  <2>2. Append(<<"requested", "prepared">>, "dispatched") = <<"requested", "prepared", "dispatched">>
    BY AppendToPair
  <2>3. Append(<<>>, "started") = <<"started">>
    OBVIOUS
  <2>4. /\ history'[exec[e].op] = <<"requested", "prepared", "dispatched">>
        /\ attempt_history'[exec[e].op] = <<"started">>
        /\ attempts'[exec[e].op] = "started"
        /\ intents'[exec[e].op].state = "dispatched"
    BY <1>1, <2>1, <2>2, <2>3 DEF Inv, TypeOK, Story
  <2>5. \A o \in Op : o # exec[e].op =>
           /\ history'[o] = history[o] /\ attempt_history'[o] = attempt_history[o]
           /\ attempts'[o] = attempts[o] /\ intents'[o] = intents[o]
    BY <1>1 DEF Inv, TypeOK
  <2>6. Story(exec[e].op, <<"requested", "prepared", "dispatched">>, <<"started">>, "started")'
    BY <2>4 DEF Story
  <2>7. \A o \in Op : o # exec[e].op => \A h, ah, a : (Story(o, h, ah, a)' <=> Story(o, h, ah, a))
    BY <2>5 DEF Story
  <2> QED
    BY <2>4, <2>5, <2>6, <2>7, SMTT(30) DEF Inv, SummaryMatchesHistory
<1>9. ReceiptsAreTheRecord'
  <2>1. \A t \in receipts : t.op # exec[e].op
    BY DEF Inv, ReceiptsAreTheRecord
  <2> QED
    BY <2>1 DEF Inv, TypeOK, ReceiptsAreTheRecord
<1> QED
  BY <1>3, <1>4, <1>5, <1>6, <1>7, <1>8, <1>9 DEF Inv

\* The holder of a dispatched row is the only caller, and calls the first time.
LEMMA InvokeInv ==
  ASSUME Inv, NEW e \in Executor, NEW outcome \in Result \cup {"failed"}, Invoke(e, outcome)
  PROVE  Inv'
<1> USE DEF Invoke, At, effectRows
<1>1. exec[e].op \in Op /\ Holds(e) /\ invocations[exec[e].op] = 0
      /\ intents[exec[e].op].state = "dispatched"
  BY DEF Inv, CallersCarryInputs, RowMatchesHolder, Holds
<1>2. \A f \in Executor : f # e /\ Holds(f) => exec[f].op # exec[e].op
  BY <1>1 DEF Inv, SoleHolder
<1>10. invocations' = [invocations EXCEPT ![exec[e].op] = @ + 1]
  BY DEF Provide
<1>11. PICK r \in Result \cup {NotSent} :
          /\ provider' = [provider EXCEPT ![exec[e].op] = r]
          /\ outcome \in Result => r = outcome
  BY ResultNotTag DEF Provide
<1>3. TypeOK'
  <2>1. [exec[e] EXCEPT !.pc = "invoked", !.outcome = outcome] \in Caller
    BY ZenonT(60) DEF Inv, TypeOK, Caller, Step
  <2>2. exec' \in [Executor -> Caller]
    BY <2>1 DEF Inv, TypeOK
  <2>3. provider' \in [Op -> Result \cup {NotSent}] /\ invocations' \in [Op -> Nat]
    BY <1>1, <1>10, <1>11 DEF Inv, TypeOK
  <2> QED
    BY <2>2, <2>3 DEF Inv, TypeOK
<1>4. CallersCarryInputs'
  BY DEF Inv, TypeOK, Caller, CallersCarryInputs, Holds
<1>5. RowMatchesHolder'
  BY <1>1, <1>2, <1>10, <1>11 DEF Inv, TypeOK, Caller, CallersCarryInputs, RowMatchesHolder, Holds
<1>6. SoleHolder'
  BY <1>1, <1>2 DEF Inv, TypeOK, Caller, SoleHolder, Holds
<1>7. RowMatchesWorld'
  BY <1>1, <1>10, <1>11 DEF Inv, TypeOK, RowMatchesWorld
<1>8. SummaryMatchesHistory'
  BY DEF Inv, SummaryMatchesHistory, Story
<1>9. ReceiptsAreTheRecord'
  <2>1. \A t \in receipts : t.op # exec[e].op
    BY <1>1 DEF Inv, ReceiptsAreTheRecord
  <2> QED
    BY <2>1, <1>11 DEF Inv, TypeOK, ReceiptsAreTheRecord
<1> QED
  BY <1>3, <1>4, <1>5, <1>6, <1>7, <1>8, <1>9 DEF Inv

\* Storing the result blob keeps the invariant; the blob precedes the row.
LEMMA PutResultInv ==
  ASSUME Inv, NEW e \in Executor, PutResult(e)
  PROVE  Inv'
<1> USE DEF PutResult, At, Goto, effectRows, external
<1>3. TypeOK'
  <2>1. exec' \in [Executor -> Caller]
    BY GotoType DEF Inv, TypeOK, Step
  <2> QED
    BY <2>1 DEF Inv, TypeOK
<1>4. CallersCarryInputs'
  BY DEF Inv, TypeOK, CallersCarryInputs, Holds
<1>5. RowMatchesHolder'
  BY DEF Inv, TypeOK, RowMatchesHolder, Holds
<1>6. SoleHolder'
  BY DEF Inv, TypeOK, SoleHolder, Holds
<1>7. RowMatchesWorld'
  BY DEF Inv, RowMatchesWorld
<1>8. SummaryMatchesHistory'
  BY DEF Inv, SummaryMatchesHistory, Story
<1>9. ReceiptsAreTheRecord'
  BY DEF Inv, ReceiptsAreTheRecord
<1> QED
  BY <1>3, <1>4, <1>5, <1>6, <1>7, <1>8, <1>9 DEF Inv

\* The holder resolves its dispatched row and returns, with a receipt when the
\* result is recorded.
LEMMA ResolveInv ==
  ASSUME Inv, NEW e \in Executor, Holds(e),
         NEW state \in {"succeeded", "failed", "unknown"}, NEW result \in Result \cup {None},
         Resolve(exec[e].op, state, result, Recorded(state)),
         state = "succeeded" => exec[e].pc = "commit" /\ result = exec[e].outcome,
         state # "succeeded" => result = None,
         Return(e),
         branches' \in [Branch -> BranchState],
         receipts' = IF state = "succeeded"
                     THEN receipts \cup {[op |-> exec[e].op, input |-> exec[e].input,
                                          result |-> result, replayed |-> FALSE]}
                     ELSE receipts,
         UNCHANGED <<supervised, blobs, external>>
  PROVE  Inv'
<1> DEFINE o == exec[e].op
           t == [op |-> o, input |-> exec[e].input, result |-> result, replayed |-> FALSE]
<1>1. /\ o \in Op /\ intents[o].input = exec[e].input /\ exec[e].input \in Input
      /\ exec[e].input \in blobs /\ exec[e].pc # "prepared"
  BY DEF Inv, CallersCarryInputs, RowMatchesHolder, Holds, Resolve
<1>2. \A f \in Executor : f # e /\ Holds(f) => exec[f].op # o /\ exec[f].op \in Op
  BY DEF Inv, SoleHolder, CallersCarryInputs, Holds
<1>10. state = "succeeded" => /\ result \in Result /\ result \in blobs /\ provider[o] = result
  BY DEF Inv, RowMatchesHolder, Holds
<1>11. intents'[o].state = state /\ intents'[o].result = result /\ intents'[o].input = exec[e].input
  BY <1>1 DEF Inv, TypeOK, Intent, Resolve
<1>12. \A q \in Op : q # o =>
           /\ history'[q] = history[q] /\ attempt_history'[q] = attempt_history[q]
           /\ attempts'[q] = attempts[q] /\ intents'[q] = intents[q]
  BY <1>1 DEF Inv, TypeOK, Resolve
<1>13. exec'[e] = Idle /\ \A f \in Executor : f # e => exec'[f] = exec[f]
  BY DEF Inv, TypeOK, Return
<1>14. blobs' = blobs /\ provider' = provider /\ invocations' = invocations /\ supervised' = supervised
  BY DEF external
<1>15. IF state = "succeeded" THEN receipts' = receipts \cup {t} ELSE receipts' = receipts
  OBVIOUS
<1>3. TypeOK'
  <2>1. exec' \in [Executor -> Caller]
    BY DEF Inv, TypeOK, Caller, Idle, Step, FaultPoint, Return
  <2>2. intents' \in [Op -> Intent]
    <3>1. intents[o] \in Intent /\ state \in IntentState
      BY <1>1 DEF Inv, TypeOK, IntentState
    <3>2. [intents[o] EXCEPT !.state = state, !.result = result] \in Intent
      BY <3>1 DEF Intent
    <3> QED
      BY <1>1, <3>2 DEF Inv, TypeOK, Resolve
  <2>3. Recorded(state) \in {"committed", "failed", "unknown"}
    BY DEF Recorded
  <2>4. /\ history' \in [Op -> Seq(Transition)]
        /\ attempt_history' \in [Op -> Seq({"started", "committed", "failed", "unknown"})]
        /\ attempts' \in [Op -> {None, "started", "succeeded", "failed", "unknown"}]
    BY <1>1, <2>3 DEF Inv, TypeOK, Transition, Resolve
  <2>5. state = "succeeded" => t \in [op : Op, input : Input, result : Result, replayed : BOOLEAN]
    BY <1>1, <1>10
  <2>6. receipts' \subseteq [op : Op, input : Input, result : Result, replayed : BOOLEAN]
    <3> HIDE DEF t
    <3> QED
      BY <1>15, <2>5 DEF Inv, TypeOK
  <2> QED
    BY <1>14, <2>1, <2>2, <2>4, <2>6 DEF Inv, TypeOK
<1>4. CallersCarryInputs'
  BY <1>13, <1>14 DEF Inv, CallersCarryInputs, Holds, Idle
<1> HIDE DEF o
<1>5. RowMatchesHolder'
  <2> SUFFICES ASSUME NEW f \in Executor, Holds(f)'
               PROVE  /\ f # e /\ Holds(f) /\ exec'[f] = exec[f]
                      /\ intents'[exec[f].op] = intents[exec[f].op]
    BY <1>14 DEF Inv, RowMatchesHolder, Holds
  <2>1. f # e /\ Holds(f) /\ exec'[f] = exec[f]
    BY <1>13 DEF Holds, Idle
  <2> QED
    BY <1>2, <1>12, <2>1
<1>6. SoleHolder'
  BY <1>13 DEF Inv, SoleHolder, Holds, Idle
<1>7. RowMatchesWorld'
  <2> SUFFICES ASSUME NEW q \in Op PROVE RowMatchesWorld!(q)'
    BY DEF RowMatchesWorld
  <2>1. CASE q = o
    BY <1>1, <1>10, <1>11, <1>14, <2>1 DEF Inv, RowMatchesWorld
  <2>2. CASE q # o
    BY <1>12, <1>14, <2>2 DEF Inv, RowMatchesWorld
  <2> QED
    BY <2>1, <2>2
<1>8. SummaryMatchesHistory'
  <2>1. /\ history[o] = <<"requested", "prepared", "dispatched">>
        /\ attempt_history[o] = <<"started">>
    BY <1>1 DEF Inv, SummaryMatchesHistory, Story, Resolve, o
  <2>2. /\ Append(<<"requested", "prepared", "dispatched">>, Recorded(state))
             = <<"requested", "prepared", "dispatched", Recorded(state)>>
        /\ Append(<<"started">>, Recorded(state)) = <<"started", Recorded(state)>>
    BY AppendToTriple, AppendToSingleton
  <2>3. /\ history'[o] = <<"requested", "prepared", "dispatched", Recorded(state)>>
        /\ attempt_history'[o] = <<"started", Recorded(state)>>
        /\ attempts'[o] = state
    BY <1>1, <2>1, <2>2 DEF Inv, TypeOK, Resolve, o
  <2> SUFFICES ASSUME NEW q \in Op PROVE SummaryMatchesHistory!(q)'
    BY DEF SummaryMatchesHistory
  <2>4. CASE q = o
    BY <1>11, <2>3, <2>4 DEF Story
  <2>5. CASE q # o
    BY <1>12, <2>5 DEF Inv, SummaryMatchesHistory, Story
  <2> QED
    BY <2>4, <2>5
<1>9. ReceiptsAreTheRecord'
  <2>1. \A u \in receipts : u.op # o /\ u.op \in Op
    BY DEF Inv, TypeOK, ReceiptsAreTheRecord, Resolve, o
  <2>2. t.op = o /\ t.input = exec[e].input /\ t.result = result
    BY DEF o
  <2> HIDE DEF t
  <2> QED
    BY <1>10, <1>11, <1>12, <1>14, <1>15, <2>1, <2>2 DEF Inv, ReceiptsAreTheRecord
<1> QED
  BY <1>3, <1>4, <1>5, <1>6, <1>7, <1>8, <1>9 DEF Inv

\* mark_unknown keeps the invariant.
LEMMA MarkUnknownInv ==
  ASSUME Inv, NEW e \in Executor, MarkUnknown(e)
  PROVE  Inv'
<1> USE DEF MarkUnknown
<1>1. Holds(e)
  BY DEF FaultDue, At, Holds
<1>2. branches' \in [Branch -> BranchState]
  BY DEF Inv, TypeOK, Suspend, BranchState
<1> QED
  BY <1>1, <1>2, ResolveInv DEF Recorded

\* mark_failed keeps the invariant.
LEMMA MarkFailedInv ==
  ASSUME Inv, NEW e \in Executor, MarkFailed(e)
  PROVE  Inv'
<1> USE DEF MarkFailed
<1>1. Holds(e)
  BY DEF At, Holds
<1> QED
  BY <1>1, ResolveInv DEF Recorded, Inv, TypeOK

\* commit_result keeps the invariant: its result was just stored.
LEMMA CommitResultInv ==
  ASSUME Inv, NEW e \in Executor, CommitResult(e)
  PROVE  Inv'
<1> USE DEF CommitResult
<1>1. Holds(e) /\ exec[e].pc = "commit"
  BY DEF At, Holds
<1>2. exec[e].outcome \in Result
  BY <1>1 DEF Inv, RowMatchesHolder
<1> QED
  BY <1>1, <1>2, ResolveInv DEF Recorded, Inv, TypeOK

\* The supervisor's terminal update touches no effect row.
LEMMA MarkTerminalInv ==
  ASSUME Inv, NEW b \in Branch, NEW s \in {"completed", "failed"}, MarkTerminal(b, s)
  PROVE  Inv'
<1> USE DEF MarkTerminal, effectRows, external
<1>1. TypeOK'
  BY DEF Inv, TypeOK, BranchState
<1>2. CallersCarryInputs' /\ RowMatchesHolder' /\ SoleHolder'
  BY DEF Inv, CallersCarryInputs, RowMatchesHolder, SoleHolder, Holds
<1>3. RowMatchesWorld' /\ ReceiptsAreTheRecord'
  BY DEF Inv, RowMatchesWorld, ReceiptsAreTheRecord
<1>4. SummaryMatchesHistory'
  BY DEF Inv, SummaryMatchesHistory, Story
<1> QED
  BY <1>1, <1>2, <1>3, <1>4 DEF Inv

\* A step that changes nothing keeps the invariant.
LEMMA StutterInv == Inv /\ UNCHANGED vars => Inv'
<1> SUFFICES ASSUME Inv, UNCHANGED vars PROVE Inv'
  OBVIOUS
<1> USE DEF vars
<1>1. TypeOK'
  BY DEF Inv, TypeOK
<1>2. CallersCarryInputs' /\ RowMatchesHolder' /\ SoleHolder'
  BY DEF Inv, CallersCarryInputs, RowMatchesHolder, SoleHolder, Holds
<1>3. RowMatchesWorld' /\ ReceiptsAreTheRecord'
  BY DEF Inv, RowMatchesWorld, ReceiptsAreTheRecord
<1>4. SummaryMatchesHistory'
  BY DEF Inv, SummaryMatchesHistory, Story
<1> QED
  BY <1>1, <1>2, <1>3, <1>4 DEF Inv

\* One case per action of the gateway.
LEMMA NextInv == Inv /\ [Next]_vars => Inv'
<1> SUFFICES ASSUME Inv, [Next]_vars PROVE Inv'
  OBVIOUS
<1>1. ASSUME NEW e \in Executor, NEW o \in Op, NEW i \in Input, NEW f \in Faults, Call(e, o, i, f)
      PROVE  Inv'
  BY <1>1, CallInv
<1>2. ASSUME NEW e \in Executor, Proceed(e)
      PROVE  Inv'
  <2>1. CASE FindExisting(e)
    BY <2>1, ResolveExistingInv DEF FindExisting, At
  <2>2. CASE FindNothing(e)
    BY <2>2, FindNothingInv
  <2>3. CASE PutInput(e)
    BY <2>3, PutInputInv
  <2>4. CASE PersistExisting(e)
    BY <2>4, ResolveExistingInv DEF PersistExisting, At
  <2>5. CASE PersistAuthorized(e)
    BY <2>5, PersistAuthorizedInv
  <2>6. CASE PersistDenied(e)
    BY <2>6, PersistDeniedInv
  <2>7. CASE PersistRolledBack(e)
    BY <2>7, ReturnInv DEF PersistRolledBack
  <2>8. CASE FaultAfterPrepared(e)
    BY <2>8, ReturnInv DEF FaultAfterPrepared
  <2>9. CASE MarkDispatched(e)
    BY <2>9, MarkDispatchedInv
  <2>10. CASE \E outcome \in Result \cup {"failed"} : Invoke(e, outcome)
    BY <2>10, InvokeInv
  <2>11. CASE MarkUnknown(e)
    BY <2>11, MarkUnknownInv
  <2>12. CASE MarkUnknownRefused(e)
    BY <2>12, ReturnInv DEF MarkUnknownRefused
  <2>13. CASE MarkFailed(e)
    BY <2>13, MarkFailedInv
  <2>14. CASE PutResult(e)
    BY <2>14, PutResultInv
  <2>15. CASE CommitResult(e)
    BY <2>15, CommitResultInv
  <2> QED
    BY <1>2, <2>1, <2>2, <2>3, <2>4, <2>5, <2>6, <2>7, <2>8, <2>9, <2>10, <2>11, <2>12,
       <2>13, <2>14, <2>15 DEF Proceed, Advance
<1>3. ASSUME NEW e \in Executor, Stop(e)
      PROVE  Inv'
  BY <1>3, ReturnInv DEF Stop
<1>4. ASSUME NEW b \in Branch, NEW s \in {"completed", "failed"}, MarkTerminal(b, s)
      PROVE  Inv'
  BY <1>4, MarkTerminalInv
<1>5. CASE UNCHANGED vars
  BY <1>5, StutterInv
<1> QED
  BY <1>1, <1>2, <1>3, <1>4, <1>5 DEF Next

-----------------------------------------------------------------------------
\* The strengthened invariant holds in every reachable state.
THEOREM Invariance == Spec => []Inv
BY InitInv, NextInv, PTL DEF Spec

\* Type correctness of the tables, the blob store and every caller.
THEOREM TypeCorrect == Spec => []TypeOK
<1>1. Inv => TypeOK
  BY DEF Inv
<1> QED
  BY <1>1, Invariance, PTL

\* FR-034 for any number of callers: the provider is called at most once.
THEOREM AtMostOneCall == Spec => []InvokedAtMostOnce
<1>1. Inv => InvokedAtMostOnce
  BY DEF Inv, RowMatchesWorld, InvokedAtMostOnce
<1> QED
  BY <1>1, Invariance, PTL

\* An operation found absent, prepared or denied was never sent.
THEOREM KnownNotSent == Spec => []PreparedIsNotSent
<1>1. Inv => PreparedIsNotSent
  BY DEF Inv, RowMatchesWorld, PreparedIsNotSent
<1> QED
  BY <1>1, Invariance, PTL

\* FR-033: the dispatched transition and the attempt are durable before a call.
THEOREM DurableBeforeCall == Spec => []DispatchIsDurableFirst
<1>1. Inv => DispatchIsDurableFirst
  <2> SUFFICES ASSUME Inv, NEW o \in Op, invocations[o] > 0
               PROVE  /\ Len(history[o]) >= 3 /\ history[o][3] = "dispatched"
                      /\ attempt_history[o] # <<>>
    BY DEF DispatchIsDurableFirst
  <2>1. intents[o].state \in {"dispatched", "succeeded", "failed", "unknown"}
    <3>1. intents[o].state \in IntentState
      BY DEF Inv, TypeOK, Intent
    <3>2. intents[o].state \notin {"absent", "prepared", "denied"}
      BY DEF Inv, TypeOK, RowMatchesWorld
    <3> QED
      BY <3>1, <3>2 DEF IntentState
  <2>2. CASE intents[o].state = "dispatched"
    BY <2>2 DEF Inv, SummaryMatchesHistory, Story
  <2>3. CASE intents[o].state \in {"succeeded", "failed", "unknown"}
    <3>1. /\ history[o] = <<"requested", "prepared", "dispatched", Recorded(intents[o].state)>>
          /\ attempt_history[o] = <<"started", Recorded(intents[o].state)>>
      BY <2>3 DEF Inv, SummaryMatchesHistory, Story
    <3> QED
      BY <3>1
  <2> QED
    BY <2>1, <2>2, <2>3
<1> QED
  BY <1>1, Invariance, PTL

\* Every receipt agrees with the record and with the provider.
THEOREM ReceiptsAgree == Spec => []ReceiptsAreTheRecord
<1>1. Inv => ReceiptsAreTheRecord
  BY DEF Inv
<1> QED
  BY <1>1, Invariance, PTL

\* Summary row, attempt row and both histories agree.
THEOREM HistoriesAgree == Spec => []SummaryMatchesHistory
<1>1. Inv => SummaryMatchesHistory
  BY DEF Inv
<1> QED
  BY <1>1, Invariance, PTL

\* What a committed row names can be read back.
THEOREM ReplayIsReadable == Spec => []ResultIsReadable
<1>1. Inv => ResultIsReadable
  BY DEF Inv, RowMatchesWorld, ResultIsReadable
<1> QED
  BY <1>1, Invariance, PTL

-----------------------------------------------------------------------------
\* A step that makes an effect unknown suspends its branch.
LEMMA UnknownStepSuspends ==
  ASSUME Inv, Next, NEW o \in Op, intents[o].state # "unknown", intents'[o].state = "unknown"
  PROVE  branches'[BranchOf[o]] = "suspended"
<1>1. ASSUME NEW e \in Executor, NEW p \in Op, NEW i \in Input, NEW f \in Faults, Call(e, p, i, f)
      PROVE  FALSE
  BY <1>1 DEF Call, effectRows
<1>2. ASSUME NEW e \in Executor, Proceed(e)
      PROVE  branches'[BranchOf[o]] = "suspended"
  <2>1. CASE FindExisting(e) \/ PersistExisting(e)
    BY <2>1 DEF FindExisting, PersistExisting, ResolveExisting, effectRows
  <2>2. CASE FindNothing(e) \/ PutInput(e) \/ PersistRolledBack(e) \/ FaultAfterPrepared(e)
             \/ MarkUnknownRefused(e) \/ PutResult(e)
    BY <2>2 DEF FindNothing, PutInput, PersistRolledBack, FaultAfterPrepared,
                MarkUnknownRefused, PutResult, effectRows
  <2>3. CASE PersistAuthorized(e)
    BY <2>3 DEF PersistAuthorized, InsertIntent, Inv, TypeOK
  <2>4. CASE PersistDenied(e)
    BY <2>4 DEF PersistDenied, InsertIntent, Inv, TypeOK
  <2>5. CASE MarkDispatched(e)
    BY <2>5 DEF MarkDispatched, Inv, TypeOK, Intent
  <2>6. CASE \E outcome \in Result \cup {"failed"} : Invoke(e, outcome)
    BY <2>6 DEF Invoke, effectRows
  <2>7. CASE MarkUnknown(e)
    <3>1. exec[e].op = o
      BY <2>7 DEF MarkUnknown, Resolve, Inv, TypeOK
    <3>2. BranchOf[o] \in Branch
      BY BranchOfType
    <3> QED
      BY <2>7, <3>1, <3>2 DEF MarkUnknown, Suspend, Inv, TypeOK
  <2>8. CASE MarkFailed(e)
    BY <2>8 DEF MarkFailed, Resolve, Inv, TypeOK, Intent
  <2>9. CASE CommitResult(e)
    BY <2>9 DEF CommitResult, Resolve, Inv, TypeOK, Intent
  <2> QED
    BY <1>2, <2>1, <2>2, <2>3, <2>4, <2>5, <2>6, <2>7, <2>8, <2>9 DEF Proceed, Advance
<1>3. ASSUME NEW e \in Executor, Stop(e)
      PROVE  FALSE
  BY <1>3 DEF Stop, effectRows
<1>4. ASSUME NEW b \in Branch, NEW s \in {"completed", "failed"}, MarkTerminal(b, s)
      PROVE  FALSE
  BY <1>4 DEF MarkTerminal, effectRows
<1> QED
  BY <1>1, <1>2, <1>3, <1>4 DEF Next

\* mark_unknown suspends the branch in the transaction that records the outcome.
THEOREM UnknownSuspendsBranch == Spec => UnknownSuspends
<1>1. Inv /\ [Next]_vars =>
        [\A o \in Op : intents[o].state # "unknown" /\ intents'[o].state = "unknown"
                      => branches'[BranchOf[o]] = "suspended"]_vars
  BY UnknownStepSuspends
<1> QED
  BY <1>1, Invariance, PTL DEF Spec, UnknownSuspends

-----------------------------------------------------------------------------
(* Refinement of EffectLedger. *)

\* An initial state of the gateway is one of the ledger.
LEMMA InitRefines == Init => Ledger!Init
BY DEF Init, Ledger!Init, NoIntent

\* A step of the ledger for one operation, whichever it is.
LEMMA LedgerStep ==
  ASSUME NEW o \in Op,
         \/ Ledger!Admit(o) \/ Ledger!Refuse(o) \/ Ledger!Dispatch(o) \/ Ledger!CallProvider(o)
         \/ \E r \in Result : Ledger!Record(o, r)
         \/ Ledger!Fail(o) \/ Ledger!Suspect(o) \/ Ledger!Replay(o)
  PROVE  Ledger!Next
BY DEF Ledger!Next

\* A replay from the record is invisible to the ledger.
LEMMA ResolveExistingRefines ==
  ASSUME Inv, NEW e \in Executor, exec[e].pc # "idle", ResolveExisting(e)
  PROVE  Ledger!Next \/ UNCHANGED Ledger!ledger
<1>0. PICK o \in Op : o = exec[e].op
  BY DEF Inv, CallersCarryInputs
<1> DEFINE t == [op |-> o, input |-> exec[e].input, result |-> intents[o].result,
                 replayed |-> TRUE]
<1>2. CASE Replayable(o, exec[e].input) /\ intents[o].result \in blobs
  <2>1. receipts' = receipts \cup {t} /\ intents' = intents /\ invocations' = invocations
    BY <1>0, <1>2 DEF ResolveExisting, effectRows, external
  <2>2. t.op = o /\ t.result = intents[o].result
    OBVIOUS
  <2>3. {<<u.op, u.result>> : u \in receipts'}
           = {<<u.op, u.result>> : u \in receipts} \cup {<<o, intents[o].result>>}
    <3> HIDE DEF t
    <3> QED
      BY <2>1, <2>2
  <2>4. Ledger!Replay(o)
    BY <1>0, <1>2, <2>1, <2>3 DEF Ledger!Replay, Replayable
  <2> QED
    BY <2>4, LedgerStep
<1>3. CASE ~(Replayable(o, exec[e].input) /\ intents[o].result \in blobs)
  BY <1>0, <1>3 DEF ResolveExisting, effectRows, external, Ledger!ledger
<1> QED
  BY <1>2, <1>3

\* Admitting or denying an operation is one step of the ledger.
LEMMA InsertIntentRefines ==
  ASSUME Inv, NEW e \in Executor, PersistAuthorized(e) \/ PersistDenied(e)
  PROVE  Ledger!Next
<1>0. PICK o \in Op : o = exec[e].op
  BY DEF Inv, CallersCarryInputs, PersistAuthorized, PersistDenied, At
<1>1. o \in Op /\ intents[o].state = "absent" /\ intents[o].result = None
      /\ receipts' = receipts /\ invocations' = invocations
  BY <1>0 DEF Inv, CallersCarryInputs, RowMatchesWorld, PersistAuthorized, PersistDenied, At, Existing,
         external
<1>2. CASE PersistAuthorized(e)
  <2>1. Ledger!Admit(o)
    BY <1>0, <1>1, <1>2 DEF Inv, TypeOK, PersistAuthorized, InsertIntent, Ledger!Admit, Ledger!Move
  <2> QED
    BY <2>1, LedgerStep
<1>3. CASE PersistDenied(e)
  <2>1. Ledger!Refuse(o)
    BY <1>0, <1>1, <1>3 DEF Inv, TypeOK, PersistDenied, InsertIntent, Ledger!Refuse, Ledger!Move
  <2> QED
    BY <2>1, LedgerStep
<1> QED
  BY <1>2, <1>3

\* mark_dispatched is the ledger's announcement.
LEMMA MarkDispatchedRefines ==
  ASSUME Inv, NEW e \in Executor, MarkDispatched(e)
  PROVE  Ledger!Next
<1>0. PICK o \in Op : o = exec[e].op
  BY DEF Inv, CallersCarryInputs, MarkDispatched, At
<1>1. o \in Op
  BY <1>0 DEF Inv, CallersCarryInputs, MarkDispatched, At
<1>2. Ledger!Dispatch(o)
  BY <1>0, <1>1 DEF Inv, TypeOK, Intent, MarkDispatched, Ledger!Dispatch, Ledger!Move, external
<1> QED
  BY <1>2, LedgerStep

\* The provider call is the ledger's one call.
LEMMA InvokeRefines ==
  ASSUME Inv, NEW e \in Executor, NEW outcome \in Result \cup {"failed"}, Invoke(e, outcome)
  PROVE  Ledger!Next
<1>0. PICK o \in Op : o = exec[e].op
  BY DEF Inv, CallersCarryInputs, Invoke, At
<1>1. o \in Op /\ intents[o].state = "dispatched" /\ invocations[o] = 0
  BY <1>0 DEF Inv, CallersCarryInputs, RowMatchesHolder, Holds, Invoke, At
<1>2. Ledger!CallProvider(o)
  BY <1>0, <1>1 DEF Inv, TypeOK, Invoke, Provide, effectRows, Ledger!CallProvider
<1> QED
  BY <1>2, LedgerStep

\* mark_unknown resolves the operation as unknown.
LEMMA MarkUnknownRefines ==
  ASSUME Inv, NEW e \in Executor, MarkUnknown(e)
  PROVE  Ledger!Next
<1>0. PICK o \in Op : o = exec[e].op
  BY DEF Inv, CallersCarryInputs, MarkUnknown, FaultDue, At
<1>1. o \in Op /\ intents[o].state = "dispatched" /\ intents[o].result = None
  BY <1>0 DEF Inv, CallersCarryInputs, RowMatchesWorld, MarkUnknown, FaultDue, At, Resolve
<1>2. Ledger!Suspect(o)
  BY <1>0, <1>1, ZenonT(30) DEF Inv, TypeOK, Intent, MarkUnknown, Resolve, external, Ledger!Suspect, Ledger!Move
<1> QED
  BY <1>2, LedgerStep

\* mark_failed resolves the operation as failed.
LEMMA MarkFailedRefines ==
  ASSUME Inv, NEW e \in Executor, MarkFailed(e)
  PROVE  Ledger!Next
<1>0. PICK o \in Op : o = exec[e].op
  BY DEF Inv, CallersCarryInputs, MarkFailed, At
<1>1. o \in Op /\ intents[o].state = "dispatched" /\ intents[o].result = None
      /\ invocations[o] = 1
  BY <1>0 DEF Inv, CallersCarryInputs, RowMatchesHolder, RowMatchesWorld, Holds, MarkFailed, At, Resolve
<1>2. Ledger!Fail(o)
  BY <1>0, <1>1 DEF Inv, TypeOK, Intent, MarkFailed, Resolve, external, Ledger!Fail, Ledger!Move
<1> QED
  BY <1>2, LedgerStep

\* commit_result resolves the operation as committed.
LEMMA CommitResultRefines ==
  ASSUME Inv, NEW e \in Executor, CommitResult(e)
  PROVE  Ledger!Next
<1>0. PICK o \in Op : o = exec[e].op
  BY DEF Inv, CallersCarryInputs, CommitResult, At
<1>1. PICK r \in Result : r = exec[e].outcome
  BY DEF Inv, RowMatchesHolder, Holds, CommitResult, At
<1> DEFINE t == [op |-> o, input |-> exec[e].input, result |-> r, replayed |-> FALSE]
<1>2. intents[o].state = "dispatched" /\ invocations[o] = 1
  BY <1>0 DEF Inv, RowMatchesHolder, Holds, CommitResult, At, Resolve
<1>3. receipts' = receipts \cup {t} /\ t.op = o /\ t.result = r
  BY <1>0, <1>1 DEF CommitResult
<1>4. {<<u.op, u.result>> : u \in receipts'} = {<<u.op, u.result>> : u \in receipts} \cup {<<o, r>>}
  <2> HIDE DEF t
  <2> QED
    BY <1>3
<1>5. Ledger!Record(o, r)
  BY <1>0, <1>1, <1>2, <1>4
     DEF Inv, TypeOK, Intent, CommitResult, Resolve, external, Ledger!Record, Ledger!Move
<1> QED
  BY <1>5, LedgerStep

\* Every step of the gateway is a step of the ledger or leaves it alone.
LEMMA NextRefines ==
  ASSUME Inv, [Next]_vars
  PROVE  [Ledger!Next]_(Ledger!ledger)
<1>1. ASSUME UNCHANGED <<intents, invocations, receipts>>
      PROVE  UNCHANGED Ledger!ledger
  BY <1>1 DEF Ledger!ledger
<1>2. ASSUME NEW e \in Executor, NEW o \in Op, NEW i \in Input, NEW f \in Faults, Call(e, o, i, f)
      PROVE  UNCHANGED <<intents, invocations, receipts>>
  BY <1>2 DEF Call, effectRows, external
<1>3. ASSUME NEW e \in Executor, Proceed(e)
      PROVE  Ledger!Next \/ UNCHANGED Ledger!ledger
  <2>1. CASE FindExisting(e) \/ PersistExisting(e)
    BY <2>1, ResolveExistingRefines DEF FindExisting, PersistExisting, At
  <2>2. CASE FindNothing(e) \/ PutInput(e) \/ PersistRolledBack(e) \/ FaultAfterPrepared(e)
             \/ MarkUnknownRefused(e) \/ PutResult(e)
    BY <1>1, <2>2 DEF FindNothing, PutInput, PersistRolledBack, FaultAfterPrepared,
                      MarkUnknownRefused, PutResult, effectRows, external
  <2>3. CASE PersistAuthorized(e) \/ PersistDenied(e)
    BY <2>3, InsertIntentRefines
  <2>4. CASE MarkDispatched(e)
    BY <2>4, MarkDispatchedRefines
  <2>5. CASE \E outcome \in Result \cup {"failed"} : Invoke(e, outcome)
    BY <2>5, InvokeRefines
  <2>6. CASE MarkUnknown(e)
    BY <2>6, MarkUnknownRefines
  <2>7. CASE MarkFailed(e)
    BY <2>7, MarkFailedRefines
  <2>8. CASE CommitResult(e)
    BY <2>8, CommitResultRefines
  <2> QED
    BY <1>3, <2>1, <2>2, <2>3, <2>4, <2>5, <2>6, <2>7, <2>8 DEF Proceed, Advance
<1>4. ASSUME NEW e \in Executor, Stop(e)
      PROVE  UNCHANGED <<intents, invocations, receipts>>
  BY <1>4 DEF Stop, effectRows, external
<1>5. ASSUME NEW b \in Branch, NEW s \in {"completed", "failed"}, MarkTerminal(b, s)
      PROVE  UNCHANGED <<intents, invocations, receipts>>
  BY <1>5 DEF MarkTerminal, effectRows, external
<1>6. CASE UNCHANGED vars
  BY <1>1, <1>6 DEF vars
<1> QED
  BY <1>1, <1>2, <1>3, <1>4, <1>5, <1>6 DEF Next

\* The gateway implements the ledger, for any number of callers and operations.
THEOREM Refinement == Spec => ImplementsLedger
BY InitRefines, NextRefines, Invariance, PTL DEF Spec, ImplementsLedger, Ledger!Spec
=============================================================================
