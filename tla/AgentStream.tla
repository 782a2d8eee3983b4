----------------------------- MODULE AgentStream -----------------------------
(***************************************************************************)
(* The boundary protocol of crates/epoch-protocol: the StreamValidator a   *)
(* supervisor feeds with the records of one agent, as accept_claims does.  *)
(* A record that is refused leaves the validator as it was (it works on a  *)
(* clone).  decode_line and validate check single records; the envelopes   *)
(* here are those they let through.  Numbers are bounded by MaxSequence    *)
(* and MaxRevision where the code has i64::MAX.                            *)
(***************************************************************************)
EXTENDS Integers, Sequences

CONSTANTS
    Identity,      \* session and branch a record may claim
    Assigned,      \* SupervisorBinding: the ones the supervisor assigned
    Hash,          \* content hashes
    RequestId, CallId,
    MaxSequence, MaxRevision

ASSUME AssignedType == Assigned \in Identity
ASSUME NoHashType == "no hash" \notin Hash
ASSUME MaxType == MaxSequence \in Nat /\ MaxRevision \in Nat

VARIABLES
    started, completed,
    last_sequence,           \* -1 before the first record
    last_context_revision,   \* -1 before the first context
    current_context_hash,
    seen_model_requests, pending_model_requests,
    seen_tool_calls, pending_tool_calls,
    log                      \* the records accepted so far

vars == <<started, completed, last_sequence, last_context_revision, current_context_hash,
          seen_model_requests, pending_model_requests, seen_tool_calls,
          pending_tool_calls, log>>

context == <<last_context_revision, current_context_hash>>
model == <<seen_model_requests, pending_model_requests>>
tools == <<seen_tool_calls, pending_tool_calls>>

NoHash == "no hash"

Sequence == 0..MaxSequence
Revision == 0..MaxRevision

\* Message and its payloads, as far as the validator looks at them.
Envelope ==
    [kind : {"agent.start"}, sequence : Sequence, identity : Identity]
        \cup [kind : {"context.update"}, sequence : Sequence, revision : Revision, hash : Hash]
        \cup [kind : {"model.request", "model.response"}, sequence : Sequence, id : RequestId]
        \cup [kind : {"tool.call", "tool.result"}, sequence : Sequence, id : CallId]
        \cup [kind : {"safe_point"}, sequence : Sequence, hash : Hash]
        \cup [kind : {"agent.completion"}, sequence : Sequence]

TypeOK ==
    /\ started \in BOOLEAN /\ completed \in BOOLEAN
    /\ last_sequence \in -1..MaxSequence
    /\ last_context_revision \in -1..MaxRevision
    /\ current_context_hash \in Hash \cup {NoHash}
    /\ seen_model_requests \subseteq RequestId
    /\ pending_model_requests \subseteq seen_model_requests
    /\ seen_tool_calls \subseteq CallId
    /\ pending_tool_calls \subseteq seen_tool_calls
    /\ log \in Seq(Envelope)

\* StreamValidator::new.
Init ==
    /\ started = FALSE /\ completed = FALSE
    /\ last_sequence = -1
    /\ last_context_revision = -1
    /\ current_context_hash = NoHash
    /\ seen_model_requests = {} /\ pending_model_requests = {}
    /\ seen_tool_calls = {} /\ pending_tool_calls = {}
    /\ log = <<>>

-----------------------------------------------------------------------------
(* When accept_stream lets a record of each kind pass. *)

\* Mutant: tool calls are not waited for.
Idle_ModelOnly == pending_model_requests = {}

Idle == pending_model_requests = {} /\ pending_tool_calls = {}

StartOK(e) == ~completed /\ ~started /\ e.kind = "agent.start" /\ e.identity = Assigned

\* The checks made of every record after the first.
FollowsOK(e) == ~completed /\ started /\ e.sequence > last_sequence

ContextOK(e) == e.kind = "context.update" /\ e.revision > last_context_revision
ModelRequestOK(e) == e.kind = "model.request" /\ e.id \notin seen_model_requests
ModelResponseOK(e) == e.kind = "model.response" /\ e.id \in pending_model_requests
ToolCallOK(e) == e.kind = "tool.call" /\ e.id \notin seen_tool_calls
ToolResultOK(e) == e.kind = "tool.result" /\ e.id \in pending_tool_calls
SafePointOK(e) == e.kind = "safe_point" /\ e.hash = current_context_hash /\ Idle
CompletionOK(e) == e.kind = "agent.completion" /\ Idle

Acceptable(e) ==
    \/ StartOK(e)
    \/ FollowsOK(e) /\ \/ ContextOK(e) \/ ModelRequestOK(e) \/ ModelResponseOK(e)
                       \/ ToolCallOK(e) \/ ToolResultOK(e)
                       \/ SafePointOK(e) \/ CompletionOK(e)

-----------------------------------------------------------------------------
(* What accepting a record does. *)

Recorded(e) == last_sequence' = e.sequence /\ log' = Append(log, e)

AcceptStart(e) ==
    /\ StartOK(e)
    /\ started' = TRUE
    /\ Recorded(e)
    /\ UNCHANGED <<completed, context, model, tools>>

AcceptContext(e) ==
    /\ FollowsOK(e) /\ ContextOK(e)
    /\ last_context_revision' = e.revision
    /\ current_context_hash' = e.hash
    /\ Recorded(e)
    /\ UNCHANGED <<started, completed, model, tools>>

AcceptModelRequest(e) ==
    /\ FollowsOK(e) /\ ModelRequestOK(e)
    /\ seen_model_requests' = seen_model_requests \cup {e.id}
    /\ pending_model_requests' = pending_model_requests \cup {e.id}
    /\ Recorded(e)
    /\ UNCHANGED <<started, completed, context, tools>>

AcceptModelResponse(e) ==
    /\ FollowsOK(e) /\ ModelResponseOK(e)
    /\ pending_model_requests' = pending_model_requests \ {e.id}
    /\ Recorded(e)
    /\ UNCHANGED <<started, completed, context, seen_model_requests, tools>>

AcceptToolCall(e) ==
    /\ FollowsOK(e) /\ ToolCallOK(e)
    /\ seen_tool_calls' = seen_tool_calls \cup {e.id}
    /\ pending_tool_calls' = pending_tool_calls \cup {e.id}
    /\ Recorded(e)
    /\ UNCHANGED <<started, completed, context, model>>

AcceptToolResult(e) ==
    /\ FollowsOK(e) /\ ToolResultOK(e)
    /\ pending_tool_calls' = pending_tool_calls \ {e.id}
    /\ Recorded(e)
    /\ UNCHANGED <<started, completed, context, model, seen_tool_calls>>

AcceptSafePoint(e) ==
    /\ FollowsOK(e) /\ SafePointOK(e)
    /\ Recorded(e)
    /\ UNCHANGED <<started, completed, context, model, tools>>

AcceptCompletion(e) ==
    /\ FollowsOK(e) /\ CompletionOK(e)
    /\ completed' = TRUE
    /\ Recorded(e)
    /\ UNCHANGED <<started, context, model, tools>>

Next == \E e \in Envelope :
    \/ AcceptStart(e) \/ AcceptContext(e)
    \/ AcceptModelRequest(e) \/ AcceptModelResponse(e)
    \/ AcceptToolCall(e) \/ AcceptToolResult(e)
    \/ AcceptSafePoint(e) \/ AcceptCompletion(e)

Spec == Init /\ [][Next]_vars

-----------------------------------------------------------------------------
(* The streams the protocol means, told by the records alone. *)

Earlier(s, j) == 1..(j - 1)

\* The record s[k] answers the request or call s[i].
Answers(s, k, i) ==
    /\ <<s[i].kind, s[k].kind>> \in {<<"model.request", "model.response">>,
                                      <<"tool.call", "tool.result">>}
    /\ s[k].id = s[i].id

Asks(s, i) == s[i].kind \in {"model.request", "tool.call"}
IsAnswer(s, k) == s[k].kind \in {"model.response", "tool.result"}

\* Nothing that was asked before s[j] is unanswered there.
QuietAt(s, j) == \A i \in Earlier(s, j) :
    Asks(s, i) => \E k \in (i + 1)..(j - 1) : Answers(s, k, i)

\* s[j] names the context of the last update before it.
NamesLatestContext(s, j) == \E i \in Earlier(s, j) :
    /\ s[i].kind = "context.update" /\ s[i].hash = s[j].hash
    /\ \A k \in (i + 1)..(j - 1) : s[k].kind # "context.update"

WellFormed(s) == \A j \in DOMAIN s :
    /\ IF j = 1 THEN s[j].kind = "agent.start" /\ s[j].identity = Assigned
                ELSE s[j].kind # "agent.start"
    /\ \A i \in Earlier(s, j) :
          /\ s[i].sequence < s[j].sequence
          /\ s[i].kind # "agent.completion"
          /\ s[i].kind = "context.update" /\ s[j].kind = "context.update"
                => s[i].revision < s[j].revision
          /\ Asks(s, i) /\ s[j].kind = s[i].kind => s[i].id # s[j].id
    /\ IsAnswer(s, j) =>
          \E i \in Earlier(s, j) :
             /\ Answers(s, j, i)
             /\ \A k \in (i + 1)..(j - 1) : ~Answers(s, k, i)
    /\ s[j].kind \in {"safe_point", "agent.completion"} => QuietAt(s, j)
    /\ s[j].kind = "safe_point" => NamesLatestContext(s, j)

\* The validator accepts exactly the streams the protocol means: the accepted
\* records form one, and a record is refused only if it would spoil it.
AcceptsExactly ==
    /\ WellFormed(log)
    /\ \A e \in Envelope : Acceptable(e) <=> WellFormed(Append(log, e))
=============================================================================
