-------------------------- MODULE CapabilityService --------------------------
(***************************************************************************)
(* The trusted authority of crates/epoch-capabilities: capabilities bound  *)
(* to a branch and a scope, delegation by attenuation, per-branch policy   *)
(* revisions, revocation, and the authorize-and-consume transaction that   *)
(* charges a use to the capability and to everyone it was delegated from.  *)
(*                                                                         *)
(* Every operation of the service is one immediate SQLite transaction, so  *)
(* it is one action; a call that returns Err changes nothing and has no    *)
(* action.  An opaque handle stands for the capability it hashes to, and   *)
(* the handle of an id not yet generated stands for an unknown handle.     *)
(* Scope is the (session, subject, action, resource) tuple, which the      *)
(* service only ever compares for equality.  The wall clock is read once   *)
(* per call and may go back between calls: `now' is any member of Time.    *)
(***************************************************************************)
EXTENDS Integers, FiniteSets, Sequences

CONSTANTS
    Capability,    \* identities CapabilityId::new can generate
    Branch,        \* branches, each of one session
    Scope,         \* (session, subject, action, resource) tuples
    RequestId,     \* request ids of uses
    UseLimit,      \* values of constraints.max_uses
    BudgetLimit,   \* values of constraints.budget_units
    Charge,        \* budget_units of a use
    Expiry,        \* values of expires_at_unix_ms
    Time,          \* readings of the clock
    Revision,      \* policy revisions
    MaxDecisions   \* bound: length of the audit log explored

None == -1         \* SQL NULL, Rust None

ASSUME CapabilityNotNone == None \notin Capability
ASSUME BranchNotNone == None \notin Branch
\* positive_i64 and CapabilityUse::new refuse zero.
ASSUME LimitsArePositive ==
    /\ UseLimit \subseteq Nat \ {0}
    /\ BudgetLimit \subseteq Nat \ {0}
    /\ Charge \subseteq Nat \ {0}
ASSUME ClockIsNatural == Time \subseteq Nat /\ Expiry \subseteq Nat
ASSUME RevisionIsNatural == Revision \subseteq Nat
ASSUME DecisionBound == MaxDecisions \in Nat

VARIABLES
    policy,          \* capability_policy_revisions.current_revision
    grant,           \* capabilities: the immutable columns
    status,          \* capabilities.status, "absent" before the INSERT
    uses,            \* capabilities.remaining_uses
    budget,          \* capabilities.remaining_budget_units
    ancestry,        \* capability_ancestry.depth by capability and ancestor, None: no row
    authorizations,  \* capability_authorizations
    decisions        \* capability_decisions, the audit log

vars == <<policy, grant, status, uses, budget, ancestry, authorizations, decisions>>

-----------------------------------------------------------------------------
(* Rows. *)

Optional(S) == S \cup {None}

Grant == [branch : Optional(Branch), scope : Optional(Scope),
          revision : Optional(Revision),
          max_uses : Optional(UseLimit), budget_units : Optional(BudgetLimit),
          issued_at : Optional(Time), expires_at : Optional(Expiry),
          delegated_from : Optional(Capability)]

NoGrant == [branch |-> None, scope |-> None, revision |-> None,
            max_uses |-> None, budget_units |-> None,
            issued_at |-> None, expires_at |-> None, delegated_from |-> None]

Use == [branch : Branch, scope : Scope, revision : Revision,
        budget : Charge, request : RequestId]

Status == {"absent", "active", "consumed", "expired", "revoked"}

Reason == {"allowed", "unknown_handle", "branch_mismatch", "scope_mismatch",
           "revoked", "expired", "consumed",
           "policy_unavailable", "policy_stale", "policy_revision_mismatch",
           "ancestor_revoked", "ancestor_expired", "ancestor_consumed",
           "request_already_authorized", "budget_exceeded"}

Authorization == [capability : Capability, request : RequestId,
                  budget : Charge, at : Time]

Decision == [handle : Capability, request : RequestId,
             budget : Charge, reason : Reason]

Issued == {c \in Capability : status[c] # "absent"}

\* Everyone whose counters a use of c draws on: c itself and its delegators.
Ancestors(c) == {a \in Capability : ancestry[c][a] # None}

TypeOK ==
    /\ policy \in [Branch -> Optional(Revision)]
    /\ grant \in [Capability -> Grant]
    /\ status \in [Capability -> Status]
    /\ uses \in [Capability -> Optional(Nat)]
    /\ budget \in [Capability -> Optional(Nat)]
    /\ ancestry \in [Capability -> [Capability -> Optional(Nat)]]
    /\ authorizations \subseteq Authorization
    /\ decisions \in Seq(Decision)

Init ==
    /\ policy = [b \in Branch |-> None]
    /\ grant = [c \in Capability |-> NoGrant]
    /\ status = [c \in Capability |-> "absent"]
    /\ uses = [c \in Capability |-> None]
    /\ budget = [c \in Capability |-> None]
    /\ ancestry = [c \in Capability |-> [a \in Capability |-> None]]
    /\ authorizations = {}
    /\ decisions = <<>>

-----------------------------------------------------------------------------
(* Policy revisions. *)

\* Mutant: the comparison with the recorded revision is dropped.
SetPolicyRevision_Rollback(b, r) ==
    /\ policy' = [policy EXCEPT ![b] = r]
    /\ UNCHANGED <<grant, status, uses, budget, ancestry, authorizations, decisions>>

\* A lower revision is refused; the current one again is a no-op.
SetPolicyRevision(b, r) ==
    /\ policy[b] = None \/ r > policy[b]
    /\ policy' = [policy EXCEPT ![b] = r]
    /\ UNCHANGED <<grant, status, uses, budget, ancestry, authorizations, decisions>>

-----------------------------------------------------------------------------
(* Liveness of a capability at a reading of the clock. *)

Exhausted(c) == uses[c] = 0 \/ budget[c] = 0

\* Mutant: the instant of expiry still counts as valid.
Expired_Late(c, now) ==
    grant[c].expires_at # None /\ now > grant[c].expires_at

Expired(c, now) ==
    grant[c].expires_at # None /\ now >= grant[c].expires_at

\* direct_state_denial, with mark_consumed and mark_expired: the status the
\* check finds, which it also writes back.
CurrentStatus(c, now) ==
    IF status[c] # "active" THEN status[c]
    ELSE IF Exhausted(c) THEN "consumed"
    ELSE IF Expired(c, now) THEN "expired"
    ELSE "active"

InactiveAncestors(c, now) ==
    {a \in Ancestors(c) \ {c} : CurrentStatus(a, now) # "active"}

\* ancestor_denial walks the rows ORDER BY depth and stops at the first.
NearestInactiveAncestor(c, now) ==
    CHOOSE a \in InactiveAncestors(c, now) :
        \A b \in InactiveAncestors(c, now) : ancestry[c][a] <= ancestry[c][b]

AncestorReason == [revoked  |-> "ancestor_revoked",
                   expired  |-> "ancestor_expired",
                   consumed |-> "ancestor_consumed"]

-----------------------------------------------------------------------------
(* Issue and attenuate. *)

\* An IssueRequest presented at `now', delegated from p or from None.
IssueRequest(p, now) ==
    [branch : Branch, scope : Scope, revision : Revision,
     max_uses : Optional(UseLimit), budget_units : Optional(BudgetLimit),
     issued_at : {now}, expires_at : Optional(Expiry), delegated_from : {p}]

\* ValidatedIssue::new: the limits are positive by LimitsArePositive.
ValidIssue(g, now) == g.expires_at = None \/ g.expires_at > now

InsertCapability(c, g) ==
    /\ status[c] = "absent"
    /\ status' = [status EXCEPT ![c] = "active"]
    /\ grant' = [grant EXCEPT ![c] = g]
    /\ uses' = [uses EXCEPT ![c] = g.max_uses]
    /\ budget' = [budget EXCEPT ![c] = g.budget_units]
    /\ UNCHANGED <<policy, authorizations, decisions>>

\* A root depends on itself alone.
RootAncestry(c) == [a \in Capability |-> IF a = c THEN 0 ELSE None]

Issue(c, g, now) ==
    /\ ValidIssue(g, now)
    /\ policy[g.branch] = g.revision          \* require_current_policy
    /\ InsertCapability(c, g)
    /\ ancestry' = [ancestry EXCEPT ![c] = RootAncestry(c)]

\* require_narrower_limit, also the form of the expiry check.
Narrower(child, parent) ==
    parent = None \/ (child # None /\ child <= parent)

ValidAttenuation(p, g, now) ==
    /\ CurrentStatus(p, now) = "active"
    /\ InactiveAncestors(p, now) = {}
    /\ g.branch = grant[p].branch
    /\ g.scope = grant[p].scope
    /\ g.revision = grant[p].revision
    /\ Narrower(g.max_uses, uses[p])
    /\ Narrower(g.budget_units, budget[p])
    /\ Narrower(g.expires_at, grant[p].expires_at)
    /\ policy[grant[p].branch] = grant[p].revision

\* INSERT ... SELECT of the parent's rows one deeper, then the child's own.
ChildAncestry(c, p) ==
    [a \in Capability |-> IF a = c THEN 0
                          ELSE IF a \in Ancestors(p) THEN ancestry[p][a] + 1 ELSE None]

\* The checks of attenuate run on a transaction that is dropped on error, so
\* a parent found exhausted or expired here is not written back.
Attenuate(c, p, g, now) ==
    /\ ValidIssue(g, now)
    /\ status[p] # "absent"
    /\ ValidAttenuation(p, g, now)
    /\ InsertCapability(c, g)
    /\ ancestry' = [ancestry EXCEPT ![c] = ChildAncestry(c, p)]

-----------------------------------------------------------------------------
(* Revocation. *)

\* Mutant: the UPDATE loses its WHERE status = 'active'.
Revoke_AnyStatus(c, now) ==
    /\ status[c] # "absent"
    /\ now >= grant[c].issued_at
    /\ status' = [status EXCEPT ![c] = "revoked"]
    /\ UNCHANGED <<policy, grant, uses, budget, ancestry, authorizations, decisions>>

\* The schema's CHECK (updated_at_unix_ms >= issued_at_unix_ms) makes the
\* UPDATE fail when the clock reads earlier than the issue did.
Revoke(c, now) ==
    /\ status[c] = "active"
    /\ now >= grant[c].issued_at
    /\ status' = [status EXCEPT ![c] = "revoked"]
    /\ UNCHANGED <<policy, grant, uses, budget, ancestry, authorizations, decisions>>

\* The operator names the capability by its non-secret id instead of a handle.
RevokeById(c, now) == Revoke(c, now)

-----------------------------------------------------------------------------
(* Authorize and consume. *)

BindingDenial(c, use) ==
    IF grant[c].branch # use.branch THEN "branch_mismatch"
    ELSE IF grant[c].scope # use.scope THEN "scope_mismatch"
    ELSE "allowed"

PolicyDenial(c, use) ==
    LET current == policy[grant[c].branch] IN
    IF current = None THEN "policy_unavailable"
    ELSE IF current # grant[c].revision THEN "policy_stale"
    ELSE IF current # use.revision THEN "policy_revision_mismatch"
    ELSE "allowed"

AlreadyAuthorized(c, use) ==
    \E a \in authorizations : a.capability = c /\ a.request = use.request

BudgetExceeded(c, use) ==
    \E a \in Ancestors(c) : budget[a] # None /\ budget[a] < use.budget

\* evaluate_authority: the first denial in this order, or "allowed".  The row
\* order of capability_ancestry puts the capability itself first, so the
\* corrupt_authority outcome has no state to start from.
Verdict(c, use, now) ==
    IF status[c] = "absent" THEN "unknown_handle"
    ELSE IF BindingDenial(c, use) # "allowed" THEN BindingDenial(c, use)
    ELSE IF CurrentStatus(c, now) # "active" THEN CurrentStatus(c, now)
    ELSE IF PolicyDenial(c, use) # "allowed" THEN PolicyDenial(c, use)
    ELSE IF InactiveAncestors(c, now) # {}
         THEN AncestorReason[CurrentStatus(NearestInactiveAncestor(c, now), now)]
    ELSE IF AlreadyAuthorized(c, use) THEN "request_already_authorized"
    ELSE IF BudgetExceeded(c, use) THEN "budget_exceeded"
    ELSE "allowed"

\* The row a denial found dead is written back as such.
MarkDenied(c, now, reason) ==
    status' =
        IF reason \in {"revoked", "expired", "consumed"}
        THEN [status EXCEPT ![c] = CurrentStatus(c, now)]
        ELSE IF reason \in {"ancestor_revoked", "ancestor_expired", "ancestor_consumed"}
        THEN LET a == NearestInactiveAncestor(c, now)
             IN  [status EXCEPT ![a] = CurrentStatus(a, now)]
        ELSE status

Less(n, m) == IF n = None THEN None ELSE n - m

\* Mutant: only the presented capability is charged.
ConsumeCounters_SelfOnly(c, use) ==
    /\ uses' = [uses EXCEPT ![c] = Less(uses[c], 1)]
    /\ budget' = [budget EXCEPT ![c] = Less(budget[c], use.budget)]
    /\ status' = [status EXCEPT ![c] =
                     IF uses'[c] = 0 \/ budget'[c] = 0 THEN "consumed" ELSE "active"]

\* consume_counter on every row load_ancestors returned.
ConsumeCounters(c, use) ==
    /\ uses' = [a \in Capability |-> IF a \in Ancestors(c) THEN Less(uses[a], 1) ELSE uses[a]]
    /\ budget' = [a \in Capability |->
                    IF a \in Ancestors(c) THEN Less(budget[a], use.budget) ELSE budget[a]]
    /\ status' = [a \in Capability |->
                    IF a \notin Ancestors(c) THEN status[a]
                    ELSE IF uses'[a] = 0 \/ budget'[a] = 0 THEN "consumed" ELSE "active"]

RecordDecision(c, use, reason) ==
    decisions' = Append(decisions, [handle |-> c, request |-> use.request,
                                    budget |-> use.budget, reason |-> reason])

\* An allow: all ancestors are charged, or none.  The schema's CHECK on
\* updated_at_unix_ms aborts the transaction when the clock reads earlier
\* than the issue of some ancestor.
Allow(c, use, now) ==
    /\ Verdict(c, use, now) = "allowed"
    /\ \A a \in Ancestors(c) : now >= grant[a].issued_at
    /\ ConsumeCounters(c, use)
    /\ authorizations' = authorizations \cup
           {[capability |-> c, request |-> use.request, budget |-> use.budget, at |-> now]}
    /\ RecordDecision(c, use, "allowed")
    /\ UNCHANGED <<policy, grant, ancestry>>

Deny(c, use, now) ==
    /\ Verdict(c, use, now) # "allowed"
    /\ MarkDenied(c, now, Verdict(c, use, now))
    /\ RecordDecision(c, use, Verdict(c, use, now))
    /\ UNCHANGED <<policy, grant, uses, budget, ancestry, authorizations>>

AuthorizeAndConsume(c, use, now) ==
    /\ Len(decisions) < MaxDecisions
    /\ Allow(c, use, now) \/ Deny(c, use, now)

-----------------------------------------------------------------------------
\* What the CLI asks of the service besides authorization.
Administer ==
    \/ \E b \in Branch, r \in Revision : SetPolicyRevision(b, r)
    \/ \E now \in Time : \E c \in Capability, g \in IssueRequest(None, now) : Issue(c, g, now)
    \/ \E now \in Time, p \in Capability :
           \E c \in Capability, g \in IssueRequest(p, now) : Attenuate(c, p, g, now)
    \/ \E c \in Capability, now \in Time : RevokeById(c, now)

Next ==
    \/ Administer
    \/ \E c \in Capability, now \in Time : Revoke(c, now)
    \/ \E c \in Capability, use \in Use, now \in Time : AuthorizeAndConsume(c, use, now)

Spec == Init /\ [][Next]_vars

-----------------------------------------------------------------------------
(* Properties. *)

AncestorDenials == {"ancestor_revoked", "ancestor_expired", "ancestor_consumed"}

\* Denials that report something the service promises never to undo.
FinalDenials == {"revoked", "expired", "consumed", "policy_stale"} \cup AncestorDenials

\* Authorizations drawn on c: its own and those of everything delegated from it.
ChargedTo(c) == {a \in authorizations : c \in Ancestors(a.capability)}

\* The budget units of those authorizations, one element per unit.
UnitsChargedTo(c) == UNION {{a} \X (1..a.budget) : a \in ChargedTo(c)}

\* Delegation cannot multiply uses: what is left of a capability's use count
\* plus every authorization made through it or through any descendant, at any
\* depth, is the count it was issued with (attenuate, consume_counter).
UsesConserved ==
    \A c \in Issued : grant[c].max_uses # None =>
        uses[c] + Cardinality(ChargedTo(c)) = grant[c].max_uses

\* The same for budget units, which a use spends several of at a time.
BudgetConserved ==
    \A c \in Issued : grant[c].budget_units # None =>
        budget[c] + Cardinality(UnitsChargedTo(c)) = grant[c].budget_units

\* Delegation multiplies neither, at any depth and in any order of charges.
AllowanceConserved == UsesConserved /\ BudgetConserved

\* capability_ancestry is the delegation chain: revoking, expiring or consuming
\* any delegator, however far up, is seen by the check of every descendant.
AncestryIsDelegation ==
    \A c \in Issued :
        LET p == grant[c].delegated_from IN
        /\ ancestry[c][c] = 0
        /\ p = None => Ancestors(c) = {c}
        /\ p # None => /\ Ancestors(c) = Ancestors(p) \cup {c}
                       /\ \A a \in Ancestors(p) : ancestry[c][a] = ancestry[p][a] + 1

\* A limit n respects the limit m, where None limits nothing.
Within(n, m) == m # None => n # None /\ n <= m

\* A descendant's scope never exceeds a delegator's: same branch, scope and
\* revision, and limits and expiry within those the delegator was issued with.
DelegationNarrows ==
    \A c \in Issued : \A a \in Ancestors(c) :
        /\ grant[c].branch = grant[a].branch
        /\ grant[c].scope = grant[a].scope
        /\ grant[c].revision = grant[a].revision
        /\ Within(grant[c].max_uses, grant[a].max_uses)
        /\ Within(grant[c].budget_units, grant[a].budget_units)
        /\ Within(grant[c].expires_at, grant[a].expires_at)

\* The status column tells exhaustion exactly: a capability is consumed if and
\* only if a counter of it is at zero, whoever's use brought it there.
ConsumedIffExhausted == \A c \in Issued : (status[c] = "consumed") <=> Exhausted(c)

\* A denial for a reason that is not undone is final: in the audit log no allow
\* for the same handle follows it, even when the clock goes back; a request id
\* refused as already authorized stays refused; and after "budget_exceeded"
\* only smaller charges can pass.
DenialIsFinal ==
    \A i, j \in DOMAIN decisions :
        /\ i < j
        /\ decisions[i].handle = decisions[j].handle
        /\ decisions[j].reason = "allowed"
        => /\ decisions[i].reason \notin FinalDenials
           /\ decisions[i].reason \in {"allowed", "request_already_authorized"} =>
                  decisions[i].request # decisions[j].request
           /\ decisions[i].reason = "budget_exceeded" =>
                  decisions[j].budget < decisions[i].budget

\* The audit log and the authorization table agree: each allow in the log has
\* its row and each row its allow.
AllowsAreRecorded ==
    {<<a.capability, a.request, a.budget>> : a \in authorizations} =
    {<<decisions[i].handle, decisions[i].request, decisions[i].budget>> :
        i \in {k \in DOMAIN decisions : decisions[k].reason = "allowed"}}

\* Nobody is authorized outside the lifetime of anyone it depends on: every
\* authorization fell between the issue and the expiry of the capability and of
\* each of its delegators, although the clock may run backwards.
AuthorizedWithinLifetime ==
    \A a \in authorizations : \A c \in Ancestors(a.capability) :
        /\ a.at >= grant[c].issued_at
        /\ grant[c].expires_at # None => a.at < grant[c].expires_at

\* One step of shrinking authority.
Shrinks ==
    /\ \A c \in Issued :
          /\ status'[c] # "absent" /\ (status[c] # "active" => status'[c] = status[c])
          /\ grant'[c] = grant[c] /\ ancestry'[c] = ancestry[c]
          /\ uses[c] # None => uses'[c] \in 0..uses[c]
          /\ budget[c] # None => budget'[c] \in 0..budget[c]
    /\ \A b \in Branch : policy[b] # None => policy'[b] >= policy[b]
    /\ authorizations \subseteq authorizations'
    /\ \E n \in 0..Len(decisions') : decisions = SubSeq(decisions', 1, n)

\* Authority only shrinks: a dead capability keeps the cause of its death,
\* counters never grow, a grant never changes once issued, policy revisions
\* never go back, and both histories only get longer.
AuthorityOnlyShrinks == [][Shrinks]_vars
=============================================================================
