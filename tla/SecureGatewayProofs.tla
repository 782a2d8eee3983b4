------------------------- MODULE SecureGatewayProofs -------------------------
(***************************************************************************)
(* Proofs about CapabilityService and SecureGateway, for any set of        *)
(* capabilities, branches, limits, charges, times and revisions, any       *)
(* clock, any number of gateways and operations, and any interleaving of   *)
(* effects with the administration of authority.                           *)
(*                                                                         *)
(* The first part is about the service alone (Spec).  A step of the        *)
(* composition is a step of the service or leaves it alone, so every one   *)
(* of its theorems holds of the composition; likewise a step of the        *)
(* gateway.  What is new in the second part (SecureSpec) is that the two   *)
(* tables agree row by row.                                                *)
(***************************************************************************)
EXTENDS SecureGateway, FiniteSetTheorems, SequenceTheorems, WellFoundedInduction, TLAPS

-----------------------------------------------------------------------------
(* Part 1: the capability service. *)

\* What an issued row and its ancestry satisfy, and that a row not yet issued is
\* named by no ancestry.
RowsOK ==
    \A c \in Capability :
        /\ status[c] = "absent" => \A a \in Capability : ancestry[c][a] = None /\ ancestry[a][c] = None
        /\ status[c] # "absent" =>
              /\ grant[c].branch \in Branch
              /\ grant[c].revision \in Revision
              /\ grant[c].issued_at \in Time
              /\ grant[c].delegated_from # None => status[grant[c].delegated_from] # "absent"
              /\ ancestry[c][c] = 0
              /\ uses[c] = None <=> grant[c].max_uses = None
              /\ uses[c] # None => uses[c] <= grant[c].max_uses
              /\ budget[c] = None <=> grant[c].budget_units = None
              /\ budget[c] # None => budget[c] <= grant[c].budget_units
              /\ policy[grant[c].branch] # None
              /\ policy[grant[c].branch] >= grant[c].revision

\* Authorizations name issued capabilities, and there are finitely many.
AuthorizationsOK ==
    /\ IsFiniteSet(authorizations)
    /\ \A a \in authorizations : status[a.capability] # "absent"

Dead == {"revoked", "expired", "consumed"}

\* Why a decision was taken, in terms of what is still so.
Justified(d) ==
    /\ d.reason \in Dead => status[d.handle] \in Dead
    /\ d.reason = "policy_stale" =>
          /\ status[d.handle] # "absent"
          /\ policy[grant[d.handle].branch] > grant[d.handle].revision
    /\ d.reason \in AncestorDenials => \E a \in Ancestors(d.handle) : status[a] \in Dead
    /\ d.reason \in {"allowed", "request_already_authorized"} =>
          \E a \in authorizations : a.capability = d.handle /\ a.request = d.request
    /\ d.reason = "budget_exceeded" =>
          \E a \in Ancestors(d.handle) : budget[a] # None /\ budget[a] < d.budget

DecisionsOK == \A i \in DOMAIN decisions : Justified(decisions[i])

Core == TypeOK /\ RowsOK /\ ConsumedIffExhausted /\ AuthorizationsOK

\* The books: what was charged to whom, and how far delegation reaches.
Books ==
    /\ UsesConserved
    /\ \A c \in Issued : IsFiniteSet(UnitsChargedTo(c))
    /\ BudgetConserved
    /\ AncestryIsDelegation
    /\ DelegationNarrows
    /\ AuthorizedWithinLifetime

\* The audit log.
Audit == AllowsAreRecorded /\ DecisionsOK /\ DenialIsFinal

-----------------------------------------------------------------------------
(* What the checks of evaluate_authority establish. *)

\* The CHOOSE of ancestor_denial has a witness: some depth is the smallest.
LEMMA NearestIsInactive ==
  ASSUME TypeOK, NEW c \in Capability, NEW now, InactiveAncestors(c, now) # {}
  PROVE  NearestInactiveAncestor(c, now) \in InactiveAncestors(c, now)
<1> DEFINE I == InactiveAncestors(c, now)
           D == {ancestry[c][a] : a \in I}
           R == OpToRel(<, Nat)
<1>1. I \subseteq Capability /\ \A a \in I : ancestry[c][a] \in Nat
  BY DEF InactiveAncestors, Ancestors, TypeOK, Optional
<1>2. D \subseteq Nat /\ D # {}
  BY <1>1
<1>3. PICK n \in D : \A m \in D : ~(<<m, n>> \in R)
  <2>1. IsWellFoundedOn(R, Nat)
    BY NatLessThanWellFounded
  <2> HIDE DEF R, D
  <2> QED
    BY <1>2, <2>1, WFMin
<1>4. \A m \in D : n <= m
  <2>1. R = {ss \in Nat \X Nat : ss[1] < ss[2]}
    BY Zenon DEF OpToRel
  <2> HIDE DEF R, D
  <2>2. \A x, y \in Nat : x < y => <<x, y>> \in R
    BY <2>1
  <2>3. n \in Nat /\ \A m \in D : m \in Nat /\ ~(m < n)
    BY <1>2, <1>3, <2>2
  <2> QED
    BY <2>3
<1>5. \E a \in I : \A b \in I : ancestry[c][a] <= ancestry[c][b]
  BY <1>4
<1> QED
  BY <1>5 DEF NearestInactiveAncestor

\* An allow found every capability it charges alive, solvent and in time.
LEMMA AllowedMeans ==
  ASSUME Core, NEW c \in Capability, NEW use \in Use, NEW now \in Time,
         Verdict(c, use, now) = "allowed"
  PROVE  /\ status[c] # "absent"
         /\ c \in Ancestors(c)
         /\ policy[grant[c].branch] = grant[c].revision
         /\ ~AlreadyAuthorized(c, use)
         /\ \A a \in Ancestors(c) :
               /\ status[a] = "active" /\ ~Exhausted(a) /\ ~Expired(a, now)
               /\ budget[a] # None => budget[a] >= use.budget
<1>1. /\ status[c] # "absent"
      /\ CurrentStatus(c, now) = "active"
      /\ PolicyDenial(c, use) = "allowed"
      /\ InactiveAncestors(c, now) = {}
      /\ ~AlreadyAuthorized(c, use)
      /\ ~BudgetExceeded(c, use)
  <2>1. status[c] # "absent" /\ BindingDenial(c, use) = "allowed"
    BY DEF Verdict, BindingDenial
  <2>2. CurrentStatus(c, now) = "active"
    <3>1. CurrentStatus(c, now) \in Status
      BY DEF Core, TypeOK, CurrentStatus, Status
    <3> QED
      BY <2>1, <3>1 DEF Verdict, Status
  <2>3. PolicyDenial(c, use) = "allowed"
    BY <2>1, <2>2 DEF Verdict
  <2>4. InactiveAncestors(c, now) = {}
    <3> SUFFICES ASSUME InactiveAncestors(c, now) # {} PROVE FALSE
      OBVIOUS
    <3> DEFINE n == NearestInactiveAncestor(c, now)
               s == CurrentStatus(n, now)
    <3>1. n \in Capability /\ s # "active" /\ ancestry[c][n] # None
      BY NearestIsInactive DEF Core, InactiveAncestors, Ancestors
    <3>2. s \in {"revoked", "expired", "consumed"}
      <4>1. status[n] # "absent"
        BY <3>1 DEF Core, RowsOK
      <4>2. s \in Status
        BY <3>1 DEF Core, TypeOK, CurrentStatus, Status
      <4> QED
        BY <3>1, <4>1, <4>2 DEF CurrentStatus, Status
    <3>3. AncestorReason[s] \in {"ancestor_revoked", "ancestor_expired", "ancestor_consumed"}
      BY <3>2 DEF AncestorReason
    <3>4. Verdict(c, use, now) = AncestorReason[s]
      BY <2>1, <2>2, <2>3 DEF Verdict
    <3> QED
      BY <3>3, <3>4
  <2> QED
    BY <2>1, <2>2, <2>3, <2>4 DEF Verdict
<1>2. c \in Ancestors(c)
  BY <1>1 DEF Core, RowsOK, Ancestors, None
<1>3. policy[grant[c].branch] = grant[c].revision
  BY <1>1 DEF PolicyDenial
<1>4. ASSUME NEW a \in Ancestors(c)
      PROVE  /\ status[a] = "active" /\ ~Exhausted(a) /\ ~Expired(a, now)
             /\ budget[a] # None => budget[a] >= use.budget
  <2>1. CurrentStatus(a, now) = "active"
    BY <1>1 DEF InactiveAncestors
  <2>2. status[a] = "active" /\ ~Exhausted(a) /\ ~Expired(a, now)
    BY <2>1 DEF CurrentStatus
  <2>3. budget[a] # None => budget[a] >= use.budget
    <3>1. a \in Capability /\ budget[a] \in Nat \cup {None} /\ use.budget \in Nat
      BY LimitsArePositive DEF Ancestors, Core, TypeOK, Optional, Use
    <3> QED
      BY <1>1, <3>1 DEF BudgetExceeded, None
  <2> QED
    BY <2>2, <2>3
<1> QED
  BY <1>1, <1>2, <1>3, <1>4

\* What one charge does to the counters and the status of every capability.
LEMMA AllowDoes ==
  ASSUME Core, NEW c \in Capability, NEW use \in Use, NEW now \in Time, Allow(c, use, now)
  PROVE  /\ \A a \in Capability \ Ancestors(c) :
               uses'[a] = uses[a] /\ budget'[a] = budget[a] /\ status'[a] = status[a]
         /\ \A a \in Ancestors(c) :
               /\ uses[a] = None => uses'[a] = None
               /\ uses[a] # None => uses'[a] \in Nat /\ uses'[a] = uses[a] - 1
               /\ budget[a] = None => budget'[a] = None
               /\ budget[a] # None => budget'[a] \in Nat /\ budget'[a] = budget[a] - use.budget
               /\ status'[a] = IF uses'[a] = 0 \/ budget'[a] = 0 THEN "consumed" ELSE "active"
<1>1. ConsumeCounters(c, use) /\ Verdict(c, use, now) = "allowed"
  BY DEF Allow
<1>2. ASSUME NEW a \in Capability \ Ancestors(c)
      PROVE  uses'[a] = uses[a] /\ budget'[a] = budget[a] /\ status'[a] = status[a]
  BY <1>1, <1>2 DEF ConsumeCounters
<1>3. ASSUME NEW a \in Ancestors(c)
      PROVE  /\ uses[a] = None => uses'[a] = None
             /\ uses[a] # None => uses'[a] \in Nat /\ uses'[a] = uses[a] - 1
             /\ budget[a] = None => budget'[a] = None
             /\ budget[a] # None => budget'[a] \in Nat /\ budget'[a] = budget[a] - use.budget
             /\ status'[a] = IF uses'[a] = 0 \/ budget'[a] = 0 THEN "consumed" ELSE "active"
  <2>1. a \in Capability /\ uses[a] \in Nat \cup {None} /\ budget[a] \in Nat \cup {None}
        /\ use.budget \in Nat
    BY LimitsArePositive DEF Ancestors, Core, TypeOK, Optional, Use
  <2>2. uses[a] # 0 /\ (budget[a] # None => budget[a] >= use.budget)
    BY <1>1, AllowedMeans DEF Exhausted
  <2>3. uses'[a] = Less(uses[a], 1) /\ budget'[a] = Less(budget[a], use.budget)
        /\ status'[a] = IF uses'[a] = 0 \/ budget'[a] = 0 THEN "consumed" ELSE "active"
    BY <1>1, <2>1 DEF ConsumeCounters
  <2> QED
    BY <2>1, <2>2, <2>3 DEF Less, None
<1> QED
  BY <1>2, <1>3

\* A denial changes at most the status of a row that was already dead or expired.
LEMMA DenyDoes ==
  ASSUME Core, NEW c \in Capability, NEW use \in Use, NEW now \in Time, Deny(c, use, now)
  PROVE  /\ status' \in [Capability -> Status]
         /\ \A a \in Capability :
               status'[a] = status[a] \/ (status[a] = "active" /\ status'[a] = "expired")
<1> DEFINE n == NearestInactiveAncestor(c, now)
<1>1. ASSUME NEW a \in Capability
      PROVE  \/ CurrentStatus(a, now) = status[a]
             \/ status[a] = "active" /\ CurrentStatus(a, now) = "expired"
  BY DEF CurrentStatus, Core, ConsumedIffExhausted, Issued
<1>2. Verdict(c, use, now) \in AncestorDenials => n \in Capability
  <2> SUFFICES ASSUME Verdict(c, use, now) \in AncestorDenials PROVE n \in Capability
    OBVIOUS
  <2>1. CurrentStatus(c, now) \in Status
    BY DEF Core, TypeOK, CurrentStatus, Status
  <2>2. InactiveAncestors(c, now) # {}
    BY <2>1 DEF Verdict, BindingDenial, PolicyDenial, AncestorDenials, Status
  <2> QED
    BY <2>2, NearestIsInactive DEF Core, InactiveAncestors, Ancestors
<1>3. \/ status' = status
      \/ status' = [status EXCEPT ![c] = CurrentStatus(c, now)]
      \/ n \in Capability /\ status' = [status EXCEPT ![n] = CurrentStatus(n, now)]
  BY <1>2 DEF Deny, MarkDenied, AncestorDenials
<1> HIDE DEF n
<1> QED
  BY <1>1, <1>3 DEF Core, TypeOK, Status

\* An INSERT adds the row of c and touches no other.
LEMMA InsertDoes ==
  ASSUME TypeOK, NEW c \in Capability, NEW g \in Grant, InsertCapability(c, g),
         NEW anc \in [Capability -> Optional(Nat)], ancestry' = [ancestry EXCEPT ![c] = anc]
  PROVE  /\ status[c] = "absent"
         /\ \A d \in Capability \ {c} :
               /\ status'[d] = status[d] /\ grant'[d] = grant[d] /\ ancestry'[d] = ancestry[d]
               /\ uses'[d] = uses[d] /\ budget'[d] = budget[d]
         /\ status'[c] = "active" /\ grant'[c] = g /\ ancestry'[c] = anc
         /\ uses'[c] = g.max_uses /\ budget'[c] = g.budget_units
         /\ policy' = policy /\ authorizations' = authorizations /\ decisions' = decisions
BY DEF InsertCapability, TypeOK

\* Inserting a well-formed row whose ancestry names only issued rows keeps Core
\* (insert_capability).
LEMMA InsertCore ==
  ASSUME Core, NEW c \in Capability, NEW g \in Grant, InsertCapability(c, g),
         NEW anc \in [Capability -> Optional(Nat)], ancestry' = [ancestry EXCEPT ![c] = anc],
         g.branch \in Branch, g.revision \in Revision, g.issued_at \in Time,
         g.delegated_from # None => status[g.delegated_from] # "absent",
         policy[g.branch] = g.revision,
         anc[c] = 0,
         \A a \in Capability \ {c} : anc[a] # None => status[a] # "absent"
  PROVE  Core'
<1>1. TypeOK'
  <2>1. /\ g.max_uses \in Optional(Nat) /\ g.budget_units \in Optional(Nat)
    BY LimitsArePositive DEF Grant, Optional
  <2> QED
    BY <2>1 DEF Core, TypeOK, InsertCapability, Status
<1>2. /\ status[c] = "absent"
      /\ \A d \in Capability \ {c} :
            /\ status'[d] = status[d] /\ grant'[d] = grant[d] /\ ancestry'[d] = ancestry[d]
            /\ uses'[d] = uses[d] /\ budget'[d] = budget[d]
      /\ status'[c] = "active" /\ grant'[c] = g /\ ancestry'[c] = anc
      /\ uses'[c] = g.max_uses /\ budget'[c] = g.budget_units
      /\ policy' = policy /\ authorizations' = authorizations /\ decisions' = decisions
  BY InsertDoes DEF Core
<1>3. /\ g.max_uses # None => g.max_uses \in Nat \ {0}
      /\ g.budget_units # None => g.budget_units \in Nat \ {0}
      /\ g.revision \in Nat
  BY LimitsArePositive, RevisionIsNatural DEF Grant, Optional
<1>4. RowsOK'
  <2> SUFFICES ASSUME NEW d \in Capability PROVE RowsOK!(d)'
    BY DEF RowsOK
  <2>1. CASE d = c
    <3>1. g.delegated_from # None => g.delegated_from \in Capability /\ g.delegated_from # c
      BY <1>2 DEF Grant, Optional
    <3>2. policy[g.branch] # None
      BY <1>3 DEF None
    <3> QED
      BY <1>2, <1>3, <2>1, <3>1, <3>2
  <2>2. CASE d # c
    <3>1. status'[d] = status[d] /\ grant'[d] = grant[d] /\ ancestry'[d] = ancestry[d]
          /\ uses'[d] = uses[d] /\ budget'[d] = budget[d] /\ policy' = policy
      BY <1>2, <2>2
    <3>2. status[d] = "absent" => \A a \in Capability : ancestry'[a][d] = None
      BY <1>2, <2>2 DEF Core, RowsOK
    <3>3. status[d] # "absent" /\ grant[d].delegated_from # None
             => status'[grant[d].delegated_from] # "absent"
      <4>1. grant[d].delegated_from # None => grant[d].delegated_from \in Capability
        BY DEF Core, TypeOK, Grant, Optional
      <4> QED
        BY <1>2, <4>1 DEF Core, RowsOK
    <3> QED
      BY <3>1, <3>2, <3>3 DEF Core, RowsOK
  <2> QED
    BY <2>1, <2>2
<1>5. ConsumedIffExhausted'
  BY <1>2, <1>3 DEF Core, ConsumedIffExhausted, Issued, Exhausted, None
<1>6. AuthorizationsOK'
  BY <1>2 DEF Core, TypeOK, AuthorizationsOK, Authorization
<1> QED
  BY <1>1, <1>4, <1>5, <1>6 DEF Core

\* What Issue and Attenuate hand to the INSERT.
LEMMA IssueInserts ==
  ASSUME Core, NEW c \in Capability, NEW now \in Time, NEW g \in IssueRequest(None, now),
         Issue(c, g, now)
  PROVE  /\ g \in Grant /\ InsertCapability(c, g)
         /\ RootAncestry(c) \in [Capability -> Optional(Nat)]
         /\ ancestry' = [ancestry EXCEPT ![c] = RootAncestry(c)]
         /\ g.branch \in Branch /\ g.revision \in Revision /\ g.issued_at \in Time
         /\ g.delegated_from = None
         /\ policy[g.branch] = g.revision
         /\ RootAncestry(c)[c] = 0
         /\ \A a \in Capability \ {c} : RootAncestry(c)[a] = None
BY DEF Issue, IssueRequest, Grant, Optional, RootAncestry

\* What attenuate hands to the INSERT: the parent's ancestry, one deeper.
LEMMA AttenuateInserts ==
  ASSUME Core, NEW c \in Capability, NEW p \in Capability, NEW now \in Time,
         NEW g \in IssueRequest(p, now), Attenuate(c, p, g, now)
  PROVE  /\ g \in Grant /\ InsertCapability(c, g)
         /\ status[p] # "absent" /\ p # c
         /\ ChildAncestry(c, p) \in [Capability -> Optional(Nat)]
         /\ ancestry' = [ancestry EXCEPT ![c] = ChildAncestry(c, p)]
         /\ g.branch \in Branch /\ g.revision \in Revision /\ g.issued_at \in Time
         /\ g.delegated_from = p
         /\ policy[g.branch] = g.revision
         /\ ChildAncestry(c, p)[c] = 0
         /\ c \notin Ancestors(p)
         /\ \A a \in Capability \ {c} :
               ChildAncestry(c, p)[a] = IF a \in Ancestors(p) THEN ancestry[p][a] + 1 ELSE None
         /\ \A a \in Ancestors(p) : ancestry[p][a] \in Nat /\ status[a] # "absent"
<1>1. g \in Grant /\ g.branch \in Branch /\ g.revision \in Revision /\ g.issued_at \in Time
      /\ g.delegated_from = p
  BY DEF IssueRequest, Grant, Optional
<1>2. InsertCapability(c, g) /\ status[c] = "absent" /\ status[p] # "absent"
      /\ ancestry' = [ancestry EXCEPT ![c] = ChildAncestry(c, p)]
      /\ policy[g.branch] = g.revision
  BY DEF Attenuate, ValidAttenuation, InsertCapability
<1>3. \A a \in Ancestors(p) : a \in Capability /\ ancestry[p][a] \in Nat /\ status[a] # "absent"
  BY DEF Ancestors, Core, TypeOK, RowsOK, Optional
<1>4. ChildAncestry(c, p) \in [Capability -> Optional(Nat)]
  BY <1>3 DEF ChildAncestry, Optional
<1> QED
  BY <1>1, <1>2, <1>3, <1>4 DEF ChildAncestry

\* issue keeps Core.
LEMMA IssueCore ==
  ASSUME Core, NEW c \in Capability, NEW now \in Time, NEW g \in IssueRequest(None, now),
         Issue(c, g, now)
  PROVE  Core'
BY IssueInserts, InsertCore

\* attenuate keeps Core.
LEMMA AttenuateCore ==
  ASSUME Core, NEW c \in Capability, NEW p \in Capability, NEW now \in Time,
         NEW g \in IssueRequest(p, now), Attenuate(c, p, g, now)
  PROVE  Core'
<1>1. \A a \in Capability \ {c} : ChildAncestry(c, p)[a] # None => status[a] # "absent"
  BY AttenuateInserts
<1> QED
  BY <1>1, AttenuateInserts, InsertCore

\* set_policy_revision keeps Core: a revision that grows stays above every grant's.
LEMMA SetPolicyRevisionCore ==
  ASSUME Core, NEW b \in Branch, NEW r \in Revision, SetPolicyRevision(b, r)
  PROVE  Core'
<1> USE DEF SetPolicyRevision
<1>1. TypeOK'
  BY DEF Core, TypeOK, Optional
<1>2. \A x \in Branch : policy[x] # None => policy'[x] # None /\ policy'[x] >= policy[x]
  <2>1. policy \in [Branch -> Nat \cup {-1}] /\ r \in Nat
    BY RevisionIsNatural DEF Core, TypeOK, Optional, None
  <2> QED
    BY <2>1 DEF None
<1>3. RowsOK'
  <2> SUFFICES ASSUME NEW c \in Capability, status[c] # "absent"
               PROVE  /\ policy'[grant[c].branch] # None
                      /\ policy'[grant[c].branch] >= grant[c].revision
    BY DEF Core, RowsOK
  <2>1. /\ grant[c].branch \in Branch /\ policy[grant[c].branch] # None
        /\ policy[grant[c].branch] >= grant[c].revision /\ grant[c].revision \in Nat
    BY RevisionIsNatural DEF Core, RowsOK
  <2>2. policy[grant[c].branch] \in Nat /\ policy'[grant[c].branch] \in Int
    <3>1. policy \in [Branch -> Nat \cup {-1}] /\ policy' \in [Branch -> Nat \cup {-1}]
      BY <1>1, RevisionIsNatural DEF Core, TypeOK, Optional, None
    <3> QED
      BY <2>1, <3>1 DEF None
  <2> QED
    BY <1>2, <2>1, <2>2
<1>4. ConsumedIffExhausted' /\ AuthorizationsOK'
  BY DEF Core, ConsumedIffExhausted, Issued, Exhausted, AuthorizationsOK
<1> QED
  BY <1>1, <1>3, <1>4 DEF Core

\* Statuses alone change, none comes from or goes to "absent", and "consumed" is
\* kept to the rows whose counters say so.
LEMMA StatusCore ==
  ASSUME Core, status' \in [Capability -> Status],
         \A a \in Capability : \/ status'[a] = status[a]
                               \/ status[a] = "active" /\ status'[a] \in {"expired", "revoked"},
         UNCHANGED <<policy, grant, uses, budget, ancestry, authorizations>>,
         decisions' \in Seq(Decision)
  PROVE  Core'
<1>1. TypeOK'
  BY DEF Core, TypeOK
<1>2. RowsOK'
  <2> SUFFICES ASSUME NEW c \in Capability PROVE RowsOK!(c)'
    BY DEF RowsOK
  <2>1. grant[c].delegated_from # None => grant[c].delegated_from \in Capability
    BY DEF Core, TypeOK, Grant, Optional
  <2>2. RowsOK!(c)
    BY DEF Core, RowsOK
  <2> QED
    BY <2>1, <2>2
<1>3. ConsumedIffExhausted'
  BY DEF Core, ConsumedIffExhausted, Issued, Exhausted
<1>4. AuthorizationsOK'
  BY DEF Core, TypeOK, AuthorizationsOK, Authorization
<1> QED
  BY <1>1, <1>2, <1>3, <1>4 DEF Core

\* revoke keeps Core: an active row is not exhausted.
LEMMA RevokeCore ==
  ASSUME Core, NEW c \in Capability, NEW now \in Time, Revoke(c, now)
  PROVE  Core'
<1>1. status' \in [Capability -> Status]
  BY DEF Revoke, Core, TypeOK, Status
<1> QED
  BY <1>1, StatusCore DEF Revoke, Core, TypeOK

\* The outcomes of evaluate_authority, and what the ones that name a dead row saw.
LEMMA VerdictCases ==
  ASSUME Core, NEW c \in Capability, NEW use \in Use, NEW now \in Time
  PROVE  /\ Verdict(c, use, now) \in Reason
         /\ Verdict(c, use, now) \in Dead =>
               status[c] # "absent" /\ Verdict(c, use, now) = CurrentStatus(c, now)
         /\ Verdict(c, use, now) \in AncestorDenials =>
               LET n == NearestInactiveAncestor(c, now)
               IN  n \in Ancestors(c) /\ n \in Capability /\ CurrentStatus(n, now) \in Dead
         /\ Verdict(c, use, now) = "policy_stale" =>
               /\ status[c] # "absent"
               /\ policy[grant[c].branch] # grant[c].revision
         /\ Verdict(c, use, now) = "request_already_authorized" => AlreadyAuthorized(c, use)
         /\ Verdict(c, use, now) = "budget_exceeded" => BudgetExceeded(c, use)
<1> DEFINE v == Verdict(c, use, now)
           n == NearestInactiveAncestor(c, now)
           s == CurrentStatus(n, now)
<1>1. BindingDenial(c, use) \in {"branch_mismatch", "scope_mismatch", "allowed"}
  BY DEF BindingDenial
<1>2. PolicyDenial(c, use) \in {"policy_unavailable", "policy_stale", "policy_revision_mismatch", "allowed"}
  BY DEF PolicyDenial
<1>3. status[c] # "absent" => CurrentStatus(c, now) \in Dead \cup {"active"}
  BY DEF Core, TypeOK, CurrentStatus, Status, Dead
<1>4. InactiveAncestors(c, now) # {} =>
         n \in Ancestors(c) /\ n \in Capability /\ s \in Dead
  <2> SUFFICES ASSUME InactiveAncestors(c, now) # {}
               PROVE  n \in Ancestors(c) /\ n \in Capability /\ s \in Dead
    OBVIOUS
  <2>1. n \in Ancestors(c) /\ n \in Capability /\ s # "active" /\ ancestry[c][n] # None
    BY NearestIsInactive DEF Core, InactiveAncestors, Ancestors
  <2>2. status[n] # "absent"
    BY <2>1 DEF Core, RowsOK
  <2> QED
    BY <2>1, <2>2 DEF Core, TypeOK, CurrentStatus, Status, Dead
<1>5. s \in Dead => AncestorReason[s] \in AncestorDenials
  BY DEF AncestorReason, AncestorDenials, Dead
<1> HIDE DEF n, s
<1>6. \/ v = "unknown_handle" /\ status[c] = "absent"
      \/ v = BindingDenial(c, use) /\ v # "allowed"
      \/ v = CurrentStatus(c, now) /\ v # "active" /\ status[c] # "absent"
      \/ v = PolicyDenial(c, use) /\ v # "allowed" /\ status[c] # "absent"
      \/ v = AncestorReason[s] /\ InactiveAncestors(c, now) # {}
      \/ v = "request_already_authorized" /\ AlreadyAuthorized(c, use)
      \/ v = "budget_exceeded" /\ BudgetExceeded(c, use)
      \/ v = "allowed"
  BY DEF Verdict, s, n
<1>7. PolicyDenial(c, use) = "policy_stale" => policy[grant[c].branch] # grant[c].revision
  BY DEF PolicyDenial
<1> HIDE DEF v
<1>8. v \in Reason
  BY <1>1, <1>2, <1>3, <1>4, <1>5, <1>6 DEF Reason, Dead, AncestorDenials
<1>9. v \in Dead => status[c] # "absent" /\ v = CurrentStatus(c, now)
  BY <1>1, <1>2, <1>4, <1>5, <1>6 DEF Dead, AncestorDenials
<1>10. v \in AncestorDenials => n \in Ancestors(c) /\ n \in Capability /\ s \in Dead
  BY <1>1, <1>2, <1>3, <1>4, <1>6 DEF Dead, AncestorDenials
<1>11. v = "policy_stale" => status[c] # "absent" /\ policy[grant[c].branch] # grant[c].revision
  BY <1>1, <1>3, <1>4, <1>5, <1>6, <1>7 DEF Dead, AncestorDenials
<1>12. /\ v = "request_already_authorized" => AlreadyAuthorized(c, use)
       /\ v = "budget_exceeded" => BudgetExceeded(c, use)
  BY <1>1, <1>2, <1>3, <1>4, <1>5, <1>6 DEF Dead, AncestorDenials
<1> QED
  BY <1>8, <1>9, <1>10, <1>11, <1>12 DEF v, n, s

\* A denied authorize_and_consume keeps Core.
LEMMA DenyCore ==
  ASSUME Core, NEW c \in Capability, NEW use \in Use, NEW now \in Time, Deny(c, use, now)
  PROVE  Core'
<1>1. Verdict(c, use, now) \in Reason
  BY VerdictCases
<1>2. decisions' \in Seq(Decision)
  BY <1>1 DEF Deny, RecordDecision, Core, TypeOK, Decision, Use
<1> QED
  BY <1>2, DenyDoes, StatusCore DEF Deny

\* An allowed authorize_and_consume keeps Core: every charged counter was positive,
\* and is marked consumed exactly when the charge brought it to zero.
LEMMA AllowCore ==
  ASSUME Core, NEW c \in Capability, NEW use \in Use, NEW now \in Time, Allow(c, use, now)
  PROVE  Core'
<1> DEFINE t == [capability |-> c, request |-> use.request, budget |-> use.budget, at |-> now]
<1>1. /\ authorizations' = authorizations \cup {t}
      /\ policy' = policy /\ grant' = grant /\ ancestry' = ancestry
      /\ Verdict(c, use, now) = "allowed"
  BY DEF Allow
<1>2. t \in Authorization /\ t.capability = c
  BY DEF Authorization, Use
<1>3. /\ \A a \in Capability \ Ancestors(c) :
            uses'[a] = uses[a] /\ budget'[a] = budget[a] /\ status'[a] = status[a]
      /\ \A a \in Ancestors(c) :
            /\ uses[a] = None => uses'[a] = None
            /\ uses[a] # None => uses'[a] \in Nat /\ uses'[a] = uses[a] - 1
            /\ budget[a] = None => budget'[a] = None
            /\ budget[a] # None => budget'[a] \in Nat /\ budget'[a] = budget[a] - use.budget
            /\ status'[a] = IF uses'[a] = 0 \/ budget'[a] = 0 THEN "consumed" ELSE "active"
  BY AllowDoes
<1>4. /\ status[c] # "absent"
      /\ \A a \in Ancestors(c) : status[a] = "active"
  BY <1>1, AllowedMeans
<1> HIDE DEF t
<1>5. TypeOK'
  <2>1. decisions' \in Seq(Decision)
    BY DEF Allow, RecordDecision, Core, TypeOK, Decision, Use, Reason
  <2>2. \A a \in Capability : /\ uses'[a] \in Optional(Nat) /\ budget'[a] \in Optional(Nat)
                              /\ status'[a] \in Status
    BY <1>3 DEF Core, TypeOK, Optional, Status, None
  <2>3. /\ uses' \in [Capability -> Optional(Nat)] /\ budget' \in [Capability -> Optional(Nat)]
        /\ status' \in [Capability -> Status]
    BY <2>2 DEF Allow, ConsumeCounters
  <2> QED
    BY <1>1, <1>2, <2>1, <2>3 DEF Core, TypeOK
<1>6. \A a \in Capability : status'[a] = "absent" <=> status[a] = "absent"
  BY <1>3, <1>4
<1>7. use.budget \in Nat
  BY LimitsArePositive DEF Use
<1>8. RowsOK'
  <2> SUFFICES ASSUME NEW a \in Capability PROVE RowsOK!(a)'
    BY DEF RowsOK
  <2>1. grant[a].delegated_from # None => grant[a].delegated_from \in Capability
    BY DEF Core, TypeOK, Grant, Optional
  <2>2. RowsOK!(a)
    BY DEF Core, RowsOK
  <2>3. /\ uses[a] \in Nat \cup {-1} /\ budget[a] \in Nat \cup {-1}
        /\ grant[a].max_uses \in Nat \cup {-1} /\ grant[a].budget_units \in Nat \cup {-1}
    BY LimitsArePositive DEF Core, TypeOK, Optional, None, Grant
  <2>4. /\ uses'[a] = None <=> uses[a] = None
        /\ uses[a] # None => uses'[a] <= uses[a] /\ uses'[a] \in Nat
        /\ budget'[a] = None <=> budget[a] = None
        /\ budget[a] # None => budget'[a] <= budget[a] /\ budget'[a] \in Nat
    BY <1>3, <1>7, <2>3 DEF None
  <2>5. /\ status[a] # "absent" /\ uses'[a] # None => uses'[a] <= grant[a].max_uses
        /\ status[a] # "absent" /\ budget'[a] # None => budget'[a] <= grant[a].budget_units
    BY <2>2, <2>3, <2>4 DEF None
  <2> QED
    BY <1>1, <1>6, <2>1, <2>2, <2>4, <2>5
<1>9. ConsumedIffExhausted'
  <2> SUFFICES ASSUME NEW a \in Capability, status'[a] # "absent"
               PROVE  (status'[a] = "consumed") <=> (uses'[a] = 0 \/ budget'[a] = 0)
    BY DEF ConsumedIffExhausted, Issued, Exhausted
  <2>1. CASE a \in Ancestors(c)
    BY <1>3, <2>1
  <2>2. CASE a \notin Ancestors(c)
    BY <1>3, <2>2 DEF Core, ConsumedIffExhausted, Issued, Exhausted
  <2> QED
    BY <2>1, <2>2
<1>10. AuthorizationsOK'
  <2>1. IsFiniteSet(authorizations')
    BY <1>1, FS_AddElement DEF Core, AuthorizationsOK
  <2> QED
    BY <1>1, <1>2, <1>4, <1>6, <2>1 DEF Core, TypeOK, AuthorizationsOK, Authorization
<1> QED
  BY <1>5, <1>8, <1>9, <1>10 DEF Core

\* A step that changes nothing keeps Core.
LEMMA StutterCore == Core /\ UNCHANGED vars => Core'
BY DEF vars, Core, TypeOK, RowsOK, ConsumedIffExhausted, Issued, Exhausted, AuthorizationsOK

\* Core holds in an empty database.
LEMMA InitCore == Init => Core
<1> SUFFICES ASSUME Init PROVE Core
  OBVIOUS
<1>1. TypeOK
  BY DEF Init, TypeOK, Optional, Grant, NoGrant, Status
<1>2. RowsOK /\ ConsumedIffExhausted
  BY DEF Init, RowsOK, ConsumedIffExhausted, Issued
<1>3. AuthorizationsOK
  BY FS_EmptySet DEF Init, AuthorizationsOK
<1> QED
  BY <1>1, <1>2, <1>3 DEF Core

\* One case per operation of the service.
LEMMA NextCore == Core /\ [Next]_vars => Core'
<1> SUFFICES ASSUME Core, [Next]_vars PROVE Core'
  OBVIOUS
<1>1. ASSUME NEW b \in Branch, NEW r \in Revision, SetPolicyRevision(b, r) PROVE Core'
  BY <1>1, SetPolicyRevisionCore
<1>2. ASSUME NEW now \in Time, NEW c \in Capability, NEW g \in IssueRequest(None, now),
             Issue(c, g, now)
      PROVE  Core'
  BY <1>2, IssueCore
<1>3. ASSUME NEW now \in Time, NEW p \in Capability, NEW c \in Capability,
             NEW g \in IssueRequest(p, now), Attenuate(c, p, g, now)
      PROVE  Core'
  BY <1>3, AttenuateCore
<1>4. ASSUME NEW c \in Capability, NEW now \in Time, Revoke(c, now) \/ RevokeById(c, now)
      PROVE  Core'
  BY <1>4, RevokeCore DEF RevokeById
<1>5. ASSUME NEW c \in Capability, NEW use \in Use, NEW now \in Time,
             AuthorizeAndConsume(c, use, now)
      PROVE  Core'
  BY <1>5, AllowCore, DenyCore DEF AuthorizeAndConsume
<1>6. CASE UNCHANGED vars
  BY <1>6, StutterCore
<1> QED
  BY <1>1, <1>2, <1>3, <1>4, <1>5, <1>6 DEF Next, Administer

\* Types, row shapes, exhaustion and finiteness hold in every reachable state.
THEOREM CoreInvariance == Spec => []Core
BY InitCore, NextCore, PTL DEF Spec

\* Every row, counter and log entry keeps its type; in particular no counter
\* becomes negative, however charges on a delegation tree interleave.
THEOREM TypeCorrect == Spec => []TypeOK
<1>1. Core => TypeOK
  BY DEF Core
<1> QED
  BY <1>1, CoreInvariance, PTL

\* The status column tells exhaustion exactly.
THEOREM ConsumedMeansExhausted == Spec => []ConsumedIffExhausted
<1>1. Core => ConsumedIffExhausted
  BY DEF Core
<1> QED
  BY <1>1, CoreInvariance, PTL

-----------------------------------------------------------------------------
(* The books. *)

\* A step that charges nobody and issues nothing.
Quiet ==
    /\ UNCHANGED <<grant, uses, budget, ancestry, authorizations>>
    /\ \A a \in Capability : status'[a] = "absent" <=> status[a] = "absent"

\* Such a step leaves the books as they are.
LEMMA QuietBooks == Books /\ Quiet => Books'
<1> SUFFICES ASSUME Books, Quiet PROVE Books'
  OBVIOUS
<1>1. Issued' = Issued
  BY DEF Issued, Quiet
<1>2. \A c \in Capability : Ancestors(c)' = Ancestors(c)
  BY DEF Ancestors, Quiet
<1>3. \A c : ChargedTo(c)' = ChargedTo(c) /\ UnitsChargedTo(c)' = UnitsChargedTo(c)
  BY DEF ChargedTo, UnitsChargedTo, Ancestors, Quiet
<1>4. UsesConserved' /\ BudgetConserved' /\ \A c \in Issued' : IsFiniteSet(UnitsChargedTo(c)')
  BY <1>1, <1>3 DEF Books, UsesConserved, BudgetConserved, Quiet
<1>5. AncestryIsDelegation'
  BY <1>1 DEF Books, AncestryIsDelegation, Ancestors, Quiet
<1>6. DelegationNarrows'
  BY <1>1 DEF Books, DelegationNarrows, Ancestors, Quiet
<1>7. AuthorizedWithinLifetime'
  BY DEF Books, AuthorizedWithinLifetime, Ancestors, Quiet
<1> QED
  BY <1>1, <1>4, <1>5, <1>6, <1>7 DEF Books

\* Nobody has drawn on a capability that is being issued, and what was drawn on
\* the others does not change.
LEMMA InsertCharges ==
  ASSUME Core, NEW c \in Capability, NEW g \in Grant, InsertCapability(c, g),
         NEW anc \in [Capability -> Optional(Nat)], ancestry' = [ancestry EXCEPT ![c] = anc]
  PROVE  /\ Issued' = Issued \cup {c} /\ c \notin Issued
         /\ ChargedTo(c)' = {}
         /\ \A d \in Issued : ChargedTo(d)' = ChargedTo(d)
         /\ \A d \in Issued : Ancestors(d)' = Ancestors(d) /\ c \notin Ancestors(d)
         /\ \A a \in authorizations : a.capability \in Issued
<1>1. /\ status[c] = "absent"
      /\ \A d \in Capability \ {c} : status'[d] = status[d] /\ ancestry'[d] = ancestry[d]
      /\ status'[c] = "active" /\ authorizations' = authorizations
  BY InsertDoes DEF Core
<1>2. Issued' = Issued \cup {c} /\ c \notin Issued
  BY <1>1 DEF Issued
<1>3. \A a \in authorizations : a.capability \in Issued
  BY DEF Core, AuthorizationsOK, TypeOK, Authorization, Issued
<1>4. \A d \in Issued : Ancestors(d)' = Ancestors(d) /\ c \notin Ancestors(d)
  BY <1>1 DEF Issued, Ancestors, Core, RowsOK
<1>5. ChargedTo(c)' = {} /\ \A d \in Issued : ChargedTo(d)' = ChargedTo(d)
  BY <1>1, <1>3, <1>4 DEF ChargedTo
<1> QED
  BY <1>2, <1>3, <1>4, <1>5

\* A fresh row enters the books with nothing charged to it and within the limits
\* of everyone in its ancestry.
LEMMA InsertBooks ==
  ASSUME Core, Books, NEW c \in Capability, NEW g \in Grant, InsertCapability(c, g),
         NEW anc \in [Capability -> Optional(Nat)], ancestry' = [ancestry EXCEPT ![c] = anc],
         anc[c] = 0,
         g.delegated_from = None => \A a \in Capability \ {c} : anc[a] = None,
         g.delegated_from # None =>
            /\ g.delegated_from \in Issued
            /\ \A a \in Capability \ {c} :
                  anc[a] = IF a \in Ancestors(g.delegated_from)
                           THEN ancestry[g.delegated_from][a] + 1 ELSE None
            /\ \A a \in Ancestors(g.delegated_from) :
                  /\ ancestry[g.delegated_from][a] \in Nat
                  /\ g.branch = grant[a].branch /\ g.scope = grant[a].scope
                  /\ g.revision = grant[a].revision
                  /\ Within(g.max_uses, grant[a].max_uses)
                  /\ Within(g.budget_units, grant[a].budget_units)
                  /\ Within(g.expires_at, grant[a].expires_at)
  PROVE  Books'
<1> DEFINE p == g.delegated_from
<1>1. /\ status[c] = "absent"
      /\ \A d \in Capability \ {c} :
            /\ status'[d] = status[d] /\ grant'[d] = grant[d] /\ ancestry'[d] = ancestry[d]
            /\ uses'[d] = uses[d] /\ budget'[d] = budget[d]
      /\ status'[c] = "active" /\ grant'[c] = g /\ ancestry'[c] = anc
      /\ uses'[c] = g.max_uses /\ budget'[c] = g.budget_units
      /\ policy' = policy /\ authorizations' = authorizations /\ decisions' = decisions
  BY InsertDoes DEF Core
<1>2. /\ Issued' = Issued \cup {c} /\ c \notin Issued
      /\ ChargedTo(c)' = {}
      /\ \A d \in Issued : ChargedTo(d)' = ChargedTo(d)
      /\ \A d \in Issued : Ancestors(d)' = Ancestors(d) /\ c \notin Ancestors(d)
      /\ \A a \in authorizations : a.capability \in Issued
  BY InsertCharges
<1>3. \A d \in Issued : /\ d \in Capability /\ grant'[d] = grant[d] /\ ancestry'[d] = ancestry[d]
                        /\ uses'[d] = uses[d] /\ budget'[d] = budget[d]
                        /\ \A a \in Ancestors(d) : a \in Capability /\ grant'[a] = grant[a]
  BY <1>1, <1>2 DEF Issued, Ancestors
<1>4. /\ g.max_uses # None => g.max_uses \in Nat
      /\ g.budget_units # None => g.budget_units \in Nat
  BY LimitsArePositive DEF Grant, Optional
<1>5. UsesConserved'
  <2> SUFFICES ASSUME NEW d \in Issued' PROVE UsesConserved!(d)'
    BY DEF UsesConserved
  <2>1. CASE d = c
    <3>1. Cardinality(ChargedTo(c)') = 0
      BY <1>2, FS_EmptySet
    <3> QED
      BY <1>1, <1>4, <2>1, <3>1
  <2>2. CASE d # c
    <3>1. d \in Issued /\ UsesConserved!(d)
      BY <1>2, <2>2 DEF Books, UsesConserved
    <3> QED
      BY <1>2, <1>3, <3>1
  <2> QED
    BY <2>1, <2>2
<1>6. UnitsChargedTo(c)' = {} /\ \A d \in Issued : UnitsChargedTo(d)' = UnitsChargedTo(d)
  BY <1>1, <1>2 DEF UnitsChargedTo
<1>7. BudgetConserved' /\ \A d \in Issued' : IsFiniteSet(UnitsChargedTo(d)')
  <2> SUFFICES ASSUME NEW d \in Issued'
               PROVE  BudgetConserved!(d)' /\ IsFiniteSet(UnitsChargedTo(d)')
    BY DEF BudgetConserved
  <2>1. CASE d = c
    <3>1. Cardinality(UnitsChargedTo(c)') = 0 /\ IsFiniteSet(UnitsChargedTo(c)')
      BY <1>6, FS_EmptySet
    <3> QED
      BY <1>1, <1>4, <2>1, <3>1
  <2>2. CASE d # c
    <3>1. d \in Issued /\ BudgetConserved!(d) /\ IsFiniteSet(UnitsChargedTo(d))
      BY <1>2, <2>2 DEF Books, BudgetConserved
    <3> QED
      BY <1>3, <1>6, <3>1
  <2> QED
    BY <2>1, <2>2
<1>8. Ancestors(c)' = {c} \cup (IF p = None THEN {} ELSE Ancestors(p))
  <2>1. Ancestors(c)' = {a \in Capability : anc[a] # None}
    BY <1>1 DEF Ancestors
  <2>2. CASE p = None
    BY <2>1, <2>2 DEF None
  <2>3. CASE p # None
    <3>1. \A a \in Ancestors(p) : a \in Capability /\ anc[a] # None
      BY <1>2, <2>3 DEF Ancestors, None
    <3> QED
      BY <2>1, <2>3, <3>1 DEF None
  <2> QED
    BY <2>2, <2>3
<1>9. AncestryIsDelegation'
  <2> SUFFICES ASSUME NEW d \in Issued' PROVE AncestryIsDelegation!(d)'
    BY DEF AncestryIsDelegation
  <2>1. CASE d = c
    BY <1>1, <1>2, <1>3, <1>8, <2>1
  <2>2. CASE d # c
    <3>1. d \in Issued /\ AncestryIsDelegation!(d)
      BY <1>2, <2>2 DEF Books, AncestryIsDelegation
    <3>2. grant[d].delegated_from # None => grant[d].delegated_from \in Issued
      BY <3>1 DEF Core, RowsOK, TypeOK, Grant, Optional, Issued
    <3> QED
      BY <1>2, <1>3, <3>1, <3>2
  <2> QED
    BY <2>1, <2>2
<1>10. DelegationNarrows'
  <2> SUFFICES ASSUME NEW d \in Issued', NEW a \in Ancestors(d)'
               PROVE  DelegationNarrows!(d)!(a)'
    BY DEF DelegationNarrows
  <2>1. CASE d # c
    BY <1>2, <1>3, <2>1 DEF Books, DelegationNarrows, Within
  <2>2. CASE d = c /\ a # c
    <3>1. p # None /\ a \in Ancestors(p) /\ grant'[a] = grant[a]
      BY <1>3, <1>8, <2>2
    <3> QED
      BY <1>1, <2>2, <3>1 DEF Within
  <2>3. CASE d = c /\ a = c
    <3>1. g.expires_at # None => g.expires_at \in Nat
      BY ClockIsNatural DEF Grant, Optional
    <3> QED
      BY <1>1, <1>4, <2>3, <3>1 DEF Within
  <2> QED
    BY <2>1, <2>2, <2>3
<1>11. AuthorizedWithinLifetime'
  BY <1>1, <1>2, <1>3 DEF Books, AuthorizedWithinLifetime
<1> QED
  BY <1>2, <1>5, <1>7, <1>9, <1>10, <1>11 DEF Books

\* issue keeps the books.
LEMMA IssueBooks ==
  ASSUME Core, Books, NEW c \in Capability, NEW now \in Time, NEW g \in IssueRequest(None, now),
         Issue(c, g, now)
  PROVE  Books'
BY IssueInserts, InsertBooks

\* A child's request is within what every ancestor of its parent was issued with,
\* because counters only fall and the parent's own grant was within it.
LEMMA AttenuateBooks ==
  ASSUME Core, Books, NEW c \in Capability, NEW p \in Capability, NEW now \in Time,
         NEW g \in IssueRequest(p, now), Attenuate(c, p, g, now)
  PROVE  Books'
<1>1. p \in Issued /\ p # None /\ g \in Grant
  BY AttenuateInserts, CapabilityNotNone DEF Issued
<1>2. /\ g.branch = grant[p].branch /\ g.scope = grant[p].scope /\ g.revision = grant[p].revision
      /\ Narrower(g.max_uses, uses[p]) /\ Narrower(g.budget_units, budget[p])
      /\ Narrower(g.expires_at, grant[p].expires_at)
  BY DEF Attenuate, ValidAttenuation
<1>3. \A d \in Capability : /\ grant[d].max_uses \in Nat \cup {None}
                            /\ grant[d].budget_units \in Nat \cup {None}
                            /\ grant[d].expires_at \in Nat \cup {None}
                            /\ uses[d] \in Nat \cup {None} /\ budget[d] \in Nat \cup {None}
  BY LimitsArePositive, ClockIsNatural DEF Core, TypeOK, Grant, Optional
<1>4. /\ g.max_uses \in Nat \cup {None} /\ g.budget_units \in Nat \cup {None}
      /\ g.expires_at \in Nat \cup {None}
  BY <1>1, LimitsArePositive, ClockIsNatural DEF Grant, Optional
<1>5. /\ Within(g.max_uses, grant[p].max_uses)
      /\ Within(g.budget_units, grant[p].budget_units)
      /\ Within(g.expires_at, grant[p].expires_at)
  <2>1. /\ uses[p] = None <=> grant[p].max_uses = None
        /\ uses[p] # None => uses[p] <= grant[p].max_uses
        /\ budget[p] = None <=> grant[p].budget_units = None
        /\ budget[p] # None => budget[p] <= grant[p].budget_units
    BY <1>1 DEF Core, RowsOK, Issued
  <2> QED
    BY <1>2, <1>3, <1>4, <2>1 DEF Within, Narrower, None
<1>6. ASSUME NEW a \in Ancestors(p)
      PROVE  /\ g.branch = grant[a].branch /\ g.scope = grant[a].scope
             /\ g.revision = grant[a].revision
             /\ Within(g.max_uses, grant[a].max_uses)
             /\ Within(g.budget_units, grant[a].budget_units)
             /\ Within(g.expires_at, grant[a].expires_at)
  <2>1. a \in Capability
    BY DEF Ancestors
  <2>2. /\ grant[p].branch = grant[a].branch /\ grant[p].scope = grant[a].scope
        /\ grant[p].revision = grant[a].revision
        /\ Within(grant[p].max_uses, grant[a].max_uses)
        /\ Within(grant[p].budget_units, grant[a].budget_units)
        /\ Within(grant[p].expires_at, grant[a].expires_at)
    BY <1>1 DEF Books, DelegationNarrows
  <2>3. Within(g.max_uses, grant[a].max_uses)
    BY <1>3, <1>4, <1>5, <2>1, <2>2 DEF Within, None
  <2>4. Within(g.budget_units, grant[a].budget_units)
    BY <1>3, <1>4, <1>5, <2>1, <2>2 DEF Within, None
  <2>5. Within(g.expires_at, grant[a].expires_at)
    BY <1>3, <1>4, <1>5, <2>1, <2>2 DEF Within, None
  <2> QED
    BY <1>2, <2>2, <2>3, <2>4, <2>5
<1> QED
  BY <1>1, <1>6, AttenuateInserts, InsertBooks

\* An allow adds one authorization, new to each of the sets it is charged to.
LEMMA AllowCharges ==
  ASSUME Core, NEW c \in Capability, NEW use \in Use, NEW now \in Time, Allow(c, use, now),
         NEW d \in Capability
  PROVE  LET t == [capability |-> c, request |-> use.request, budget |-> use.budget, at |-> now]
         IN  /\ t \notin authorizations
             /\ ChargedTo(d)' = IF d \in Ancestors(c) THEN ChargedTo(d) \cup {t} ELSE ChargedTo(d)
             /\ UnitsChargedTo(d)' = IF d \in Ancestors(c)
                                     THEN UnitsChargedTo(d) \cup ({t} \X (1..use.budget))
                                     ELSE UnitsChargedTo(d)
<1> DEFINE t == [capability |-> c, request |-> use.request, budget |-> use.budget, at |-> now]
<1>1. authorizations' = authorizations \cup {t} /\ ancestry' = ancestry
      /\ Verdict(c, use, now) = "allowed"
  BY DEF Allow
<1>2. t.capability = c /\ t.request = use.request /\ t.budget = use.budget
  OBVIOUS
<1> HIDE DEF t
<1>3. t \notin authorizations
  BY <1>1, <1>2, AllowedMeans DEF AlreadyAuthorized
<1>4. ChargedTo(d)' = IF d \in Ancestors(c) THEN ChargedTo(d) \cup {t} ELSE ChargedTo(d)
  BY <1>1, <1>2 DEF ChargedTo, Ancestors
<1>5. UnitsChargedTo(d)' = IF d \in Ancestors(c)
                           THEN UnitsChargedTo(d) \cup ({t} \X (1..use.budget))
                           ELSE UnitsChargedTo(d)
  BY <1>2, <1>4 DEF UnitsChargedTo
<1> QED
  BY <1>3, <1>4, <1>5 DEF t

\* A charge of n units is n units.
LEMMA UnitsOfCharge ==
  ASSUME NEW n \in Nat
  PROVE  IsFiniteSet(1..n) /\ Cardinality(1..n) = n
<1>1. /\ IsFiniteSet(1..n)
      /\ Cardinality(1..n) = IF 1 > n THEN 0 ELSE n - 1 + 1
  <2>1. 1 \in Int /\ n \in Int
    OBVIOUS
  <2> QED
    BY ONLY <2>1, FS_Interval
<1>2. (IF 1 > n THEN 0 ELSE n - 1 + 1) = n
  OBVIOUS
<1> QED
  BY <1>1, <1>2

\* An allow charges each ancestor exactly one use and its budget units.
LEMMA AllowBooks ==
  ASSUME Core, Books, NEW c \in Capability, NEW use \in Use, NEW now \in Time, Allow(c, use, now)
  PROVE  Books'
<1> DEFINE t == [capability |-> c, request |-> use.request, budget |-> use.budget, at |-> now]
<1>1. /\ authorizations' = authorizations \cup {t} /\ t.capability = c /\ t.at = now
      /\ policy' = policy /\ grant' = grant /\ ancestry' = ancestry
      /\ Verdict(c, use, now) = "allowed"
      /\ \A a \in Ancestors(c) : now >= grant[a].issued_at
  BY DEF Allow
<1>2. /\ \A a \in Capability \ Ancestors(c) :
            uses'[a] = uses[a] /\ budget'[a] = budget[a] /\ status'[a] = status[a]
      /\ \A a \in Ancestors(c) :
            /\ uses[a] = None => uses'[a] = None
            /\ uses[a] # None => uses'[a] \in Nat /\ uses'[a] = uses[a] - 1
            /\ budget[a] = None => budget'[a] = None
            /\ budget[a] # None => budget'[a] \in Nat /\ budget'[a] = budget[a] - use.budget
            /\ status'[a] = IF uses'[a] = 0 \/ budget'[a] = 0 THEN "consumed" ELSE "active"
  BY AllowDoes
<1>3. \A a \in Ancestors(c) : status[a] = "active" /\ ~Expired(a, now)
  BY <1>1, AllowedMeans
<1>4. \A d \in Capability :
         /\ t \notin authorizations
         /\ ChargedTo(d)' = IF d \in Ancestors(c) THEN ChargedTo(d) \cup {t} ELSE ChargedTo(d)
         /\ UnitsChargedTo(d)' = IF d \in Ancestors(c)
                                 THEN UnitsChargedTo(d) \cup ({t} \X (1..use.budget))
                                 ELSE UnitsChargedTo(d)
  BY AllowCharges
<1> HIDE DEF t
<1>5. Issued' = Issued /\ \A d : Ancestors(d)' = Ancestors(d)
  BY <1>1, <1>2, <1>3 DEF Issued, Ancestors
<1>6. \A d \in Issued : /\ d \in Capability
                        /\ uses[d] \in Nat \cup {-1} /\ budget[d] \in Nat \cup {-1}
                        /\ uses[d] = None <=> grant[d].max_uses = None
                        /\ budget[d] = None <=> grant[d].budget_units = None
  BY DEF Issued, Core, TypeOK, RowsOK, Optional, None
<1>7. UsesConserved'
  <2> SUFFICES ASSUME NEW d \in Issued, grant[d].max_uses # None
               PROVE  uses'[d] + Cardinality(ChargedTo(d)') = grant[d].max_uses
    BY <1>1, <1>5 DEF UsesConserved
  <2>1. uses[d] + Cardinality(ChargedTo(d)) = grant[d].max_uses
    BY DEF Books, UsesConserved
  <2>2. CASE d \in Ancestors(c)
    <3>1. IsFiniteSet(ChargedTo(d)) /\ t \notin ChargedTo(d)
      BY <1>4, <1>6, FS_Subset DEF ChargedTo, Core, AuthorizationsOK
    <3>2. Cardinality(ChargedTo(d)') = Cardinality(ChargedTo(d)) + 1 /\ Cardinality(ChargedTo(d)) \in Nat
      BY <1>4, <1>6, <2>2, <3>1, FS_AddElement, FS_CardinalityType
    <3> QED
      BY <1>2, <1>6, <2>1, <2>2, <3>2 DEF None
  <2>3. CASE d \notin Ancestors(c)
    BY <1>2, <1>4, <1>6, <2>1, <2>3
  <2> QED
    BY <2>2, <2>3
<1>8. ASSUME NEW d \in Issued
      PROVE  /\ IsFiniteSet(UnitsChargedTo(d)')
             /\ d \in Ancestors(c) =>
                   /\ Cardinality(UnitsChargedTo(d)') = Cardinality(UnitsChargedTo(d)) + use.budget
                   /\ Cardinality(UnitsChargedTo(d)) \in Nat
  <2>1. IsFiniteSet(UnitsChargedTo(d))
    BY DEF Books
  <2>2. CASE d \in Ancestors(c)
    <3> DEFINE U == {t} \X (1..use.budget)
    <3>1. use.budget \in Nat
      BY LimitsArePositive DEF Use
    <3>2. IsFiniteSet(1..use.budget) /\ Cardinality(1..use.budget) = use.budget
      BY <3>1, UnitsOfCharge
    <3>3. IsFiniteSet({t}) /\ Cardinality({t}) = 1
      BY FS_Singleton
    <3>4. IsFiniteSet(U) /\ Cardinality(U) = use.budget
      <4>1. /\ IsFiniteSet(U)
            /\ Cardinality(U) = Cardinality({t}) * Cardinality(1..use.budget)
        <5>1. IsFiniteSet({t}) /\ IsFiniteSet(1..use.budget)
          BY <3>2, <3>3
        <5> QED
          BY ONLY <5>1, FS_Product
      <4> HIDE DEF U
      <4>2. Cardinality(U) = 1 * use.budget
        BY <3>2, <3>3, <4>1
      <4> QED
        BY <3>1, <4>1, <4>2
    <3>5. UnitsChargedTo(d) \cap U = {}
      BY <1>4, <1>6 DEF UnitsChargedTo, ChargedTo
    <3>6. UnitsChargedTo(d)' = UnitsChargedTo(d) \cup U
      BY <1>4, <1>6, <2>2
    <3> HIDE DEF U
    <3>7. Cardinality(UnitsChargedTo(d)) \in Nat
      BY <2>1, FS_CardinalityType
    <3>8. IsFiniteSet(UnitsChargedTo(d) \cup U)
          /\ Cardinality(UnitsChargedTo(d) \cup U)
             = Cardinality(UnitsChargedTo(d)) + Cardinality(U) - Cardinality(UnitsChargedTo(d) \cap U)
      BY <2>1, <3>4, FS_Union
    <3>9. Cardinality(UnitsChargedTo(d) \cap U) = 0
      BY <3>5, FS_EmptySet
    <3> QED
      BY <3>1, <3>4, <3>6, <3>7, <3>8, <3>9
  <2>3. CASE d \notin Ancestors(c)
    BY <1>4, <1>6, <2>1, <2>3
  <2> QED
    BY <2>2, <2>3
<1>9. BudgetConserved'
  <2> SUFFICES ASSUME NEW d \in Issued, grant[d].budget_units # None
               PROVE  budget'[d] + Cardinality(UnitsChargedTo(d)') = grant[d].budget_units
    BY <1>1, <1>5 DEF BudgetConserved
  <2>1. budget[d] + Cardinality(UnitsChargedTo(d)) = grant[d].budget_units
    BY DEF Books, BudgetConserved
  <2>2. use.budget \in Nat
    BY LimitsArePositive DEF Use
  <2>3. CASE d \in Ancestors(c)
    BY <1>2, <1>6, <1>8, <2>1, <2>2, <2>3 DEF None
  <2>4. CASE d \notin Ancestors(c)
    BY <1>2, <1>4, <1>6, <2>1, <2>4
  <2> QED
    BY <2>3, <2>4
<1>10. AncestryIsDelegation' /\ DelegationNarrows'
  BY <1>1, <1>5 DEF Books, AncestryIsDelegation, DelegationNarrows, Ancestors
<1>11. AuthorizedWithinLifetime'
  <2> SUFFICES ASSUME NEW a \in authorizations', NEW d \in Ancestors(a.capability)
               PROVE  /\ a.at >= grant[d].issued_at
                      /\ grant[d].expires_at # None => a.at < grant[d].expires_at
    BY <1>1, <1>5 DEF AuthorizedWithinLifetime
  <2>1. CASE a \in authorizations
    BY <2>1 DEF Books, AuthorizedWithinLifetime
  <2>2. CASE a = t
    <3>1. d \in Ancestors(c) /\ a.at = now /\ ~Expired(d, now) /\ now >= grant[d].issued_at
      BY <1>1, <1>3, <2>2
    <3>2. now \in Nat /\ grant[d].expires_at \in Nat \cup {None}
      BY ClockIsNatural DEF Ancestors, Core, TypeOK, Grant, Optional
    <3> QED
      BY <3>1, <3>2 DEF Expired
  <2> QED
    BY <1>1, <2>1, <2>2
<1> QED
  BY <1>5, <1>7, <1>8, <1>9, <1>10, <1>11 DEF Books

\* The books balance in an empty database.
LEMMA InitBooks == Init => Books
<1> SUFFICES ASSUME Init PROVE Books
  OBVIOUS
<1>1. Issued = {} /\ authorizations = {}
  BY DEF Init, Issued
<1> QED
  BY <1>1 DEF Books, UsesConserved, BudgetConserved, AncestryIsDelegation, DelegationNarrows,
              AuthorizedWithinLifetime

\* Every step of the service keeps the books.
LEMMA NextBooks == Core /\ Books /\ [Next]_vars => Books'
<1> SUFFICES ASSUME Core, Books, [Next]_vars PROVE Books'
  OBVIOUS
<1>1. ASSUME NEW b \in Branch, NEW r \in Revision, SetPolicyRevision(b, r) PROVE Books'
  BY <1>1, QuietBooks DEF Quiet, SetPolicyRevision
<1>2. ASSUME NEW now \in Time, NEW c \in Capability, NEW g \in IssueRequest(None, now),
             Issue(c, g, now)
      PROVE  Books'
  BY <1>2, IssueBooks
<1>3. ASSUME NEW now \in Time, NEW p \in Capability, NEW c \in Capability,
             NEW g \in IssueRequest(p, now), Attenuate(c, p, g, now)
      PROVE  Books'
  BY <1>3, AttenuateBooks
<1>4. ASSUME NEW c \in Capability, NEW now \in Time, Revoke(c, now) \/ RevokeById(c, now)
      PROVE  Books'
  BY <1>4, QuietBooks DEF Quiet, Revoke, RevokeById, Core, TypeOK
<1>5. ASSUME NEW c \in Capability, NEW use \in Use, NEW now \in Time, Allow(c, use, now)
      PROVE  Books'
  BY <1>5, AllowBooks
<1>6. ASSUME NEW c \in Capability, NEW use \in Use, NEW now \in Time, Deny(c, use, now)
      PROVE  Books'
  <2>1. \A a \in Capability : status'[a] = "absent" <=> status[a] = "absent"
    BY <1>6, DenyDoes
  <2> QED
    BY <1>6, <2>1, QuietBooks DEF Quiet, Deny
<1>7. CASE UNCHANGED vars
  BY <1>7, QuietBooks DEF Quiet, vars
<1> QED
  BY <1>1, <1>2, <1>3, <1>4, <1>5, <1>6, <1>7 DEF Next, Administer, AuthorizeAndConsume

-----------------------------------------------------------------------------
(* What the books promise, for every reachable state. *)

\* The books balance in every reachable state.
THEOREM BooksInvariance == Spec => []Books
BY InitBooks, NextBooks, CoreInvariance, PTL DEF Spec

\* Delegation cannot multiply uses, at any depth and in any order of charges.
THEOREM UsesAreConserved == Spec => []UsesConserved
<1>1. Books => UsesConserved
  BY DEF Books
<1> QED
  BY <1>1, BooksInvariance, PTL

\* Nor budget units.
THEOREM BudgetIsConserved == Spec => []BudgetConserved
<1>1. Books => BudgetConserved
  BY DEF Books
<1> QED
  BY <1>1, BooksInvariance, PTL

\* Delegation multiplies no allowance, for any tree and any order of charges.
THEOREM AllowanceIsConserved == Spec => []AllowanceConserved
<1>1. UsesConserved /\ BudgetConserved => AllowanceConserved
  BY DEF AllowanceConserved
<1> QED
  BY <1>1, UsesAreConserved, BudgetIsConserved, PTL

\* The ancestry table is the delegation chain.
THEOREM AncestryFollowsDelegation == Spec => []AncestryIsDelegation
<1>1. Books => AncestryIsDelegation
  BY DEF Books
<1> QED
  BY <1>1, BooksInvariance, PTL

\* A delegate never holds more than any of its delegators was issued.
THEOREM DelegationOnlyNarrows == Spec => []DelegationNarrows
<1>1. Books => DelegationNarrows
  BY DEF Books
<1> QED
  BY <1>1, BooksInvariance, PTL

\* Every authorization fell within the lifetime of all it depends on, whatever
\* the clock did between two calls.
THEOREM LifetimesAreRespected == Spec => []AuthorizedWithinLifetime
<1>1. Books => AuthorizedWithinLifetime
  BY DEF Books
<1> QED
  BY <1>1, BooksInvariance, PTL

-----------------------------------------------------------------------------
(* Authority only shrinks. *)

\* Appending to the log leaves the old log a prefix of the new one.
LEMMA AppendExtends ==
  ASSUME NEW S, NEW s \in Seq(S), NEW x \in S
  PROVE  \E n \in 0..Len(Append(s, x)) : s = SubSeq(Append(s, x), 1, n)
<1> DEFINE t == Append(s, x)
           n == Len(s)
<1>1. t \in Seq(S) /\ Len(t) = n + 1 /\ n \in Nat /\ \A i \in 1..n : t[i] = s[i]
  BY AppendProperties, LenProperties
<1>2. \A i \in 1..n : t[i] \in S
  BY <1>1, ElementOfSeq
<1> HIDE DEF t
<1>3. /\ SubSeq(t, 1, n) \in Seq(S) /\ Len(SubSeq(t, 1, n)) = n
      /\ \A i \in 1..n : SubSeq(t, 1, n)[i] = t[i]
  <2>1. /\ SubSeq(t, 1, n) \in Seq(S)
        /\ Len(SubSeq(t, 1, n)) = IF 1 <= n THEN n - 1 + 1 ELSE 0
        /\ \A i \in 1 .. n - 1 + 1 : SubSeq(t, 1, n)[i] = t[1 + i - 1]
    BY <1>1, <1>2, SubSeqProperties
  <2> QED
    BY <1>1, <2>1
<1>4. s = SubSeq(t, 1, n)
  BY <1>1, <1>3, SeqEqual
<1>5. n \in 0..Len(t)
  BY <1>1
<1> QED
  BY <1>4, <1>5 DEF t

\* The log as it stands is a prefix of itself.
LEMMA LogIsPrefix ==
  ASSUME NEW S, NEW s \in Seq(S)
  PROVE  \E n \in 0..Len(s) : s = SubSeq(s, 1, n)
<1>1. Len(s) \in 0..Len(s) /\ s = SubSeq(s, 1, Len(s))
  BY LenProperties, SubSeqFull
<1> QED
  BY <1>1

\* A step that issues or changes a row other than by charging it.
LEMMA UnchargedShrinks ==
  ASSUME Core,
         \A c \in Issued :
            /\ status'[c] # "absent" /\ (status[c] # "active" => status'[c] = status[c])
            /\ grant'[c] = grant[c] /\ ancestry'[c] = ancestry[c]
            /\ uses'[c] = uses[c] /\ budget'[c] = budget[c],
         \A b \in Branch : policy[b] # None => policy'[b] >= policy[b],
         authorizations' = authorizations,
         decisions' = decisions \/ \E d \in Decision : decisions' = Append(decisions, d)
  PROVE  Shrinks
<1>1. \E n \in 0..Len(decisions') : decisions = SubSeq(decisions', 1, n)
  <2>1. decisions \in Seq(Decision)
    BY DEF Core, TypeOK
  <2>2. CASE decisions' = decisions
    <3>1. \E n \in 0..Len(decisions) : decisions = SubSeq(decisions, 1, n)
      BY <2>1, LogIsPrefix
    <3> QED
      BY <2>2, <3>1
  <2>3. CASE \E d \in Decision : decisions' = Append(decisions, d)
    <3>1. PICK d \in Decision : decisions' = Append(decisions, d)
      BY <2>3
    <3>2. \E n \in 0..Len(Append(decisions, d)) : decisions = SubSeq(Append(decisions, d), 1, n)
      BY <2>1, AppendExtends
    <3> QED
      BY <3>1, <3>2
  <2> QED
    BY <2>2, <2>3
<1>2. \A c \in Issued : /\ uses[c] # None => uses'[c] \in 0..uses[c]
                        /\ budget[c] # None => budget'[c] \in 0..budget[c]
  <2>1. \A c \in Issued : uses[c] \in Nat \cup {-1} /\ budget[c] \in Nat \cup {-1}
    BY DEF Core, TypeOK, Optional, Issued, None
  <2> QED
    BY <2>1 DEF None
<1> QED
  BY <1>1, <1>2 DEF Shrinks

\* A policy that is not set moves nobody's revision back.
LEMMA PolicyStays ==
  ASSUME Core, policy' = policy
  PROVE  \A b \in Branch : policy[b] # None => policy'[b] >= policy[b]
<1>1. policy \in [Branch -> Nat \cup {-1}]
  BY RevisionIsNatural DEF Core, TypeOK, Optional, None
<1> QED
  BY <1>1

\* Every operation of the service only shrinks authority.
LEMMA NextShrinks == ASSUME Core, Next PROVE Shrinks
<1>1. ASSUME NEW b \in Branch, NEW r \in Revision, SetPolicyRevision(b, r) PROVE Shrinks
  <2>1. policy \in [Branch -> Nat \cup {-1}] /\ r \in Nat
    BY RevisionIsNatural DEF Core, TypeOK, Optional, None
  <2>2. \A x \in Branch : policy[x] # None => policy'[x] >= policy[x]
    BY <1>1, <2>1 DEF SetPolicyRevision, None
  <2> QED
    BY <1>1, <2>2, UnchargedShrinks DEF SetPolicyRevision, Issued
<1>2. ASSUME NEW c \in Capability, NEW g \in Grant, InsertCapability(c, g),
             NEW anc \in [Capability -> Optional(Nat)], ancestry' = [ancestry EXCEPT ![c] = anc]
      PROVE  Shrinks
  <2>1. /\ status[c] = "absent"
        /\ \A d \in Capability \ {c} :
              /\ status'[d] = status[d] /\ grant'[d] = grant[d] /\ ancestry'[d] = ancestry[d]
              /\ uses'[d] = uses[d] /\ budget'[d] = budget[d]
        /\ policy' = policy /\ authorizations' = authorizations /\ decisions' = decisions
    BY <1>2, InsertDoes DEF Core
  <2> QED
    BY <2>1, PolicyStays, UnchargedShrinks DEF Issued
<1>3. ASSUME NEW now \in Time, NEW c \in Capability, NEW g \in IssueRequest(None, now),
             Issue(c, g, now)
      PROVE  Shrinks
  BY <1>2, <1>3, IssueInserts
<1>4. ASSUME NEW now \in Time, NEW p \in Capability, NEW c \in Capability,
             NEW g \in IssueRequest(p, now), Attenuate(c, p, g, now)
      PROVE  Shrinks
  BY <1>2, <1>4, AttenuateInserts
<1>5. ASSUME NEW c \in Capability, NEW now \in Time, Revoke(c, now) \/ RevokeById(c, now)
      PROVE  Shrinks
  BY <1>5, PolicyStays, UnchargedShrinks DEF Revoke, RevokeById, Core, TypeOK, Issued
<1>6. ASSUME NEW c \in Capability, NEW use \in Use, NEW now \in Time, Deny(c, use, now)
      PROVE  Shrinks
  <2> DEFINE d == [handle |-> c, request |-> use.request, budget |-> use.budget,
                   reason |-> Verdict(c, use, now)]
  <2>1. d \in Decision
    BY VerdictCases DEF Decision, Use
  <2>2. decisions' = Append(decisions, d)
    BY <1>6 DEF Deny, RecordDecision
  <2> HIDE DEF d
  <2>3. /\ UNCHANGED <<grant, uses, budget, ancestry, authorizations>> /\ policy' = policy
        /\ \A a \in Capability :
              status'[a] = status[a] \/ (status[a] = "active" /\ status'[a] = "expired")
    BY <1>6, DenyDoes DEF Deny
  <2> QED
    BY <2>1, <2>2, <2>3, PolicyStays, UnchargedShrinks DEF Issued
<1>7. ASSUME NEW c \in Capability, NEW use \in Use, NEW now \in Time, Allow(c, use, now)
      PROVE  Shrinks
  <2> DEFINE d == [handle |-> c, request |-> use.request, budget |-> use.budget, reason |-> "allowed"]
  <2>1. d \in Decision
    BY DEF Decision, Use, Reason
  <2>2. decisions' = Append(decisions, d)
    BY <1>7 DEF Allow, RecordDecision
  <2> HIDE DEF d
  <2>3. \E n \in 0..Len(decisions') : decisions = SubSeq(decisions', 1, n)
    BY <2>1, <2>2, AppendExtends DEF Core, TypeOK
  <2>4. /\ grant' = grant /\ ancestry' = ancestry /\ policy' = policy
        /\ authorizations \subseteq authorizations' /\ Verdict(c, use, now) = "allowed"
    BY <1>7 DEF Allow
  <2>5. use.budget \in Nat
    BY LimitsArePositive DEF Use
  <2>6. ASSUME NEW a \in Issued
        PROVE  /\ status'[a] # "absent" /\ (status[a] # "active" => status'[a] = status[a])
               /\ uses[a] # None => uses'[a] \in 0..uses[a]
               /\ budget[a] # None => budget'[a] \in 0..budget[a]
    <3>1. a \in Capability /\ uses[a] \in Nat \cup {-1} /\ budget[a] \in Nat \cup {-1}
      BY DEF Core, TypeOK, Optional, Issued, None
    <3>2. CASE a \in Ancestors(c)
      <4>1. status[a] = "active"
        BY <2>4, <3>2, AllowedMeans
      <4> QED
        BY <1>7, <2>5, <3>1, <3>2, <4>1, AllowDoes DEF None
    <3>3. CASE a \notin Ancestors(c)
      BY <1>7, <3>1, <3>3, AllowDoes DEF Issued, None
    <3> QED
      BY <3>2, <3>3
  <2> QED
    BY <2>3, <2>4, <2>6, PolicyStays DEF Shrinks
<1> QED
  BY <1>1, <1>3, <1>4, <1>5, <1>6, <1>7 DEF Next, Administer, AuthorizeAndConsume

\* Authority only shrinks along every behaviour.
THEOREM ShrinkingAuthority == Spec => AuthorityOnlyShrinks
<1>1. Core /\ [Next]_vars => [Shrinks]_vars
  BY NextShrinks
<1> QED
  BY <1>1, CoreInvariance, PTL DEF Spec, AuthorityOnlyShrinks

-----------------------------------------------------------------------------
(* The audit log. *)

\* The reason of a decision stays valid as authority shrinks.
LEMMA JustifiedStays ==
  ASSUME Core, Core', Shrinks, NEW d \in Decision, Justified(d)
  PROVE  Justified(d)'
<1> DEFINE h == d.handle
<1>1. h \in Capability /\ d.budget \in Nat
  BY LimitsArePositive DEF Decision
<1>2. \A a \in Ancestors(h) : h \in Issued /\ a \in Issued /\ a \in Ancestors(h)'
  BY <1>1 DEF Ancestors, Issued, Core, RowsOK, Shrinks
<1>3. \A a \in Issued : status[a] \in Dead => status'[a] \in Dead
  BY DEF Shrinks, Dead
<1>4. d.reason \in Dead => status'[h] \in Dead
  BY <1>1, <1>3 DEF Justified, Issued, Dead
<1>5. d.reason = "policy_stale" =>
         status'[h] # "absent" /\ policy'[grant'[h].branch] > grant'[h].revision
  <2> SUFFICES ASSUME d.reason = "policy_stale"
               PROVE  status'[h] # "absent" /\ policy'[grant'[h].branch] > grant'[h].revision
    OBVIOUS
  <2>1. h \in Issued /\ policy[grant[h].branch] > grant[h].revision
    BY <1>1 DEF Justified, Issued
  <2>2. status'[h] # "absent" /\ grant'[h] = grant[h]
    BY <2>1 DEF Shrinks
  <2>3. grant[h].branch \in Branch /\ grant[h].revision \in Nat /\ policy[grant[h].branch] # None
    BY <1>1, <2>1, RevisionIsNatural DEF Core, RowsOK, Issued
  <2>4. policy'[grant[h].branch] >= policy[grant[h].branch]
    BY <2>3 DEF Shrinks
  <2>5. policy[grant[h].branch] \in Nat \cup {-1} /\ policy'[grant[h].branch] \in Nat \cup {-1}
    BY <2>3, RevisionIsNatural DEF Core, TypeOK, Optional, None
  <2> QED
    BY <2>1, <2>2, <2>3, <2>4, <2>5
<1>6. d.reason \in AncestorDenials => \E a \in Ancestors(h)' : status'[a] \in Dead
  BY <1>2, <1>3 DEF Justified
<1>7. d.reason \in {"allowed", "request_already_authorized"} =>
         \E a \in authorizations' : a.capability = h /\ a.request = d.request
  BY DEF Justified, Shrinks
<1>8. d.reason = "budget_exceeded" =>
         \E a \in Ancestors(h)' : budget'[a] # None /\ budget'[a] < d.budget
  <2> SUFFICES ASSUME d.reason = "budget_exceeded"
               PROVE  \E a \in Ancestors(h)' : budget'[a] # None /\ budget'[a] < d.budget
    OBVIOUS
  <2>1. PICK a \in Ancestors(h) : budget[a] # None /\ budget[a] < d.budget
    BY DEF Justified
  <2>2. a \in Issued /\ a \in Ancestors(h)' /\ budget[a] \in Nat
    BY <1>2, <2>1 DEF Core, TypeOK, Optional, Issued
  <2>3. budget'[a] \in 0..budget[a]
    BY <2>1, <2>2 DEF Shrinks
  <2> QED
    BY <1>1, <2>1, <2>2, <2>3 DEF None
<1> QED
  BY <1>4, <1>5, <1>6, <1>7, <1>8 DEF Justified

\* A denial records a reason that holds once it has marked the dead row.
LEMMA DenyJustified ==
  ASSUME Core, NEW c \in Capability, NEW use \in Use, NEW now \in Time, Deny(c, use, now),
         NEW d \in Decision, d.handle = c, d.request = use.request, d.budget = use.budget,
         d.reason = Verdict(c, use, now)
  PROVE  Justified(d)'
<1> DEFINE v == Verdict(c, use, now)
           n == NearestInactiveAncestor(c, now)
<1>1. /\ v # "allowed" /\ MarkDenied(c, now, v)
      /\ UNCHANGED <<policy, grant, uses, budget, ancestry, authorizations>>
  BY DEF Deny
<1>2. Ancestors(c)' = Ancestors(c)
  BY <1>1 DEF Ancestors
<1>3. v \in Dead => status'[c] \in Dead
  BY <1>1, VerdictCases DEF MarkDenied, Dead, Core, TypeOK
<1>4. v = "policy_stale" =>
         status'[c] # "absent" /\ policy'[grant'[c].branch] > grant'[c].revision
  <2> SUFFICES ASSUME v = "policy_stale"
               PROVE  status'[c] # "absent" /\ policy'[grant'[c].branch] > grant'[c].revision
    OBVIOUS
  <2>1. status[c] # "absent" /\ policy[grant[c].branch] # grant[c].revision
    BY VerdictCases
  <2>2. /\ grant[c].branch \in Branch /\ grant[c].revision \in Nat
        /\ policy[grant[c].branch] >= grant[c].revision
    BY <2>1, RevisionIsNatural DEF Core, RowsOK
  <2>3. policy[grant[c].branch] \in Nat \cup {-1}
    BY <2>2, RevisionIsNatural DEF Core, TypeOK, Optional, None
  <2>4. status'[c] = status[c] \/ status'[c] = "expired"
    BY DenyDoes
  <2> QED
    BY <1>1, <2>1, <2>2, <2>3, <2>4
<1>5. v \in AncestorDenials => \E a \in Ancestors(c)' : status'[a] \in Dead
  <2> SUFFICES ASSUME v \in AncestorDenials
               PROVE  \E a \in Ancestors(c)' : status'[a] \in Dead
    OBVIOUS
  <2>1. n \in Ancestors(c) /\ n \in Capability /\ CurrentStatus(n, now) \in Dead
    BY VerdictCases
  <2>2. status' = [status EXCEPT ![n] = CurrentStatus(n, now)]
    BY <1>1 DEF MarkDenied, AncestorDenials
  <2> HIDE DEF n
  <2> QED
    BY <1>2, <2>1, <2>2 DEF Core, TypeOK
<1>6. v = "request_already_authorized" =>
         \E a \in authorizations' : a.capability = c /\ a.request = use.request
  BY <1>1, VerdictCases DEF AlreadyAuthorized
<1>7. v = "budget_exceeded" =>
         \E a \in Ancestors(c)' : budget'[a] # None /\ budget'[a] < use.budget
  BY <1>1, <1>2, VerdictCases DEF BudgetExceeded
<1> HIDE DEF v
<1> QED
  BY <1>1, <1>3, <1>4, <1>5, <1>6, <1>7 DEF Justified, v

\* What the log holds after an entry is appended.
LEMMA LogGrows ==
  ASSUME Core, NEW d \in Decision, decisions' = Append(decisions, d)
  PROVE  /\ DOMAIN decisions = 1..Len(decisions) /\ Len(decisions) \in Nat
         /\ DOMAIN decisions' = 1..(Len(decisions) + 1)
         /\ \A i \in 1..Len(decisions) : decisions'[i] = decisions[i] /\ decisions[i] \in Decision
         /\ decisions'[Len(decisions) + 1] = d
<1>1. decisions \in Seq(Decision)
  BY DEF Core, TypeOK
<1> QED
  BY <1>1, AppendProperties, LenProperties, ElementOfSeq

\* An entry whose reason holds, and that is no allow unless no earlier denial
\* of the handle forbids it, keeps the log consistent.
LEMMA LogEntry ==
  ASSUME Core, Core', Shrinks, DecisionsOK, DenialIsFinal,
         NEW d \in Decision, decisions' = Append(decisions, d), Justified(d)',
         d.reason = "allowed" =>
            \A i \in DOMAIN decisions : decisions[i].handle = d.handle =>
               /\ decisions[i].reason \notin FinalDenials
               /\ decisions[i].reason \in {"allowed", "request_already_authorized"} =>
                     decisions[i].request # d.request
               /\ decisions[i].reason = "budget_exceeded" => d.budget < decisions[i].budget
  PROVE  DecisionsOK' /\ DenialIsFinal'
<1> DEFINE n == Len(decisions)
<1>1. /\ DOMAIN decisions = 1..n /\ n \in Nat /\ DOMAIN decisions' = 1..(n + 1)
      /\ \A i \in 1..n : decisions'[i] = decisions[i] /\ decisions[i] \in Decision
      /\ decisions'[n + 1] = d
  BY LogGrows
<1> HIDE DEF n
<1>2. DecisionsOK'
  <2> SUFFICES ASSUME NEW i \in 1..(n + 1) PROVE Justified(decisions[i])'
    BY <1>1 DEF DecisionsOK
  <2>1. CASE i \in 1..n
    <3>1. PICK e \in Decision : e = decisions[i]
      BY <1>1, <2>1
    <3>2. Justified(e)
      BY <1>1, <2>1, <3>1 DEF DecisionsOK
    <3>3. Justified(e)'
      BY <3>2, JustifiedStays
    <3>4. decisions'[i] = e
      BY <1>1, <2>1, <3>1
    <3> QED
      BY <3>3, <3>4 DEF Justified
  <2>2. CASE i = n + 1
    BY <1>1, <2>2 DEF Justified
  <2> QED
    BY <1>1, <2>1, <2>2
<1>3. DenialIsFinal'
  <2> SUFFICES ASSUME NEW i \in 1..(n + 1), NEW j \in 1..(n + 1), i < j,
                      decisions'[i].handle = decisions'[j].handle,
                      decisions'[j].reason = "allowed"
               PROVE  /\ decisions'[i].reason \notin FinalDenials
                      /\ decisions'[i].reason \in {"allowed", "request_already_authorized"} =>
                            decisions'[i].request # decisions'[j].request
                      /\ decisions'[i].reason = "budget_exceeded" =>
                            decisions'[j].budget < decisions'[i].budget
    BY <1>1 DEF DenialIsFinal
  <2>1. i \in 1..n /\ decisions'[i] = decisions[i]
    BY <1>1
  <2>2. CASE j \in 1..n
    <3>1. decisions'[j] = decisions[j]
      BY <1>1, <2>2
    <3> QED
      BY <1>1, <2>1, <2>2, <3>1 DEF DenialIsFinal
  <2>3. CASE j = n + 1
    BY <1>1, <2>1, <2>3
  <2> QED
    BY <1>1, <2>2, <2>3
<1> QED
  BY <1>2, <1>3

\* A denial adds an entry that is no allow.
LEMMA DenyAudit ==
  ASSUME Core, Core', Shrinks, Audit,
         NEW c \in Capability, NEW use \in Use, NEW now \in Time, Deny(c, use, now)
  PROVE  Audit'
<1> DEFINE v == Verdict(c, use, now)
           n == Len(decisions)
<1>1. PICK d \in Decision :
         d = [handle |-> c, request |-> use.request, budget |-> use.budget, reason |-> v]
  BY VerdictCases DEF Decision, Use
<1>2. decisions' = Append(decisions, d) /\ authorizations' = authorizations /\ v # "allowed"
  BY <1>1 DEF Deny, RecordDecision
<1>3. /\ d.handle = c /\ d.request = use.request /\ d.budget = use.budget
      /\ d.reason = Verdict(c, use, now)
  BY <1>1
<1>4. Justified(d)'
  BY <1>1, <1>3, DenyJustified
<1>5. DecisionsOK' /\ DenialIsFinal'
  BY <1>1, <1>2, <1>3, <1>4, LogEntry DEF Audit
<1>6. AllowsAreRecorded'
  <2>1. /\ DOMAIN decisions = 1..n /\ n \in Nat /\ DOMAIN decisions' = 1..(n + 1)
        /\ \A i \in 1..n : decisions'[i] = decisions[i]
        /\ decisions'[n + 1] = d
    BY <1>1, <1>2, LogGrows
  <2> HIDE DEF n
  <2>2. {k \in DOMAIN decisions' : decisions'[k].reason = "allowed"} =
        {k \in DOMAIN decisions : decisions[k].reason = "allowed"}
    BY <1>2, <1>3, <2>1
  <2> QED
    BY <1>2, <2>1, <2>2 DEF Audit, AllowsAreRecorded
<1> QED
  BY <1>5, <1>6 DEF Audit

\* An allow adds its authorization and its entry together, and no earlier
\* denial of the handle stands against it.
LEMMA AllowAudit ==
  ASSUME Core, Core', Shrinks, Audit,
         NEW c \in Capability, NEW use \in Use, NEW now \in Time, Allow(c, use, now)
  PROVE  Audit'
<1> DEFINE d == [handle |-> c, request |-> use.request, budget |-> use.budget,
                 reason |-> "allowed"]
           new == [capability |-> c, request |-> use.request, budget |-> use.budget, at |-> now]
           n == Len(decisions)
<1>1. d \in Decision /\ use.budget \in Nat
  BY LimitsArePositive DEF Decision, Use, Reason
<1>2. /\ decisions' = Append(decisions, d) /\ authorizations' = authorizations \cup {new}
      /\ Verdict(c, use, now) = "allowed"
  BY DEF Allow, RecordDecision
<1>3. d.handle = c /\ d.request = use.request /\ d.budget = use.budget /\ d.reason = "allowed"
  OBVIOUS
<1>4. new.capability = c /\ new.request = use.request /\ new.budget = use.budget
  OBVIOUS
<1> HIDE DEF d, new
<1>5. Justified(d)'
  BY <1>2, <1>3, <1>4 DEF Justified, Dead, AncestorDenials
<1>6. /\ DOMAIN decisions = 1..n /\ n \in Nat /\ DOMAIN decisions' = 1..(n + 1)
      /\ \A i \in 1..n : decisions'[i] = decisions[i] /\ decisions[i] \in Decision
      /\ decisions'[n + 1] = d
  BY <1>1, <1>2, LogGrows
<1> HIDE DEF n
<1>7. ASSUME NEW i \in DOMAIN decisions, decisions[i].handle = c
      PROVE  /\ decisions[i].reason \notin FinalDenials
             /\ decisions[i].reason \in {"allowed", "request_already_authorized"} =>
                   decisions[i].request # use.request
             /\ decisions[i].reason = "budget_exceeded" => use.budget < decisions[i].budget
  <2>1. /\ status[c] = "active" /\ policy[grant[c].branch] = grant[c].revision
        /\ ~AlreadyAuthorized(c, use)
        /\ \A a \in Ancestors(c) : status[a] = "active" /\ (budget[a] # None => budget[a] >= use.budget)
    BY <1>2, AllowedMeans
  <2>2. Justified(decisions[i])
    BY DEF Audit, DecisionsOK
  <2>3. grant[c].revision \in Nat
    BY <2>1, RevisionIsNatural DEF Core, RowsOK
  <2>4. decisions[i].budget \in Nat
    BY <1>6, LimitsArePositive DEF Decision
  <2>5. \A a \in Ancestors(c) : budget[a] # None => budget[a] \in Nat
    BY DEF Core, TypeOK, Optional, Ancestors
  <2>6. decisions[i].reason \notin FinalDenials
    BY <1>7, <2>1, <2>2, <2>3 DEF Justified, FinalDenials, Dead
  <2>7. decisions[i].reason \in {"allowed", "request_already_authorized"} =>
           decisions[i].request # use.request
    BY <1>7, <2>1, <2>2 DEF Justified, AlreadyAuthorized
  <2>8. decisions[i].reason = "budget_exceeded" => use.budget < decisions[i].budget
    BY <1>1, <1>7, <2>1, <2>2, <2>4, <2>5 DEF Justified
  <2> QED
    BY <2>6, <2>7, <2>8
<1>8. DecisionsOK' /\ DenialIsFinal'
  BY <1>1, <1>2, <1>3, <1>5, <1>7, LogEntry DEF Audit
<1>9. AllowsAreRecorded'
  <2> DEFINE A == {k \in DOMAIN decisions : decisions[k].reason = "allowed"}
             t == <<c, use.request, use.budget>>
  <2>1. {k \in DOMAIN decisions' : decisions'[k].reason = "allowed"} = A \cup {n + 1}
    BY <1>3, <1>6
  <2>2. {<<a.capability, a.request, a.budget>> : a \in authorizations'} =
        {<<a.capability, a.request, a.budget>> : a \in authorizations} \cup {t}
    BY <1>2, <1>4
  <2>3. {<<decisions'[i].handle, decisions'[i].request, decisions'[i].budget>> :
            i \in A \cup {n + 1}} =
        {<<decisions[i].handle, decisions[i].request, decisions[i].budget>> : i \in A} \cup {t}
    BY <1>3, <1>6
  <2> QED
    BY <2>1, <2>2, <2>3 DEF Audit, AllowsAreRecorded
<1> QED
  BY <1>8, <1>9 DEF Audit

\* A step that decides nothing leaves the log and what it is based on in place.
LEMMA UndecidedAudit ==
  ASSUME Core, Core', Shrinks, Audit, decisions' = decisions, authorizations' = authorizations
  PROVE  Audit'
<1>1. DecisionsOK'
  <2> SUFFICES ASSUME NEW i \in DOMAIN decisions PROVE Justified(decisions[i])'
    BY DEF DecisionsOK
  <2>1. PICK e \in Decision : e = decisions[i]
    BY ElementOfSeq, LenProperties DEF Core, TypeOK
  <2>2. Justified(e)
    BY <2>1 DEF Audit, DecisionsOK
  <2>3. Justified(e)'
    BY <2>2, JustifiedStays
  <2> QED
    BY <2>1, <2>3 DEF Justified
<1> QED
  BY <1>1 DEF Audit, AllowsAreRecorded, DenialIsFinal

\* The empty log is consistent.
LEMMA InitAudit == Init => Audit
<1> SUFFICES ASSUME Init PROVE Audit
  OBVIOUS
<1>1. DOMAIN decisions = {} /\ authorizations = {}
  BY DEF Init
<1> QED
  BY <1>1 DEF Audit, AllowsAreRecorded, DecisionsOK, DenialIsFinal

\* Only AuthorizeAndConsume writes to the log.
LEMMA NextAudit == Core /\ Core' /\ Audit /\ [Next]_vars => Audit'
<1> SUFFICES ASSUME Core, Core', Audit, [Next]_vars PROVE Audit'
  OBVIOUS
<1>1. CASE UNCHANGED vars
  BY <1>1 DEF vars, Audit, AllowsAreRecorded, DecisionsOK, DenialIsFinal, Justified, Ancestors
<1>2. CASE Next
  <2>1. Shrinks
    BY <1>2, NextShrinks
  <2>2. CASE \E c \in Capability, use \in Use, now \in Time : AuthorizeAndConsume(c, use, now)
    BY <2>1, <2>2, AllowAudit, DenyAudit DEF AuthorizeAndConsume
  <2>3. CASE decisions' = decisions /\ authorizations' = authorizations
    BY <2>1, <2>3, UndecidedAudit
  <2> QED
    BY <1>2, <2>2, <2>3
    DEF Next, Administer, SetPolicyRevision, Issue, Attenuate, InsertCapability, Revoke, RevokeById
<1> QED
  BY <1>1, <1>2

\* The audit log is consistent in every reachable state.
THEOREM AuditInvariance == Spec => []Audit
<1>1. Core /\ Audit /\ [Next]_vars => Audit'
  BY NextAudit, NextCore
<1> QED
  BY <1>1, InitAudit, CoreInvariance, PTL DEF Spec

\* A denial for a reason that is not undone is never followed by an allow.
THEOREM DenialsAreFinal == Spec => []DenialIsFinal
<1>1. Audit => DenialIsFinal
  BY DEF Audit
<1> QED
  BY <1>1, AuditInvariance, PTL

\* The audit log and the authorization table agree in every reachable state.
THEOREM AuditIsComplete == Spec => []AllowsAreRecorded
<1>1. Audit => AllowsAreRecorded
  BY DEF Audit
<1> QED
  BY <1>1, AuditInvariance, PTL

-----------------------------------------------------------------------------
(* Part 2: the service and the gateway composed. *)

Holding == {"prepared", "dispatched", "invoked", "commit"}

\* The operation was let through: its intent is neither missing nor denied.
Admitted(o) == intents[o].state \notin {"absent", "denied"}

\* The parts of the gateway's state the argument reads, and what a caller
\* inside execute carries.
GatewayTyped ==
    /\ intents \in [RequestId -> Gw!Intent]
    /\ invocations \in [RequestId -> Nat]
    /\ exec \in [Executor -> Gw!Caller]
    /\ \A e \in Executor : exec[e].pc # "idle" => exec[e].op \in RequestId /\ exec[e].input \in Input
    /\ \A e \in Executor : exec[e].pc = "commit" => exec[e].outcome \in Result

\* Whoever is past authorize_and_persist got there by an admission, and so did
\* every call of the provider.
PastAdmission ==
    /\ \A e \in Executor : exec[e].pc \in Holding => Admitted(exec[e].op)
    /\ \A o \in RequestId : invocations[o] > 0 => Admitted(o)

GatewayInv == GatewayTyped /\ PastAdmission

\* Row by row, the intents let through and the authorizations consumed agree.
TablesAgree ==
    /\ \A a \in authorizations : Admitted(a.request)
    /\ \A o \in RequestId : Admitted(o) => \E a \in authorizations : a.request = o
    /\ \A a, b \in authorizations : a.request = b.request => a = b

\* The inductive invariant of the composition.
SecureInv == Core /\ Books /\ GatewayInv /\ TablesAgree

-----------------------------------------------------------------------------
(* Steps of the gateway that admit nothing. *)

\* What such a step leaves of admission.
AdmissionStays == \A o \in RequestId : Admitted(o)' <=> Admitted(o)

\* A caller moves to another step of execute, or out of it, writing no row.
LEMMA MoveKeeps ==
  ASSUME GatewayInv, NEW e \in Executor, NEW l \in Gw!Caller, exec' = [exec EXCEPT ![e] = l],
         l.pc # "idle" => l.op \in RequestId /\ l.input \in Input,
         l.pc \in Holding => Admitted(l.op),
         l.pc = "commit" => l.outcome \in Result,
         UNCHANGED <<intents, invocations>>
  PROVE  GatewayInv' /\ AdmissionStays
<1>1. GatewayTyped'
  BY DEF GatewayInv, GatewayTyped
<1>2. PastAdmission'
  BY DEF GatewayInv, GatewayTyped, PastAdmission, Admitted
<1> QED
  BY <1>1, <1>2 DEF GatewayInv, AdmissionStays, Admitted

\* A caller returns, whatever the reason.
LEMMA ReturnKeeps ==
  ASSUME GatewayInv, NEW e \in Executor, Gw!Return(e), UNCHANGED <<intents, invocations>>
  PROVE  GatewayInv' /\ AdmissionStays
<1>1. Gw!Idle \in Gw!Caller /\ Gw!Idle.pc = "idle"
  BY DEF Gw!Idle, Gw!Caller, Gw!Step, Gw!FaultPoint
<1> QED
  BY <1>1, MoveKeeps DEF Gw!Return, Holding

\* A caller goes to its next step; what it carries stays.
LEMMA GotoKeeps ==
  ASSUME GatewayInv, NEW e \in Executor, NEW pc \in Gw!Step \ {"idle"}, Gw!Goto(e, pc),
         exec[e].pc # "idle", pc \in Holding => exec[e].pc \in Holding,
         pc = "commit" => exec[e].outcome \in Result,
         UNCHANGED <<intents, invocations>>
  PROVE  GatewayInv' /\ AdmissionStays
<1>1. PICK k \in Gw!Caller : k = exec[e]
  BY DEF GatewayInv, GatewayTyped
<1>2. PICK l \in Gw!Caller : l = [k EXCEPT !.pc = pc]
  BY DEF Gw!Caller
<1>3. l.pc = pc /\ l.op = k.op /\ l.input = k.input /\ l.outcome = k.outcome
  BY <1>2 DEF Gw!Caller
<1>4. exec' = [exec EXCEPT ![e] = l]
  BY <1>1, <1>2 DEF Gw!Goto, GatewayInv, GatewayTyped
<1>5. l.op \in RequestId /\ l.input \in Input
  BY <1>1, <1>3 DEF GatewayInv, GatewayTyped
<1>6. l.pc \in Holding => Admitted(l.op)
  BY <1>1, <1>3 DEF GatewayInv, PastAdmission
<1> QED
  BY <1>1, <1>3, <1>4, <1>5, <1>6, MoveKeeps

\* The rows of an admitted operation change, but not to absent or denied, and
\* its caller moves on or returns.
LEMMA ResolveKeeps ==
  ASSUME GatewayInv, NEW e \in Executor, NEW o \in RequestId, Admitted(o),
         NEW i \in Gw!Intent, intents' = [intents EXCEPT ![o] = i],
         i.state \notin {"absent", "denied"},
         NEW n \in [RequestId -> Nat], invocations' = n,
         \A p \in RequestId \ {o} : n[p] = invocations[p],
         NEW l \in Gw!Caller, exec' = [exec EXCEPT ![e] = l],
         l.pc # "idle" => l.op = o /\ l.input \in Input, l.pc # "commit"
  PROVE  GatewayInv' /\ AdmissionStays
<1>1. GatewayTyped'
  BY DEF GatewayInv, GatewayTyped
<1>2. AdmissionStays
  BY DEF AdmissionStays, Admitted, GatewayInv, GatewayTyped
<1>3. \A p \in RequestId : invocations'[p] > 0 => Admitted(p)'
  BY <1>2 DEF AdmissionStays, GatewayInv, PastAdmission
<1>4. ASSUME NEW f \in Executor, exec'[f].pc \in Holding
      PROVE  Admitted(exec[f].op)'
  <2>1. CASE f = e
    <3>1. exec'[f] = l
      BY <2>1 DEF GatewayInv, GatewayTyped
    <3>2. exec'[f].op = o
      BY <3>1, <1>4 DEF Holding
    <3>3. Admitted(o)'
      BY DEF Admitted, GatewayInv, GatewayTyped
    <3> QED
      BY <3>2, <3>3 DEF Admitted
  <2>2. CASE f # e
    <3>1. exec'[f] = exec[f]
      BY <2>2 DEF GatewayInv, GatewayTyped
    <3>2. PICK p \in RequestId : p = exec[f].op
      BY <3>1, <1>4 DEF GatewayInv, GatewayTyped, Holding
    <3>3. Admitted(p)
      BY <3>1, <3>2, <1>4 DEF GatewayInv, PastAdmission
    <3>4. Admitted(p)'
      BY <3>3, <1>2 DEF AdmissionStays
    <3> QED
      BY <3>1, <3>2, <3>4 DEF Admitted
  <2> QED
    BY <2>1, <2>2
<1>5. PastAdmission'
  BY <1>3, <1>4 DEF PastAdmission
<1> QED
  BY <1>1, <1>2, <1>5 DEF GatewayInv

\* A caller enters execute.
LEMMA CallKeeps ==
  ASSUME GatewayInv, NEW e \in Executor, NEW o \in RequestId, NEW i \in Input, NEW f \in Faults,
         Gw!Call(e, o, i, f)
  PROVE  GatewayInv' /\ AdmissionStays
<1>1. PICK l \in Gw!Caller : l = [pc |-> "find", op |-> o, input |-> i, fault |-> f, outcome |-> Gw!None]
  BY GatewayTypes DEF Gw!Caller, Gw!Step
<1>2. l.pc = "find" /\ l.op = o /\ l.input = i
  BY <1>1
<1>3. exec' = [exec EXCEPT ![e] = l]
  BY <1>1 DEF Gw!Call
<1> QED
  BY <1>2, <1>3, MoveKeeps DEF Gw!Call, Gw!effectRows, Gw!external, Holding

\* mark_dispatched.
LEMMA MarkDispatchedKeeps ==
  ASSUME GatewayInv, NEW e \in Executor, Gw!MarkDispatched(e)
  PROVE  GatewayInv' /\ AdmissionStays
<1>1. PICK o \in RequestId : o = exec[e].op
  BY DEF Gw!MarkDispatched, Gw!At, GatewayInv, GatewayTyped
<1>2. Admitted(o)
  BY <1>1 DEF Gw!MarkDispatched, Admitted
<1>3. PICK i \in Gw!Intent : i = [intents[o] EXCEPT !.state = "dispatched"]
  BY DEF GatewayInv, GatewayTyped, Gw!Intent, Gw!IntentState
<1>4. i.state = "dispatched" /\ intents' = [intents EXCEPT ![o] = i]
  BY <1>1, <1>3 DEF Gw!MarkDispatched, Gw!Intent, GatewayInv, GatewayTyped
<1>5. PICK l \in Gw!Caller : l = [exec[e] EXCEPT !.pc = "dispatched"]
  BY DEF GatewayInv, GatewayTyped, Gw!Caller, Gw!Step
<1>6. exec' = [exec EXCEPT ![e] = l]
  BY <1>5 DEF Gw!MarkDispatched, Gw!Goto, GatewayInv, GatewayTyped
<1>7. l.pc # "commit" /\ l.op = o /\ l.input \in Input
  BY <1>1, <1>5 DEF Gw!MarkDispatched, Gw!At, Gw!Caller, GatewayInv, GatewayTyped
<1>8. invocations' = invocations /\ invocations \in [RequestId -> Nat]
  BY DEF Gw!MarkDispatched, Gw!external, GatewayInv, GatewayTyped
<1>9. PICK n \in [RequestId -> Nat] : n = invocations
  BY <1>8
<1> QED
  BY <1>2, <1>4, <1>6, <1>7, <1>8, <1>9, ResolveKeeps

\* The call of the provider, made by a caller past admission.
LEMMA InvokeKeeps ==
  ASSUME GatewayInv, NEW e \in Executor, NEW outcome \in Result \cup {"failed"},
         Gw!Invoke(e, outcome)
  PROVE  GatewayInv' /\ AdmissionStays
<1>1. PICK o \in RequestId : o = exec[e].op
  BY DEF Gw!Invoke, Gw!At, GatewayInv, GatewayTyped
<1>2. Admitted(o)
  BY <1>1 DEF Gw!Invoke, Gw!At, GatewayInv, PastAdmission, Holding
<1>3. PICK i \in Gw!Intent : i = intents[o]
  BY DEF GatewayInv, GatewayTyped
<1>4. i.state \notin {"absent", "denied"} /\ intents' = [intents EXCEPT ![o] = i]
  BY <1>2, <1>3 DEF Gw!Invoke, Gw!effectRows, GatewayInv, GatewayTyped, Admitted
<1>5. PICK l \in Gw!Caller : l = [exec[e] EXCEPT !.pc = "invoked", !.outcome = outcome]
  BY DEF GatewayInv, GatewayTyped, Gw!Caller, Gw!Step
<1>6. exec' = [exec EXCEPT ![e] = l]
  BY <1>5 DEF Gw!Invoke, GatewayInv, GatewayTyped
<1>7. l.pc # "commit" /\ l.op = o /\ l.input \in Input
  BY <1>1, <1>5 DEF Gw!Invoke, Gw!At, Gw!Caller, GatewayInv, GatewayTyped
<1>8. PICK n \in [RequestId -> Nat] : n = [invocations EXCEPT ![o] = @ + 1]
  <2>1. invocations[o] + 1 \in Nat
    BY DEF GatewayInv, GatewayTyped
  <2>2. [invocations EXCEPT ![o] = @ + 1] \in [RequestId -> Nat]
    BY <2>1 DEF GatewayInv, GatewayTyped
  <2> QED
    BY <2>2
<1>9. invocations' = n /\ \A p \in RequestId \ {o} : n[p] = invocations[p]
  BY <1>1, <1>8 DEF Gw!Invoke, Gw!Provide, GatewayInv, GatewayTyped
<1> QED
  BY <1>2, <1>4, <1>6, <1>7, <1>9, ResolveKeeps

\* The transactions that end a dispatched operation.
LEMMA EndKeeps ==
  ASSUME GatewayInv, NEW e \in Executor, exec[e].pc # "idle",
         NEW s \in {"succeeded", "failed", "unknown"}, NEW r \in Result \cup {Gw!None}, NEW t,
         Gw!Resolve(exec[e].op, s, r, t), Gw!Return(e), UNCHANGED invocations
  PROVE  GatewayInv' /\ AdmissionStays
<1>1. PICK o \in RequestId : o = exec[e].op
  BY DEF GatewayInv, GatewayTyped
<1>2. Admitted(o)
  BY <1>1 DEF Gw!Resolve, Admitted
<1>3. PICK i \in Gw!Intent : i = [intents[o] EXCEPT !.state = s, !.result = r]
  BY ZenonT(30) DEF GatewayInv, GatewayTyped, Gw!Intent, Gw!IntentState
<1>4. i.state = s /\ intents' = [intents EXCEPT ![o] = i]
  BY <1>1, <1>3 DEF Gw!Resolve, Gw!Intent, GatewayInv, GatewayTyped
<1>5. Gw!Idle \in Gw!Caller /\ Gw!Idle.pc = "idle"
  BY DEF Gw!Idle, Gw!Caller, Gw!Step, Gw!FaultPoint
<1>6. exec' = [exec EXCEPT ![e] = Gw!Idle]
  BY DEF Gw!Return
<1>7. PICK n \in [RequestId -> Nat] : n = invocations
  BY DEF GatewayInv, GatewayTyped
<1> QED
  BY <1>2, <1>4, <1>5, <1>6, <1>7, ResolveKeeps

\* Every step of execute but the three outcomes of authorize_and_persist.
LEMMA AdvanceKeeps ==
  ASSUME GatewayInv, NEW e \in Executor, Gw!Advance(e)
  PROVE  GatewayInv' /\ AdmissionStays
<1> USE DEF Gw!effectRows, Gw!external
<1>1. CASE Gw!FindExisting(e) \/ Gw!PersistExisting(e)
  BY <1>1, ReturnKeeps DEF Gw!FindExisting, Gw!PersistExisting, Gw!ResolveExisting
<1>2. CASE Gw!FindNothing(e)
  BY <1>2, GotoKeeps DEF Gw!FindNothing, Gw!At, Gw!Step, Holding
<1>3. CASE Gw!PutInput(e)
  BY <1>3, GotoKeeps DEF Gw!PutInput, Gw!At, Gw!Step, Holding
<1>4. CASE Gw!FaultAfterPrepared(e)
  BY <1>4, ReturnKeeps DEF Gw!FaultAfterPrepared
<1>5. CASE Gw!MarkDispatched(e)
  BY <1>5, MarkDispatchedKeeps
<1>6. CASE \E outcome \in Result \cup {"failed"} : Gw!Invoke(e, outcome)
  BY <1>6, InvokeKeeps
<1>7. CASE Gw!MarkUnknown(e)
  <2>1. exec[e].pc # "idle"
    BY <1>7 DEF Gw!MarkUnknown, Gw!FaultDue, Gw!At
  <2> QED
    BY <1>7, <2>1, EndKeeps DEF Gw!MarkUnknown
<1>8. CASE Gw!MarkUnknownRefused(e)
  BY <1>8, ReturnKeeps DEF Gw!MarkUnknownRefused
<1>9. CASE Gw!MarkFailed(e)
  <2>1. exec[e].pc # "idle"
    BY <1>9 DEF Gw!MarkFailed, Gw!At
  <2> QED
    BY <1>9, <2>1, EndKeeps DEF Gw!MarkFailed
<1>10. CASE Gw!PutResult(e)
  BY <1>10, GotoKeeps DEF Gw!PutResult, Gw!At, Gw!Step, Holding
<1>11. CASE Gw!CommitResult(e)
  <2>1. exec[e].pc # "idle"
    BY <1>11 DEF Gw!CommitResult, Gw!At
  <2>2. exec[e].outcome \in Result \cup {Gw!None}
    BY <1>11 DEF Gw!CommitResult, Gw!At, GatewayInv, GatewayTyped
  <2> QED
    BY <1>11, <2>1, <2>2, EndKeeps DEF Gw!CommitResult
<1> QED
  BY <1>1, <1>2, <1>3, <1>4, <1>5, <1>6, <1>7, <1>8, <1>9, <1>10, <1>11 DEF Gw!Advance

-----------------------------------------------------------------------------
(* The step that admits or denies. *)

\* insert_intent for an operation without a row: prepared, with the caller going
\* on, or denied, with the caller returning.
LEMMA InsertKeeps ==
  ASSUME GatewayInv, NEW e \in Executor, NEW o \in RequestId, intents[o].state = "absent",
         NEW i \in Gw!Intent, intents' = [intents EXCEPT ![o] = i],
         NEW l \in Gw!Caller, exec' = [exec EXCEPT ![e] = l],
         i.state \in {"prepared", "denied"},
         \/ l.pc = "idle"
         \/ l.pc = "prepared" /\ l.op = o /\ l.input \in Input /\ i.state = "prepared",
         UNCHANGED invocations
  PROVE  /\ GatewayInv'
         /\ \A p \in RequestId : Admitted(p)' <=> Admitted(p) \/ (p = o /\ i.state = "prepared")
<1>1. GatewayTyped'
  BY DEF GatewayInv, GatewayTyped
<1>2. \A p \in RequestId : Admitted(p)' <=> Admitted(p) \/ (p = o /\ i.state = "prepared")
  BY DEF Admitted, GatewayInv, GatewayTyped
<1>3. \A p \in RequestId : invocations'[p] > 0 => Admitted(p)'
  BY <1>2 DEF GatewayInv, PastAdmission
<1>4. ASSUME NEW f \in Executor, exec'[f].pc \in Holding
      PROVE  Admitted(exec[f].op)'
  <2>1. CASE f = e
    <3>1. exec'[f] = l
      BY <2>1 DEF GatewayInv, GatewayTyped
    <3>2. exec'[f].op = o /\ i.state = "prepared"
      BY <3>1, <1>4 DEF Holding
    <3>3. Admitted(o)'
      BY <1>2, <3>2
    <3> QED
      BY <3>2, <3>3 DEF Admitted
  <2>2. CASE f # e
    <3>1. exec'[f] = exec[f]
      BY <2>2 DEF GatewayInv, GatewayTyped
    <3>2. PICK p \in RequestId : p = exec[f].op
      BY <3>1, <1>4 DEF GatewayInv, GatewayTyped, Holding
    <3>3. Admitted(p)
      BY <3>1, <3>2, <1>4 DEF GatewayInv, PastAdmission
    <3>4. Admitted(p)'
      BY <3>3, <1>2
    <3> QED
      BY <3>1, <3>2, <3>4 DEF Admitted
  <2> QED
    BY <2>1, <2>2
<1>5. PastAdmission'
  BY <1>3, <1>4 DEF PastAdmission
<1> QED
  BY <1>1, <1>2, <1>5 DEF GatewayInv

\* authorize_and_persist with an allow.
LEMMA AuthorizedKeeps ==
  ASSUME GatewayInv, NEW e \in Executor, NEW o \in RequestId, o = exec[e].op,
         Gw!PersistAuthorized(e)
  PROVE  /\ GatewayInv' /\ ~Admitted(o)
         /\ \A p \in RequestId : Admitted(p)' <=> Admitted(p) \/ p = o
<1>1. /\ intents[o].state = "absent" /\ exec[e].pc = "authorize" /\ exec[e].input \in Input
      /\ invocations' = invocations
  BY DEF Gw!PersistAuthorized, Gw!At, Gw!Existing, Gw!external, GatewayInv, GatewayTyped
<1>2. PICK i \in Gw!Intent : i = [state |-> "prepared", input |-> exec[e].input, result |-> Gw!None]
  BY <1>1 DEF Gw!Intent, Gw!IntentState
<1>3. i.state = "prepared" /\ intents' = [intents EXCEPT ![o] = i]
  BY <1>2 DEF Gw!PersistAuthorized, Gw!InsertIntent
<1>4. PICK l \in Gw!Caller : l = [exec[e] EXCEPT !.pc = "prepared"]
  BY DEF GatewayInv, GatewayTyped, Gw!Caller, Gw!Step
<1>5. l.pc = "prepared" /\ l.op = o /\ l.input \in Input /\ exec' = [exec EXCEPT ![e] = l]
  BY <1>1, <1>4 DEF Gw!PersistAuthorized, Gw!Goto, Gw!Caller, GatewayInv, GatewayTyped
<1>6. /\ GatewayInv'
      /\ \A p \in RequestId : Admitted(p)' <=> Admitted(p) \/ (p = o /\ i.state = "prepared")
  BY <1>1, <1>3, <1>5, InsertKeeps, ZenonT(30)
<1>7. ~Admitted(o)
  BY <1>1 DEF Admitted
<1> QED
  BY <1>3, <1>6, <1>7

\* authorize_and_persist with a durable denial.
LEMMA DeniedKeeps ==
  ASSUME GatewayInv, NEW e \in Executor, Gw!PersistDenied(e)
  PROVE  GatewayInv' /\ AdmissionStays
<1>1. PICK o \in RequestId : o = exec[e].op
  BY DEF Gw!PersistDenied, Gw!At, GatewayInv, GatewayTyped
<1>2. /\ intents[o].state = "absent" /\ exec[e].pc = "authorize" /\ exec[e].input \in Input
      /\ invocations' = invocations
  BY <1>1 DEF Gw!PersistDenied, Gw!At, Gw!Existing, Gw!external, GatewayInv, GatewayTyped
<1>3. PICK i \in Gw!Intent : i = [state |-> "denied", input |-> exec[e].input, result |-> Gw!None]
  BY <1>2 DEF Gw!Intent, Gw!IntentState
<1>4. i.state = "denied" /\ intents' = [intents EXCEPT ![o] = i]
  BY <1>1, <1>3 DEF Gw!PersistDenied, Gw!InsertIntent
<1>5. Gw!Idle \in Gw!Caller /\ Gw!Idle.pc = "idle"
  BY DEF Gw!Idle, Gw!Caller, Gw!Step, Gw!FaultPoint
<1>6. exec' = [exec EXCEPT ![e] = Gw!Idle]
  BY DEF Gw!PersistDenied, Gw!Return
<1>7. /\ GatewayInv'
      /\ \A p \in RequestId : Admitted(p)' <=> Admitted(p) \/ (p = o /\ i.state = "prepared")
  BY <1>2, <1>4, <1>5, <1>6, InsertKeeps
<1> QED
  BY <1>4, <1>7 DEF AdmissionStays

\* The use CapabilityAuthorizer presents is well formed.
LEMMA UseIsWellFormed ==
  ASSUME GatewayInv, NEW e \in Executor, NEW r \in Revision, exec[e].pc = "authorize"
  PROVE  /\ HandleOf[e] \in Capability /\ UseOf(e, r) \in Use
         /\ exec[e].op \in RequestId /\ UseOf(e, r).request = exec[e].op
<1>1. exec[e].op \in RequestId /\ exec[e].input \in Input
  BY DEF GatewayInv, GatewayTyped
<1> QED
  BY <1>1, AdapterTypes, GatewayTypes DEF UseOf, Use

-----------------------------------------------------------------------------
(* The composition and its components. *)

\* Whatever the gateways do, the service sees one of its own operations.
LEMMA ServiceStep ==
  ASSUME GatewayInv, [SecureNext]_secureVars
  PROVE  [Next]_vars
<1>1. CASE UNCHANGED secureVars
  BY <1>1 DEF secureVars
<1>2. CASE AdministerService
  BY <1>2 DEF AdministerService, Next
<1>3. CASE Execute
  BY <1>3 DEF Execute
<1>4. ASSUME NEW e \in Executor, NEW r \in Revision, NEW now \in Time,
             PersistAllowed(e, r, now) \/ PersistDenied(e, r, now)
      PROVE  Next
  <2>1. exec[e].pc = "authorize"
    BY <1>4 DEF PersistAllowed, PersistDenied, Gw!PersistAuthorized, Gw!PersistDenied, Gw!At
  <2>2. HandleOf[e] \in Capability /\ UseOf(e, r) \in Use
    BY <2>1, UseIsWellFormed
  <2>3. AuthorizeAndConsume(HandleOf[e], UseOf(e, r), now)
    BY <1>4 DEF PersistAllowed, PersistDenied, AuthorizeAndConsume
  <2> QED
    BY <2>2, <2>3 DEF Next
<1>5. ASSUME NEW e \in Executor, NEW r \in Revision, NEW now \in Time, PersistDenialLost(e, r, now)
      PROVE  UNCHANGED vars
  BY <1>5 DEF PersistDenialLost
<1>6. ASSUME NEW e \in Executor, PersistUnavailable(e)
      PROVE  UNCHANGED vars
  BY <1>6 DEF PersistUnavailable
<1> QED
  BY <1>1, <1>2, <1>3, <1>4, <1>5, <1>6 DEF SecureNext

\* Whatever the service decides, the gateway takes one of its own steps.
LEMMA GatewayStep ==
  ASSUME [SecureNext]_secureVars
  PROVE  [Gw!Next]_(Gw!vars)
<1>1. CASE UNCHANGED secureVars
  BY <1>1 DEF secureVars, gwVars, Gw!vars
<1>2. CASE AdministerService
  BY <1>2 DEF AdministerService, gwVars, Gw!vars
<1>3. CASE Execute
  BY <1>3 DEF Execute, Gw!Next, Gw!Proceed
<1>4. ASSUME NEW e \in Executor, NEW r \in Revision, NEW now \in Time,
             PersistAllowed(e, r, now) \/ PersistDenied(e, r, now) \/ PersistDenialLost(e, r, now)
      PROVE  Gw!Next
  BY <1>4 DEF PersistAllowed, PersistDenied, PersistDenialLost, Gw!Next, Gw!Proceed
<1>5. ASSUME NEW e \in Executor, PersistUnavailable(e)
      PROVE  Gw!Next
  BY <1>5 DEF PersistUnavailable, Gw!Next, Gw!Proceed
<1> QED
  BY <1>1, <1>2, <1>3, <1>4, <1>5 DEF SecureNext

\* A step that neither admits nor consumes leaves the tables in agreement.
LEMMA UnadmittedAgree ==
  ASSUME Core, TablesAgree, AdmissionStays, authorizations' = authorizations
  PROVE  TablesAgree'
<1>1. \A a \in authorizations : a.request \in RequestId
  BY DEF Core, TypeOK, Authorization
<1>2. \A a \in authorizations : Admitted(a.request)'
  BY <1>1 DEF AdmissionStays, TablesAgree
<1>3. \A o \in RequestId : Admitted(o)' => \E a \in authorizations : a.request = o
  BY DEF AdmissionStays, TablesAgree
<1> QED
  BY <1>2, <1>3 DEF TablesAgree, Admitted

\* An admission inserts one row of each.
LEMMA AdmissionAgrees ==
  ASSUME Core, TablesAgree, NEW o \in RequestId, ~Admitted(o),
         \A p \in RequestId : Admitted(p)' <=> Admitted(p) \/ p = o,
         NEW t, t.request = o, authorizations' = authorizations \cup {t}
  PROVE  TablesAgree'
<1>1. \A a \in authorizations : a.request \in RequestId /\ a.request # o /\ Admitted(a.request)'
  BY DEF Core, TypeOK, Authorization, TablesAgree
<1>2. \A a \in authorizations' : Admitted(a.request)'
  BY <1>1
<1>3. \A p \in RequestId : Admitted(p)' => \E a \in authorizations' : a.request = p
  BY DEF TablesAgree
<1>4. \A a, b \in authorizations' : a.request = b.request => a = b
  BY <1>1 DEF TablesAgree
<1> QED
  BY <1>2, <1>3, <1>4 DEF TablesAgree, Admitted

\* Every step of the composition keeps the gateway's part and the agreement.
LEMMA NextAgrees ==
  ASSUME Core, GatewayInv, TablesAgree, [SecureNext]_secureVars
  PROVE  GatewayInv' /\ TablesAgree'
<1> USE DEF Gw!effectRows, Gw!external
<1>1. CASE UNCHANGED secureVars
  <2>1. UNCHANGED <<intents, invocations, exec, authorizations>>
    BY <1>1 DEF secureVars, vars, gwVars
  <2>2. GatewayInv' /\ AdmissionStays
    BY <2>1 DEF GatewayInv, GatewayTyped, PastAdmission, Admitted, AdmissionStays
  <2> QED
    BY <2>1, <2>2, UnadmittedAgree
<1>2. CASE AdministerService
  <2>1. UNCHANGED <<intents, invocations, exec>>
    BY <1>2 DEF AdministerService, gwVars
  <2>2. authorizations' = authorizations
    BY <1>2 DEF AdministerService, Administer, SetPolicyRevision, Issue, Attenuate,
                InsertCapability, RevokeById, Revoke
  <2>3. GatewayInv' /\ AdmissionStays
    BY <2>1 DEF GatewayInv, GatewayTyped, PastAdmission, Admitted, AdmissionStays
  <2> QED
    BY <2>2, <2>3, UnadmittedAgree
<1>3. CASE Execute
  <2>1. authorizations' = authorizations
    BY <1>3 DEF Execute, vars
  <2>2. ASSUME NEW e \in Executor, NEW o \in RequestId, NEW i \in Input, NEW f \in Faults,
               Gw!Call(e, o, i, f)
        PROVE  GatewayInv' /\ AdmissionStays
    BY <2>2, CallKeeps
  <2>3. ASSUME NEW e \in Executor, Gw!Advance(e)
        PROVE  GatewayInv' /\ AdmissionStays
    BY <2>3, AdvanceKeeps
  <2>4. ASSUME NEW e \in Executor, Gw!Stop(e)
        PROVE  GatewayInv' /\ AdmissionStays
    BY <2>4, ReturnKeeps DEF Gw!Stop
  <2>5. ASSUME NEW b \in Branch, NEW s, Gw!MarkTerminal(b, s)
        PROVE  GatewayInv' /\ AdmissionStays
    <3>1. UNCHANGED <<intents, invocations, exec>>
      BY <2>5 DEF Gw!MarkTerminal
    <3> QED
      BY <3>1 DEF GatewayInv, GatewayTyped, PastAdmission, Admitted, AdmissionStays
  <2>6. GatewayInv' /\ AdmissionStays
    BY <1>3, <2>2, <2>3, <2>4, <2>5 DEF Execute
  <2> QED
    BY <2>1, <2>6, UnadmittedAgree
<1>4. ASSUME NEW e \in Executor, NEW r \in Revision, NEW now \in Time, PersistAllowed(e, r, now)
      PROVE  GatewayInv' /\ TablesAgree'
  <2>1. exec[e].pc = "authorize"
    BY <1>4 DEF PersistAllowed, Gw!PersistAuthorized, Gw!At
  <2>2. PICK o \in RequestId : o = exec[e].op /\ UseOf(e, r).request = o
    BY <2>1, UseIsWellFormed
  <2>3. /\ GatewayInv' /\ ~Admitted(o)
        /\ \A p \in RequestId : Admitted(p)' <=> Admitted(p) \/ p = o
    BY <1>4, <2>2, AuthorizedKeeps DEF PersistAllowed
  <2>4. PICK t : /\ t.request = o
                 /\ authorizations' = authorizations \cup {t}
    BY <1>4, <2>2 DEF PersistAllowed, Allow
  <2> QED
    BY <2>3, <2>4, AdmissionAgrees
<1>5. ASSUME NEW e \in Executor, NEW r \in Revision, NEW now \in Time, PersistDenied(e, r, now)
      PROVE  GatewayInv' /\ TablesAgree'
  <2>1. authorizations' = authorizations
    BY <1>5 DEF PersistDenied, Deny
  <2>2. GatewayInv' /\ AdmissionStays
    BY <1>5, DeniedKeeps DEF PersistDenied
  <2> QED
    BY <2>1, <2>2, UnadmittedAgree
<1>6. ASSUME NEW e \in Executor, Gw!PersistRolledBack(e), UNCHANGED vars
      PROVE  GatewayInv' /\ TablesAgree'
  <2>1. authorizations' = authorizations
    BY <1>6 DEF vars
  <2>2. GatewayInv' /\ AdmissionStays
    BY <1>6, ReturnKeeps DEF Gw!PersistRolledBack
  <2> QED
    BY <2>1, <2>2, UnadmittedAgree
<1> QED
  BY <1>1, <1>2, <1>3, <1>4, <1>5, <1>6 DEF SecureNext, PersistDenialLost, PersistUnavailable

\* Nothing is in flight and nothing consumed when the database is empty.
LEMMA InitAgrees == SecureInit => GatewayInv /\ TablesAgree
<1> SUFFICES ASSUME SecureInit PROVE GatewayInv /\ TablesAgree
  OBVIOUS
<1>1. Gw!NoIntent \in Gw!Intent /\ Gw!NoIntent.state = "absent"
  BY DEF Gw!NoIntent, Gw!Intent, Gw!IntentState
<1>2. Gw!Idle \in Gw!Caller /\ Gw!Idle.pc = "idle"
  BY DEF Gw!Idle, Gw!Caller, Gw!Step, Gw!FaultPoint
<1>3. /\ intents = [o \in RequestId |-> Gw!NoIntent] /\ invocations = [o \in RequestId |-> 0]
      /\ exec = [e \in Executor |-> Gw!Idle] /\ authorizations = {}
  BY DEF SecureInit, Init, Gw!Init
<1>4. GatewayTyped
  BY <1>1, <1>2, <1>3 DEF GatewayTyped
<1>5. PastAdmission /\ TablesAgree
  BY <1>1, <1>2, <1>3 DEF PastAdmission, TablesAgree, Admitted, Holding
<1> QED
  BY <1>4, <1>5 DEF GatewayInv

\* The inductive invariant.
THEOREM SecureInvariance == SecureSpec => []SecureInv
<1>1. SecureInit => SecureInv
  BY InitCore, InitBooks, InitAgrees DEF SecureInit, SecureInv
<1>2. SecureInv /\ [SecureNext]_secureVars => SecureInv'
  BY ServiceStep, NextCore, NextBooks, NextAgrees DEF SecureInv
<1> QED
  BY <1>1, <1>2, PTL DEF SecureSpec

\* The composition implements the capability service: whatever CapabilityAuthorizer
\* and the gateways behind it do, the authority's tables change only as its own
\* operations change them, so the theorems about it hold of the composition.
THEOREM ImplementsService == SecureSpec => Spec
<1>1. SecureInit => Init
  BY DEF SecureInit
<1>2. SecureInv /\ [SecureNext]_secureVars => [Next]_vars
  BY ServiceStep DEF SecureInv
<1> QED
  BY <1>1, <1>2, SecureInvariance, PTL DEF SecureSpec, Spec

\* It implements the effect gateway: the real authorizer only restricts what the
\* gateway does with an arbitrary one.
THEOREM ImplementsGateway == SecureSpec => Gw!Spec
<1>1. SecureInit => Gw!Init
  BY DEF SecureInit
<1>2. [SecureNext]_secureVars => [Gw!Next]_(Gw!vars)
  BY GatewayStep
<1> QED
  BY <1>1, <1>2, PTL DEF SecureSpec, Gw!Spec

-----------------------------------------------------------------------------
(* What the agreement of the tables says. *)

\* Consumption and admission are one transaction, for every operation.
LEMMA AgreementConsumes == SecureInv => ConsumedIffAdmitted
<1> SUFFICES ASSUME SecureInv, NEW o \in RequestId
             PROVE  Cardinality(AuthorizationsOf(o)) =
                       IF intents[o].state \in {"absent", "denied"} THEN 0 ELSE 1
  BY DEF ConsumedIffAdmitted
<1>1. CASE intents[o].state \in {"absent", "denied"}
  <2>1. AuthorizationsOf(o) = {}
    BY <1>1 DEF AuthorizationsOf, SecureInv, TablesAgree, Admitted
  <2> QED
    BY <1>1, <2>1, FS_EmptySet
<1>2. CASE intents[o].state \notin {"absent", "denied"}
  <2>1. PICK a \in authorizations : a.request = o
    BY <1>2 DEF SecureInv, TablesAgree, Admitted
  <2>2. AuthorizationsOf(o) = {a}
    BY <2>1 DEF AuthorizationsOf, SecureInv, TablesAgree
  <2> QED
    BY <1>2, <2>2, FS_Singleton
<1> QED
  BY <1>1, <1>2

\* The called operations under c are no more than the authorizations charged to c.
LEMMA CalledAreCharged ==
  ASSUME SecureInv, NEW c \in Capability,
         NEW S, S = {o \in RequestId : invocations[o] > 0 /\
                        \E a \in AuthorizationsOf(o) : ancestry[a.capability][c] # None}
  PROVE  /\ IsFiniteSet(S) /\ IsFiniteSet(ChargedTo(c))
         /\ Cardinality(S) <= Cardinality(ChargedTo(c))
<1> DEFINE T == ChargedTo(c)
           row == [o \in S |-> CHOOSE a \in AuthorizationsOf(o) : ancestry[a.capability][c] # None]
<1>1. IsFiniteSet(T)
  <2>1. T \subseteq authorizations /\ IsFiniteSet(authorizations)
    BY DEF ChargedTo, SecureInv, Core, AuthorizationsOK
  <2> QED
    BY <2>1, FS_Subset
<1>2. \A o \in S : row[o] \in T /\ row[o].request = o
  <2> SUFFICES ASSUME NEW o \in S PROVE row[o] \in T /\ row[o].request = o
    OBVIOUS
  <2>1. row[o] \in AuthorizationsOf(o) /\ ancestry[row[o].capability][c] # None
    OBVIOUS
  <2> QED
    BY <2>1 DEF AuthorizationsOf, ChargedTo, Ancestors
<1>3. row \in Injection(S, T)
  <2>1. row \in [S -> T]
    BY <1>2
  <2> HIDE DEF T, row
  <2>2. \A o, p \in S : row[o] = row[p] => o = p
    BY <1>2
  <2> QED
    BY <2>1, <2>2 DEF Injection, IsInjective
<1> HIDE DEF T, row
<1>4. IsFiniteSet(S) /\ Cardinality(S) <= Cardinality(T)
  BY <1>1, <1>3, FS_Injection
<1> QED
  BY <1>1, <1>4 DEF T

\* The provider is called within the authority that was issued.
LEMMA ChargesBoundCalls == SecureInv => CallsWithinAuthority
<1> SUFFICES ASSUME SecureInv, NEW c \in Capability, status[c] # "absent", grant[c].max_uses # None,
                    NEW S, S = {o \in RequestId : invocations[o] > 0 /\
                                  \E a \in AuthorizationsOf(o) : ancestry[a.capability][c] # None}
             PROVE  Cardinality(S) <= grant[c].max_uses
  BY DEF CallsWithinAuthority
<1>1. uses[c] + Cardinality(ChargedTo(c)) = grant[c].max_uses
  BY DEF SecureInv, Books, UsesConserved, Issued
<1>2. uses[c] \in Nat
  BY DEF SecureInv, Core, TypeOK, RowsOK, Optional
<1>3. /\ IsFiniteSet(S) /\ IsFiniteSet(ChargedTo(c))
      /\ Cardinality(S) <= Cardinality(ChargedTo(c))
  BY CalledAreCharged
<1>4. Cardinality(S) \in Nat /\ Cardinality(ChargedTo(c)) \in Nat
  BY <1>3, FS_CardinalityType
<1> QED
  BY <1>1, <1>2, <1>3, <1>4

\* For any callers and any interleaving: an operation has exactly one consumed
\* authorization when it was admitted and none otherwise.
THEOREM ConsumptionIsAdmission == SecureSpec => []ConsumedIffAdmitted
BY AgreementConsumes, SecureInvariance, PTL

\* End to end, for any delegation tree: no more provider calls than uses issued.
THEOREM CallsStayWithinAuthority == SecureSpec => []CallsWithinAuthority
BY ChargesBoundCalls, SecureInvariance, PTL

\* The conservation of allowances and the finality of denials, proved of the
\* service alone, survive its composition with the gateways.
THEOREM AuthoritySurvivesComposition ==
  SecureSpec => [](AllowanceConserved /\ DenialIsFinal) /\ AuthorityOnlyShrinks
BY ImplementsService, AllowanceIsConserved, DenialsAreFinal, ShrinkingAuthority, PTL
=============================================================================
