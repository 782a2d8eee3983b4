--------------------------- MODULE ComponentProofs ---------------------------
(***************************************************************************)
(* What is proved of the components that stand alone, each for every value *)
(* of its constants: the validator of the agent's records (AgentStream),   *)
(* the namespace sandbox (Sandbox), the CRIU laboratory (CriuCompat),      *)
(* the process collector (ProcCollector), the semantic diff (SemanticDiff) *)
(* and the trajectory export (TrajectoryExport).                           *)
(***************************************************************************)
EXTENDS AgentStream, Sandbox, CriuCompat, ProcCollector, SemanticDiff, TrajectoryExport,
        FiniteSetTheorems, SequenceTheorems, WellFoundedInduction, TLAPS

-----------------------------------------------------------------------------
(* Smallest elements, and sequences that grow. *)

\* A set of numbers that is not empty has a smallest element.
LEMMA SmallestExists ==
  ASSUME NEW S \in SUBSET Nat, S # {}
  PROVE  Min(S) \in S /\ \A y \in S : Min(S) <= y
<1> DEFINE R == OpToRel(<, Nat)
<1>1. PICK n \in S : \A m \in S : ~(<<m, n>> \in R)
  <2>1. IsWellFoundedOn(R, Nat)
    BY NatLessThanWellFounded
  <2> HIDE DEF R
  <2> QED
    BY <2>1, WFMin
<1>2. R = {ss \in Nat \X Nat : ss[1] < ss[2]}
  BY Zenon DEF OpToRel
<1> HIDE DEF R
<1>3. \A x, y \in Nat : x < y => <<x, y>> \in R
  BY <1>2
<1>4. \A m \in S : m \in Nat /\ n \in Nat /\ ~(m < n)
  BY <1>1, <1>3
<1>5. \A m \in S : n <= m
  BY <1>4
<1> QED
  BY <1>5 DEF Min

IsSeq(s) == \E S : s \in Seq(S)

\* Whatever is appended to a sequence, it grows by that.
LEMMA AppendAny ==
  ASSUME NEW s, IsSeq(s), NEW e
  PROVE  /\ IsSeq(Append(s, e)) /\ Len(s) \in Nat /\ Len(Append(s, e)) = Len(s) + 1
         /\ DOMAIN s = 1..Len(s) /\ DOMAIN Append(s, e) = 1..(Len(s) + 1)
         /\ \A i \in 1..Len(s) : Append(s, e)[i] = s[i]
         /\ Append(s, e)[Len(s) + 1] = e
<1>1. PICK S : s \in Seq(S)
  BY DEF IsSeq
<1> DEFINE T == S \cup {e}
<1>2. s \in Seq(T)
  <2>1. Len(s) \in Nat /\ DOMAIN s = 1..Len(s) /\ \A i \in 1..Len(s) : s[i] \in S
    BY <1>1, LenProperties, ElementOfSeq
  <2>2. s \in [1..Len(s) -> T]
    BY <1>1, <2>1
  <2> QED
    BY <2>1, <2>2
<1>3. e \in T
  OBVIOUS
<1> HIDE DEF T
<1>4. /\ Append(s, e) \in Seq(T) /\ Len(Append(s, e)) = Len(s) + 1
      /\ \A i \in 1..Len(s) : Append(s, e)[i] = s[i]
      /\ Append(s, e)[Len(s) + 1] = e
  BY <1>2, <1>3, AppendProperties
<1>5. Len(s) \in Nat /\ DOMAIN s = 1..Len(s) /\ DOMAIN Append(s, e) = 1..Len(Append(s, e))
  BY <1>2, <1>4, LenProperties
<1> QED
  BY <1>4, <1>5 DEF IsSeq

(***************************************************************************)
(* AgentStream: the validator of the agent boundary protocol.              *)
(***************************************************************************)

\* What WellFormed asks of the record s[j].
GoodAt(s, j) ==
    /\ IF j = 1 THEN s[j].kind = "agent.start" /\ s[j].identity = Assigned
                ELSE s[j].kind # "agent.start"
    /\ \A i \in Earlier(s, j) :
          /\ s[i].sequence < s[j].sequence
          /\ s[i].kind # "agent.completion"
          /\ s[i].kind = "context.update" /\ s[j].kind = "context.update"
                => s[i].revision < s[j].revision
          /\ Asks(s, i) /\ s[j].kind = s[i].kind => s[i].id # s[j].id
    /\ IsAnswer(s, j) =>
          \E i \in Earlier(s, j) :
             /\ Answers(s, j, i)
             /\ \A k \in (i + 1)..(j - 1) : ~Answers(s, k, i)
    /\ s[j].kind \in {"safe_point", "agent.completion"} => QuietAt(s, j)
    /\ s[j].kind = "safe_point" => NamesLatestContext(s, j)

\* The requests or calls of a kind, as the records tell them: made at all, and
\* not answered yet.
Unanswered(s, i) == \A k \in (i + 1)..Len(s) : ~Answers(s, k, i)
Made(s, which) == {s[i].id : i \in {k \in 1..Len(s) : s[k].kind = which}}
Pending(s, which) == {s[i].id : i \in {k \in 1..Len(s) : s[k].kind = which /\ Unanswered(s, k)}}

\* The validator's state is what the records say, each variable by itself.
StartedMatches == started \in BOOLEAN /\ (started <=> Len(log) > 0)
SequenceMatches == last_sequence = IF Len(log) = 0 THEN -1 ELSE log[Len(log)].sequence
CompletedMatches ==
    completed \in BOOLEAN /\ (completed <=> \E i \in 1..Len(log) : log[i].kind = "agent.completion")
RevisionMatches ==
    /\ last_context_revision \in Int
    /\ \A i \in 1..Len(log) : log[i].kind = "context.update" => log[i].revision <= last_context_revision
    /\ \/ last_context_revision = -1
       \/ \E i \in 1..Len(log) : log[i].kind = "context.update" /\ log[i].revision = last_context_revision
HashMatches ==
    \/ /\ current_context_hash = NoHash
       /\ \A i \in 1..Len(log) : log[i].kind # "context.update"
    \/ \E i \in 1..Len(log) :
          /\ log[i].kind = "context.update" /\ log[i].hash = current_context_hash
          /\ \A k \in (i + 1)..Len(log) : log[k].kind # "context.update"
ModelMatches ==
    /\ seen_model_requests = Made(log, "model.request")
    /\ pending_model_requests = Pending(log, "model.request")
ToolsMatch ==
    /\ seen_tool_calls = Made(log, "tool.call")
    /\ pending_tool_calls = Pending(log, "tool.call")

StreamInv ==
    /\ log \in Seq(Envelope)
    /\ StartedMatches /\ SequenceMatches /\ CompletedMatches /\ RevisionMatches /\ HashMatches
    /\ ModelMatches /\ ToolsMatch
    /\ WellFormed(log)

-----------------------------------------------------------------------------
\* A record looks back only.
LEMMA GoodLooksBack ==
  ASSUME NEW s, NEW t, NEW j \in Nat \ {0}, \A i \in 1..j : s[i] = t[i]
  PROVE  GoodAt(s, j) <=> GoodAt(t, j)
<1>1. s[j] = t[j]
  OBVIOUS
<1>2. \A i \in Earlier(s, j) : s[i] = t[i]
  BY DEF Earlier
<1>3. Earlier(s, j) = Earlier(t, j)
  BY DEF Earlier
<1>4. \A i \in Earlier(s, j) : \A k \in (i + 1)..(j - 1) : s[k] = t[k] /\ (Answers(s, k, i) <=> Answers(t, k, i))
  BY <1>2 DEF Earlier, Answers
<1>5. \A i \in Earlier(s, j) : Answers(s, j, i) <=> Answers(t, j, i)
  BY <1>1, <1>2 DEF Answers
<1>6. QuietAt(s, j) <=> QuietAt(t, j)
  BY <1>2, <1>3, <1>4 DEF QuietAt, Asks
<1>7. NamesLatestContext(s, j) <=> NamesLatestContext(t, j)
  BY <1>1, <1>2, <1>3, <1>4 DEF NamesLatestContext
<1>8. (IsAnswer(s, j) => \E i \in Earlier(s, j) :
             /\ Answers(s, j, i)
             /\ \A k \in (i + 1)..(j - 1) : ~Answers(s, k, i))
      <=> (IsAnswer(t, j) => \E i \in Earlier(t, j) :
             /\ Answers(t, j, i)
             /\ \A k \in (i + 1)..(j - 1) : ~Answers(t, k, i))
  BY <1>1, <1>3, <1>4, <1>5 DEF IsAnswer
<1>9. \A i \in Earlier(s, j) : Asks(s, i) <=> Asks(t, i)
  BY <1>2 DEF Asks
<1> QED
  BY <1>1, <1>2, <1>3, <1>6, <1>7, <1>8, <1>9 DEF GoodAt

\* A stream grows by one record: what is there stays, and the rest is to be good.
LEMMA AppendGood ==
  ASSUME NEW s \in Seq(Envelope), NEW e \in Envelope
  PROVE  /\ Append(s, e) \in Seq(Envelope) /\ Len(Append(s, e)) = Len(s) + 1
         /\ \A i \in 1..Len(s) : Append(s, e)[i] = s[i]
         /\ Append(s, e)[Len(s) + 1] = e
         /\ WellFormed(Append(s, e)) <=> WellFormed(s) /\ GoodAt(Append(s, e), Len(s) + 1)
<1> DEFINE n == Len(s)
           t == Append(s, e)
<1>1. n \in Nat /\ DOMAIN s = 1..n /\ t \in Seq(Envelope) /\ Len(t) = n + 1 /\ DOMAIN t = 1..(n + 1)
      /\ (\A i \in 1..n : t[i] = s[i]) /\ t[n + 1] = e
  BY AppendProperties, LenProperties
<1> HIDE DEF n, t
<1>2. \A j \in 1..n : GoodAt(t, j) <=> GoodAt(s, j)
  <2> SUFFICES ASSUME NEW j \in 1..n PROVE GoodAt(t, j) <=> GoodAt(s, j)
    OBVIOUS
  <2>1. j \in Nat \ {0} /\ \A i \in 1..j : t[i] = s[i]
    BY <1>1
  <2> QED
    BY <2>1, GoodLooksBack
<1>3. WellFormed(t) <=> \A j \in 1..(n + 1) : GoodAt(t, j)
  BY <1>1 DEF WellFormed, GoodAt
<1>4. WellFormed(s) <=> \A j \in 1..n : GoodAt(s, j)
  BY <1>1 DEF WellFormed, GoodAt
<1>5. \A j \in 1..(n + 1) : j \in 1..n \/ j = n + 1
  BY <1>1
<1>6. 1..n \subseteq 1..(n + 1) /\ n + 1 \in 1..(n + 1)
  BY <1>1
<1>7. WellFormed(t) <=> WellFormed(s) /\ GoodAt(t, n + 1)
  BY <1>2, <1>3, <1>4, <1>5, <1>6
<1> QED
  BY <1>1, <1>7 DEF n, t

-----------------------------------------------------------------------------
(* Accepting is being good at the end of the records. *)

\* What the fields of a record are.
LEMMA EnvelopeFields ==
  ASSUME NEW e \in Envelope
  PROVE  /\ e.sequence \in Nat
         /\ e.kind \in {"agent.start", "context.update", "model.request", "model.response",
                        "tool.call", "tool.result", "safe_point", "agent.completion"}
         /\ e.kind = "context.update" => e.revision \in Nat /\ e.hash \in Hash
         /\ e.kind = "safe_point" => e.hash \in Hash
  BY MaxType DEF Envelope, Sequence, Revision

\* The last record has the largest sequence number, which the validator keeps.
LEMMA SequenceRises ==
  ASSUME StreamInv
  PROVE  \A i \in 1..Len(log) : log[i].sequence <= last_sequence
<1>0. PICK n : n = Len(log)
  OBVIOUS
<1>1. n \in Nat /\ DOMAIN log = 1..n /\ \A i \in 1..n : log[i] \in Envelope
  BY <1>0, LenProperties, ElementOfSeq DEF StreamInv
<1>2. \A i \in 1..n : log[i].sequence \in Nat
  BY <1>1, EnvelopeFields
<1> SUFFICES ASSUME NEW i \in 1..n PROVE log[i].sequence <= last_sequence
  BY <1>0
<1>3. n > 0 /\ last_sequence = log[n].sequence
  BY <1>0, <1>1 DEF StreamInv, SequenceMatches
<1>4. CASE i = n
  BY <1>1, <1>2, <1>3, <1>4
<1>5. CASE i # n
  <2>0. i \in 1..(n - 1) /\ n \in 1..n
    BY <1>1, <1>3, <1>5
  <2>1. i \in Earlier(log, n) /\ n \in DOMAIN log
    BY <1>1, <2>0 DEF Earlier
  <2>2. log[i].sequence < log[n].sequence
    BY <2>1 DEF StreamInv, WellFormed
  <2> QED
    BY <1>1, <1>2, <1>3, <2>2
<1> QED
  BY <1>4, <1>5

\* The clauses of GoodAt for a record e after the first n of t.
Rises(t, n, e) == \A i \in 1..n : t[i].sequence < e.sequence
Goes(t, n) == \A i \in 1..n : t[i].kind # "agent.completion"
Newer(t, n, e) == \A i \in 1..n : t[i].kind = "context.update" => t[i].revision < e.revision
Fresh(t, n, e, which) == \A i \in 1..n : t[i].kind = which => t[i].id # e.id
Waits(t, n, e, which) ==
    \E i \in 1..n : /\ t[i].kind = which /\ t[i].id = e.id
                    /\ \A k \in (i + 1)..n : ~Answers(t, k, i)

\* GoodAt by the kind of the record.
LEMMA GoodByKind ==
  ASSUME NEW t, NEW n \in Nat, NEW e, t[n + 1] = e
  PROVE  GoodAt(t, n + 1) <=>
           /\ n = 0 => e.kind = "agent.start" /\ e.identity = Assigned
           /\ n # 0 => e.kind # "agent.start"
           /\ Rises(t, n, e) /\ Goes(t, n)
           /\ e.kind = "context.update" => Newer(t, n, e)
           /\ e.kind = "model.request" => Fresh(t, n, e, "model.request")
           /\ e.kind = "tool.call" => Fresh(t, n, e, "tool.call")
           /\ e.kind = "model.response" => Waits(t, n, e, "model.request")
           /\ e.kind = "tool.result" => Waits(t, n, e, "tool.call")
           /\ e.kind \in {"safe_point", "agent.completion"} => QuietAt(t, n + 1)
           /\ e.kind = "safe_point" => NamesLatestContext(t, n + 1)
<1>1. PICK m : m = n + 1
  OBVIOUS
<1>2. t[m] = e /\ Earlier(t, m) = 1..n /\ m - 1 = n /\ (m = 1 <=> n = 0)
  BY <1>1 DEF Earlier
<1>3. (IF m = 1 THEN t[m].kind = "agent.start" /\ t[m].identity = Assigned
                ELSE t[m].kind # "agent.start")
        <=> /\ n = 0 => e.kind = "agent.start" /\ e.identity = Assigned
            /\ n # 0 => e.kind # "agent.start"
  BY <1>2
<1>4. (\A i \in Earlier(t, m) :
          /\ t[i].sequence < t[m].sequence
          /\ t[i].kind # "agent.completion"
          /\ t[i].kind = "context.update" /\ t[m].kind = "context.update"
                => t[i].revision < t[m].revision
          /\ Asks(t, i) /\ t[m].kind = t[i].kind => t[i].id # t[m].id)
        <=> /\ Rises(t, n, e) /\ Goes(t, n)
            /\ e.kind = "context.update" => Newer(t, n, e)
            /\ e.kind = "model.request" => Fresh(t, n, e, "model.request")
            /\ e.kind = "tool.call" => Fresh(t, n, e, "tool.call")
  BY <1>2 DEF Rises, Goes, Newer, Fresh, Asks
<1>5. (IsAnswer(t, m) => \E i \in Earlier(t, m) :
             /\ Answers(t, m, i)
             /\ \A k \in (i + 1)..(m - 1) : ~Answers(t, k, i))
        <=> /\ e.kind = "model.response" => Waits(t, n, e, "model.request")
            /\ e.kind = "tool.result" => Waits(t, n, e, "tool.call")
  <2>1. \A i : Answers(t, m, i) <=>
           \/ t[i].kind = "model.request" /\ e.kind = "model.response" /\ e.id = t[i].id
           \/ t[i].kind = "tool.call" /\ e.kind = "tool.result" /\ e.id = t[i].id
    BY <1>2 DEF Answers
  <2>2. IsAnswer(t, m) <=> e.kind \in {"model.response", "tool.result"}
    BY <1>2 DEF IsAnswer
  <2> QED
    BY <1>2, <2>1, <2>2 DEF Waits
<1>6. /\ t[m].kind \in {"safe_point", "agent.completion"} => QuietAt(t, m)
      /\ t[m].kind = "safe_point" => NamesLatestContext(t, m)
      <=> /\ e.kind \in {"safe_point", "agent.completion"} => QuietAt(t, n + 1)
          /\ e.kind = "safe_point" => NamesLatestContext(t, n + 1)
  BY <1>1, <1>2
<1> QED
  BY <1>1, <1>3, <1>4, <1>5, <1>6, Zenon DEF GoodAt

\* Each of the validator's tests is one clause of what a stream may have next.
LEMMA TestsAreClauses ==
  ASSUME StreamInv, NEW e \in Envelope, NEW t, NEW n, n = Len(log),
         \A i \in 1..n : t[i] = log[i], t[n + 1] = e
  PROVE  /\ n > 0 => (e.sequence > last_sequence <=> Rises(t, n, e))
         /\ ~completed <=> Goes(t, n)
         /\ e.kind = "context.update" => (e.revision > last_context_revision <=> Newer(t, n, e))
         /\ e.id \notin seen_model_requests <=> Fresh(t, n, e, "model.request")
         /\ e.id \notin seen_tool_calls <=> Fresh(t, n, e, "tool.call")
         /\ e.id \in pending_model_requests <=> Waits(t, n, e, "model.request")
         /\ e.id \in pending_tool_calls <=> Waits(t, n, e, "tool.call")
         /\ QuietAt(t, n + 1) <=> Idle
         /\ e.kind = "safe_point" =>
               (NamesLatestContext(t, n + 1) <=> e.hash = current_context_hash)
<1>1. n \in Nat /\ DOMAIN log = 1..n /\ \A i \in 1..n : log[i] \in Envelope
  BY LenProperties, ElementOfSeq DEF StreamInv
<1>2. \A i \in 1..n : /\ log[i].sequence \in Nat
                      /\ log[i].kind = "context.update" => log[i].revision \in Nat /\ log[i].hash \in Hash
  BY <1>1, EnvelopeFields
<1>3. \A i \in 1..n : \A k \in (i + 1)..n : k \in 1..n /\ (Answers(t, k, i) <=> Answers(log, k, i))
  BY <1>1 DEF Answers
<1>4. n > 0 => (e.sequence > last_sequence <=> \A i \in 1..n : t[i].sequence < e.sequence)
  <2> SUFFICES ASSUME n > 0
               PROVE  e.sequence > last_sequence <=> \A i \in 1..n : t[i].sequence < e.sequence
    OBVIOUS
  <2>1. n \in 1..n /\ last_sequence = log[n].sequence
    BY <1>1 DEF StreamInv, SequenceMatches
  <2>2. e.sequence \in Nat /\ last_sequence \in Nat
    BY <1>2, <2>1, EnvelopeFields
  <2> QED
    BY <1>2, <2>1, <2>2, SequenceRises
<1>5. ~completed <=> \A i \in 1..n : t[i].kind # "agent.completion"
  BY DEF StreamInv, CompletedMatches
<1>6. ASSUME e.kind = "context.update"
      PROVE  e.revision > last_context_revision
                <=> \A i \in 1..n : t[i].kind = "context.update" => t[i].revision < e.revision
  <2>1. e.revision \in Nat
    BY <1>6, EnvelopeFields
  <2> QED
    BY <1>2, <2>1 DEF StreamInv, RevisionMatches
<1>7. /\ e.id \notin seen_model_requests
               <=> \A i \in 1..n : t[i].kind = "model.request" => t[i].id # e.id
      /\ e.id \notin seen_tool_calls
               <=> \A i \in 1..n : t[i].kind = "tool.call" => t[i].id # e.id
  BY DEF StreamInv, ModelMatches, ToolsMatch, Made
<1>8. e.id \in pending_model_requests
               <=> \E i \in 1..n : /\ t[i].kind = "model.request" /\ t[i].id = e.id
                                   /\ \A k \in (i + 1)..n : ~Answers(t, k, i)
  BY <1>3 DEF StreamInv, ModelMatches, Pending, Unanswered
<1>9. e.id \in pending_tool_calls
               <=> \E i \in 1..n : /\ t[i].kind = "tool.call" /\ t[i].id = e.id
                                   /\ \A k \in (i + 1)..n : ~Answers(t, k, i)
  BY <1>3 DEF StreamInv, ToolsMatch, Pending, Unanswered
<1>10. QuietAt(t, n + 1) <=> Idle
  <2>1. QuietAt(t, n + 1) <=> \A i \in 1..n : Asks(log, i) => ~Unanswered(log, i)
    BY <1>1, <1>3 DEF QuietAt, Earlier, Asks, Unanswered
  <2>2. pending_model_requests = {} <=> \A i \in 1..n : log[i].kind = "model.request" => ~Unanswered(log, i)
    BY DEF StreamInv, ModelMatches, Pending
  <2>3. pending_tool_calls = {} <=> \A i \in 1..n : log[i].kind = "tool.call" => ~Unanswered(log, i)
    BY DEF StreamInv, ToolsMatch, Pending
  <2> QED
    BY <2>1, <2>2, <2>3 DEF Idle, Asks
<1>11. ASSUME e.kind = "safe_point"
       PROVE  NamesLatestContext(t, n + 1) <=> e.hash = current_context_hash
  <2>1. e.hash \in Hash
    BY <1>11, EnvelopeFields
  <2>2. NamesLatestContext(t, n + 1) <=>
          \E i \in 1..n : /\ log[i].kind = "context.update" /\ log[i].hash = e.hash
                          /\ \A k \in (i + 1)..n : log[k].kind # "context.update"
    BY <1>1, <1>3 DEF NamesLatestContext, Earlier
  <2>3. CASE /\ current_context_hash = NoHash
             /\ \A i \in 1..n : log[i].kind # "context.update"
    BY <2>1, <2>2, <2>3, NoHashType DEF NoHash
  <2>4. CASE \E i \in 1..n :
               /\ log[i].kind = "context.update" /\ log[i].hash = current_context_hash
               /\ \A k \in (i + 1)..n : log[k].kind # "context.update"
    <3>1. PICK i \in 1..n :
               /\ log[i].kind = "context.update" /\ log[i].hash = current_context_hash
               /\ \A k \in (i + 1)..n : log[k].kind # "context.update"
      BY <2>4
    <3>2. \A j \in 1..n : /\ log[j].kind = "context.update"
                          /\ \A k \in (j + 1)..n : log[k].kind # "context.update"
                          => j = i
      BY <1>1, <3>1
    <3> QED
      BY <2>2, <3>1, <3>2
  <2> QED
    BY <2>3, <2>4 DEF StreamInv, HashMatches
<1> QED
  BY <1>4, <1>5, <1>6, <1>7, <1>8, <1>9, <1>10, <1>11 DEF Rises, Goes, Newer, Fresh, Waits

\* The validator accepts a record exactly if it is good after the others.
LEMMA AcceptsGood ==
  ASSUME StreamInv, NEW e \in Envelope
  PROVE  Acceptable(e) <=> GoodAt(Append(log, e), Len(log) + 1)
<1>1. PICK t, n : t = Append(log, e) /\ n = Len(log)
  OBVIOUS
<1>2. log \in Seq(Envelope) /\ n \in Nat
  BY <1>1, LenProperties DEF StreamInv
<1>3. (\A i \in 1..n : t[i] = log[i]) /\ t[n + 1] = e
  BY <1>1, <1>2, AppendGood
<1>4. started <=> n > 0
  BY <1>1 DEF StreamInv, StartedMatches
<1>5. /\ n > 0 => (e.sequence > last_sequence <=> Rises(t, n, e))
      /\ ~completed <=> Goes(t, n)
      /\ e.kind = "context.update" => (e.revision > last_context_revision <=> Newer(t, n, e))
      /\ e.id \notin seen_model_requests <=> Fresh(t, n, e, "model.request")
      /\ e.id \notin seen_tool_calls <=> Fresh(t, n, e, "tool.call")
      /\ e.id \in pending_model_requests <=> Waits(t, n, e, "model.request")
      /\ e.id \in pending_tool_calls <=> Waits(t, n, e, "tool.call")
      /\ QuietAt(t, n + 1) <=> Idle
      /\ e.kind = "safe_point" =>
            (NamesLatestContext(t, n + 1) <=> e.hash = current_context_hash)
  BY <1>1, <1>3, TestsAreClauses
<1>6. e.kind \in {"agent.start", "context.update", "model.request", "model.response",
                  "tool.call", "tool.result", "safe_point", "agent.completion"}
  BY EnvelopeFields
<1>8. GoodAt(t, n + 1) <=>
           /\ n = 0 => e.kind = "agent.start" /\ e.identity = Assigned
           /\ n # 0 => e.kind # "agent.start"
           /\ Rises(t, n, e) /\ Goes(t, n)
           /\ e.kind = "context.update" => Newer(t, n, e)
           /\ e.kind = "model.request" => Fresh(t, n, e, "model.request")
           /\ e.kind = "tool.call" => Fresh(t, n, e, "tool.call")
           /\ e.kind = "model.response" => Waits(t, n, e, "model.request")
           /\ e.kind = "tool.result" => Waits(t, n, e, "tool.call")
           /\ e.kind \in {"safe_point", "agent.completion"} => QuietAt(t, n + 1)
           /\ e.kind = "safe_point" => NamesLatestContext(t, n + 1)
  BY <1>2, <1>3, GoodByKind, ZenonT(60)
<1>7. CASE n > 0
  <2>1. ~StartOK(e) /\ (FollowsOK(e) <=> Goes(t, n) /\ Rises(t, n, e))
    BY <1>4, <1>5, <1>7 DEF StartOK, FollowsOK
  <2>2. /\ ContextOK(e) <=> e.kind = "context.update" /\ Newer(t, n, e)
        /\ ModelRequestOK(e) <=> e.kind = "model.request" /\ Fresh(t, n, e, "model.request")
        /\ ModelResponseOK(e) <=> e.kind = "model.response" /\ Waits(t, n, e, "model.request")
        /\ ToolCallOK(e) <=> e.kind = "tool.call" /\ Fresh(t, n, e, "tool.call")
        /\ ToolResultOK(e) <=> e.kind = "tool.result" /\ Waits(t, n, e, "tool.call")
        /\ SafePointOK(e) <=> e.kind = "safe_point" /\ NamesLatestContext(t, n + 1) /\ QuietAt(t, n + 1)
        /\ CompletionOK(e) <=> e.kind = "agent.completion" /\ QuietAt(t, n + 1)
    BY <1>5 DEF ContextOK, ModelRequestOK, ModelResponseOK, ToolCallOK, ToolResultOK,
                SafePointOK, CompletionOK
  <2>3. GoodAt(t, n + 1) <=>
           /\ e.kind # "agent.start"
           /\ Rises(t, n, e) /\ Goes(t, n)
           /\ e.kind = "context.update" => Newer(t, n, e)
           /\ e.kind = "model.request" => Fresh(t, n, e, "model.request")
           /\ e.kind = "tool.call" => Fresh(t, n, e, "tool.call")
           /\ e.kind = "model.response" => Waits(t, n, e, "model.request")
           /\ e.kind = "tool.result" => Waits(t, n, e, "tool.call")
           /\ e.kind \in {"safe_point", "agent.completion"} => QuietAt(t, n + 1)
           /\ e.kind = "safe_point" => NamesLatestContext(t, n + 1)
    BY <1>7, <1>8
  <2>4. Acceptable(e) <=>
           /\ Goes(t, n) /\ Rises(t, n, e)
           /\ \/ e.kind = "context.update" /\ Newer(t, n, e)
              \/ e.kind = "model.request" /\ Fresh(t, n, e, "model.request")
              \/ e.kind = "model.response" /\ Waits(t, n, e, "model.request")
              \/ e.kind = "tool.call" /\ Fresh(t, n, e, "tool.call")
              \/ e.kind = "tool.result" /\ Waits(t, n, e, "tool.call")
              \/ e.kind = "safe_point" /\ NamesLatestContext(t, n + 1) /\ QuietAt(t, n + 1)
              \/ e.kind = "agent.completion" /\ QuietAt(t, n + 1)
    BY <2>1, <2>2 DEF Acceptable
  <2> QED
    BY <1>1, <1>6, <2>3, <2>4
<1>9. CASE n = 0
  <2>1. ~FollowsOK(e) /\ (StartOK(e) <=> Goes(t, n) /\ e.kind = "agent.start" /\ e.identity = Assigned)
    BY <1>4, <1>5, <1>9 DEF StartOK, FollowsOK
  <2>2. Rises(t, n, e)
    BY <1>9 DEF Rises
  <2> QED
    BY <1>1, <1>2, <1>3, <1>9, <2>1, <2>2, <1>8 DEF Acceptable
<1> QED
  BY <1>2, <1>7, <1>9

-----------------------------------------------------------------------------
(* A record that is accepted keeps the invariant. *)

Reply(which) == IF which = "model.request" THEN "model.response" ELSE "tool.result"

\* What the records tell after one more of them.
Told(s, t, e, which) ==
    /\ e.kind = which => /\ Made(t, which) = Made(s, which) \cup {e.id}
                        /\ Pending(t, which) = Pending(s, which) \cup {e.id}
    /\ e.kind # which => Made(t, which) = Made(s, which)
    /\ e.kind = Reply(which) => Pending(t, which) = Pending(s, which) \ {e.id}
    /\ e.kind \notin {which, Reply(which)} => Pending(t, which) = Pending(s, which)

LEMMA ToldAfterAppend ==
  ASSUME NEW s \in Seq(Envelope), NEW e \in Envelope, NEW t, t = Append(s, e),
         NEW which \in {"model.request", "tool.call"}
  PROVE  Told(s, t, e, which)
<1>1. PICK n : n = Len(s)
  OBVIOUS
<1>2. n \in Nat /\ Len(t) = n + 1 /\ (\A i \in 1..n : t[i] = s[i]) /\ t[n + 1] = e
  BY <1>1, AppendGood, LenProperties
<1>3. \A i \in 1..(n + 1) : i \in 1..n \/ i = n + 1
  BY <1>2
<1>4. 1..n \subseteq 1..(n + 1) /\ n + 1 \in 1..(n + 1) /\ n + 1 \notin 1..n
  BY <1>2
<1>5. \A i \in 1..n : t[i].kind = which =>
         (Answers(t, n + 1, i) <=> e.kind = Reply(which) /\ e.id = t[i].id)
  BY <1>2 DEF Answers, Reply
<1>6. \A i \in 1..n : s[i].kind = which =>
         (Unanswered(t, i) <=> Unanswered(s, i) /\ ~(e.kind = Reply(which) /\ e.id = s[i].id))
  <2> SUFFICES ASSUME NEW i \in 1..n, s[i].kind = which
               PROVE  Unanswered(t, i) <=> Unanswered(s, i) /\ ~(e.kind = Reply(which) /\ e.id = s[i].id)
    OBVIOUS
  <2>1. \A k \in (i + 1)..n : k \in 1..n /\ (Answers(t, k, i) <=> Answers(s, k, i))
    BY <1>2 DEF Answers
  <2>2. \A k \in (i + 1)..(n + 1) : k \in (i + 1)..n \/ k = n + 1
    BY <1>2
  <2>3. (i + 1)..n \subseteq (i + 1)..(n + 1) /\ n + 1 \in (i + 1)..(n + 1)
    BY <1>2
  <2>4. Unanswered(t, i) <=> (\A k \in (i + 1)..n : ~Answers(t, k, i)) /\ ~Answers(t, n + 1, i)
    BY <1>2, <2>2, <2>3 DEF Unanswered
  <2> QED
    BY <1>1, <1>2, <1>5, <2>1, <2>4 DEF Unanswered
<1>7. Unanswered(t, n + 1)
  BY <1>2 DEF Unanswered
<1>8. Reply(which) # which
  BY DEF Reply
<1>9. \A x : x \in Made(t, which) <=> x \in Made(s, which) \/ (e.kind = which /\ x = e.id)
  BY <1>1, <1>2, <1>3, <1>4 DEF Made
<1>10. \A x : x \in Pending(t, which) <=>
          \/ x \in Pending(s, which) /\ ~(e.kind = Reply(which) /\ x = e.id)
          \/ e.kind = which /\ x = e.id
  <2>1. \A x : x \in Pending(t, which) <=>
          \E i \in 1..(n + 1) : t[i].kind = which /\ Unanswered(t, i) /\ x = t[i].id
    BY <1>2 DEF Pending
  <2>2. \A x : x \in Pending(s, which) <=>
          \E i \in 1..n : s[i].kind = which /\ Unanswered(s, i) /\ x = s[i].id
    BY <1>1 DEF Pending
  <2>3. \A x : x \in Pending(t, which) <=>
          \/ \E i \in 1..n : t[i].kind = which /\ Unanswered(t, i) /\ x = t[i].id
          \/ e.kind = which /\ x = e.id
    BY <1>2, <1>3, <1>4, <1>7, <2>1
  <2> QED
    BY <1>2, <1>6, <2>2, <2>3
<1> QED
  BY <1>8, <1>9, <1>10 DEF Told

\* What every accepted record keeps.
LEMMA RecordedKeeps ==
  ASSUME StreamInv, NEW e \in Envelope, Acceptable(e), Recorded(e)
  PROVE  /\ log' \in Seq(Envelope) /\ WellFormed(log') /\ SequenceMatches'
         /\ Len(log) \in Nat /\ Len(log') = Len(log) + 1
         /\ \A i \in 1..Len(log) : log'[i] = log[i]
         /\ log'[Len(log) + 1] = e
<1>1. log \in Seq(Envelope) /\ log' = Append(log, e) /\ last_sequence' = e.sequence /\ WellFormed(log)
  BY DEF StreamInv, Recorded
<1>2. /\ log' \in Seq(Envelope) /\ Len(log') = Len(log) + 1 /\ Len(log) \in Nat
      /\ \A i \in 1..Len(log) : log'[i] = log[i]
      /\ log'[Len(log) + 1] = e
      /\ WellFormed(log')
  BY <1>1, AppendGood, AcceptsGood, LenProperties
<1>3. SequenceMatches'
  BY <1>1, <1>2 DEF SequenceMatches
<1> QED
  BY <1>2, <1>3

\* The parts of the state a record that is not about them leaves alone.
LEMMA CompletedKeeps ==
  ASSUME StreamInv, NEW e \in Envelope, Acceptable(e), Recorded(e),
         completed' = (completed \/ e.kind = "agent.completion")
  PROVE  CompletedMatches'
<1>1. PICK n, t : n = Len(log) /\ t = log'
  OBVIOUS
<1>2. n \in Nat /\ Len(t) = n + 1 /\ (\A i \in 1..n : t[i] = log[i]) /\ t[n + 1] = e
  BY <1>1, RecordedKeeps
<1>3. \A i : i \in 1..(n + 1) <=> i \in 1..n \/ i = n + 1
  BY <1>2
<1>4. completed <=> \E i \in 1..n : log[i].kind = "agent.completion"
  BY <1>1 DEF StreamInv, CompletedMatches
<1>5. (\E i \in 1..(n + 1) : t[i].kind = "agent.completion") <=> completed \/ e.kind = "agent.completion"
  BY <1>2, <1>3, <1>4
<1> QED
  BY <1>1, <1>2, <1>5 DEF CompletedMatches

LEMMA ContextKeeps ==
  ASSUME StreamInv, NEW e \in Envelope, Acceptable(e), Recorded(e),
         \/ ContextOK(e) /\ last_context_revision' = e.revision /\ current_context_hash' = e.hash
         \/ e.kind # "context.update" /\ UNCHANGED context
  PROVE  RevisionMatches' /\ HashMatches'
<1>1. PICK n, t : n = Len(log) /\ t = log'
  OBVIOUS
<1>2. n \in Nat /\ Len(t) = n + 1 /\ (\A i \in 1..n : t[i] = log[i]) /\ t[n + 1] = e
  BY <1>1, RecordedKeeps
<1>3. \A i : i \in 1..(n + 1) <=> i \in 1..n \/ i = n + 1
  BY <1>2
<1>4. \A i \in 1..n : log[i].kind = "context.update" => log[i].revision \in Nat
  BY <1>1, EnvelopeFields, ElementOfSeq DEF StreamInv
<1>5. CASE ContextOK(e) /\ last_context_revision' = e.revision /\ current_context_hash' = e.hash
  <2>1. e.kind = "context.update" /\ e.revision \in Nat /\ e.revision > last_context_revision
    BY <1>5, EnvelopeFields DEF ContextOK
  <2>2. RevisionMatches'
    BY <1>1, <1>2, <1>3, <1>4, <1>5, <2>1 DEF StreamInv, RevisionMatches
  <2>3. n + 1 \in 1..(n + 1) /\ \A k \in (n + 1 + 1)..(n + 1) : FALSE
    BY <1>2
  <2>4. HashMatches'
    BY <1>1, <1>2, <1>5, <2>1, <2>3 DEF HashMatches
  <2> QED
    BY <2>2, <2>4
<1>6. CASE e.kind # "context.update" /\ UNCHANGED context
  <2>1. UNCHANGED <<last_context_revision, current_context_hash>>
    BY <1>6 DEF context
  <2>2. RevisionMatches'
    BY <1>1, <1>2, <1>3, <1>6, <2>1 DEF StreamInv, RevisionMatches
  <2>3. \A i \in 1..n : \A k \in (i + 1)..(n + 1) : k \in 1..(n + 1) /\ (k \in (i + 1)..n \/ k = n + 1)
    BY <1>2
  <2>4. HashMatches'
    <3>1. CASE /\ current_context_hash = NoHash
               /\ \A i \in 1..n : log[i].kind # "context.update"
      BY <1>1, <1>2, <1>3, <1>6, <2>1, <3>1 DEF HashMatches
    <3>2. CASE \E i \in 1..n :
               /\ log[i].kind = "context.update" /\ log[i].hash = current_context_hash
               /\ \A k \in (i + 1)..n : log[k].kind # "context.update"
      <4>1. PICK i \in 1..n :
               /\ log[i].kind = "context.update" /\ log[i].hash = current_context_hash
               /\ \A k \in (i + 1)..n : log[k].kind # "context.update"
        BY <3>2
      <4>2. \A k \in (i + 1)..n : k \in 1..n
        BY <1>2
      <4>3. /\ i \in 1..(n + 1) /\ t[i].kind = "context.update" /\ t[i].hash = current_context_hash'
            /\ \A k \in (i + 1)..(n + 1) : t[k].kind # "context.update"
        BY <1>2, <1>3, <1>6, <2>1, <2>3, <4>1, <4>2
      <4> QED
        BY <1>1, <1>2, <4>3 DEF HashMatches
    <3> QED
      BY <1>1, <3>1, <3>2 DEF StreamInv, HashMatches
  <2> QED
    BY <2>2, <2>4
<1> QED
  BY <1>5, <1>6

LEMMA ModelKeeps ==
  ASSUME StreamInv, NEW e \in Envelope, Acceptable(e), Recorded(e),
         \/ /\ e.kind = "model.request"
            /\ seen_model_requests' = seen_model_requests \cup {e.id}
            /\ pending_model_requests' = pending_model_requests \cup {e.id}
         \/ /\ e.kind = "model.response" /\ UNCHANGED seen_model_requests
            /\ pending_model_requests' = pending_model_requests \ {e.id}
         \/ e.kind \notin {"model.request", "model.response"} /\ UNCHANGED model
  PROVE  ModelMatches'
<1>1. log \in Seq(Envelope) /\ log' = Append(log, e) /\ ModelMatches
  BY DEF StreamInv, Recorded
<1>2. PICK t : t = log'
  OBVIOUS
<1>3. Reply("model.request") = "model.response"
  BY DEF Reply
<1>4. /\ e.kind = "model.request" => /\ Made(t, "model.request") = Made(log, "model.request") \cup {e.id}
                             /\ Pending(t, "model.request") = Pending(log, "model.request") \cup {e.id}
      /\ e.kind # "model.request" => Made(t, "model.request") = Made(log, "model.request")
      /\ e.kind = "model.response" => Pending(t, "model.request") = Pending(log, "model.request") \ {e.id}
      /\ e.kind \notin {"model.request", "model.response"} => Pending(t, "model.request") = Pending(log, "model.request")
  <2>1. Told(log, t, e, "model.request")
    BY <1>1, <1>2, ToldAfterAppend
  <2> QED
    BY <1>3, <2>1 DEF Told
<1>5. /\ seen_model_requests' = Made(t, "model.request")
      /\ pending_model_requests' = Pending(t, "model.request")
  BY <1>1, <1>4 DEF ModelMatches, model
<1> QED
  BY <1>2, <1>5 DEF ModelMatches

LEMMA ToolsKeep ==
  ASSUME StreamInv, NEW e \in Envelope, Acceptable(e), Recorded(e),
         \/ /\ e.kind = "tool.call"
            /\ seen_tool_calls' = seen_tool_calls \cup {e.id}
            /\ pending_tool_calls' = pending_tool_calls \cup {e.id}
         \/ /\ e.kind = "tool.result" /\ UNCHANGED seen_tool_calls
            /\ pending_tool_calls' = pending_tool_calls \ {e.id}
         \/ e.kind \notin {"tool.call", "tool.result"} /\ UNCHANGED tools
  PROVE  ToolsMatch'
<1>1. log \in Seq(Envelope) /\ log' = Append(log, e) /\ ToolsMatch
  BY DEF StreamInv, Recorded
<1>2. PICK t : t = log'
  OBVIOUS
<1>3. Reply("tool.call") = "tool.result"
  BY DEF Reply
<1>4. /\ e.kind = "tool.call" => /\ Made(t, "tool.call") = Made(log, "tool.call") \cup {e.id}
                             /\ Pending(t, "tool.call") = Pending(log, "tool.call") \cup {e.id}
      /\ e.kind # "tool.call" => Made(t, "tool.call") = Made(log, "tool.call")
      /\ e.kind = "tool.result" => Pending(t, "tool.call") = Pending(log, "tool.call") \ {e.id}
      /\ e.kind \notin {"tool.call", "tool.result"} => Pending(t, "tool.call") = Pending(log, "tool.call")
  <2>1. Told(log, t, e, "tool.call")
    BY <1>1, <1>2, ToldAfterAppend
  <2> QED
    BY <1>3, <2>1 DEF Told
<1>5. /\ seen_tool_calls' = Made(t, "tool.call")
      /\ pending_tool_calls' = Pending(t, "tool.call")
  BY <1>1, <1>4 DEF ToolsMatch, tools
<1> QED
  BY <1>2, <1>5 DEF ToolsMatch

\* Every step of the validator keeps the invariant.
LEMMA StreamNext == StreamInv /\ [Next]_vars => StreamInv'
<1> SUFFICES ASSUME StreamInv, [Next]_vars PROVE StreamInv'
  OBVIOUS
<1> DEFINE Step(e) ==
      /\ Acceptable(e) /\ Recorded(e)
      /\ started' = TRUE
      /\ completed' = (completed \/ e.kind = "agent.completion")
      /\ \/ ContextOK(e) /\ last_context_revision' = e.revision /\ current_context_hash' = e.hash
         \/ e.kind # "context.update" /\ UNCHANGED context
      /\ \/ /\ e.kind = "model.request"
            /\ seen_model_requests' = seen_model_requests \cup {e.id}
            /\ pending_model_requests' = pending_model_requests \cup {e.id}
         \/ /\ e.kind = "model.response" /\ UNCHANGED seen_model_requests
            /\ pending_model_requests' = pending_model_requests \ {e.id}
         \/ e.kind \notin {"model.request", "model.response"} /\ UNCHANGED model
      /\ \/ /\ e.kind = "tool.call"
            /\ seen_tool_calls' = seen_tool_calls \cup {e.id}
            /\ pending_tool_calls' = pending_tool_calls \cup {e.id}
         \/ /\ e.kind = "tool.result" /\ UNCHANGED seen_tool_calls
            /\ pending_tool_calls' = pending_tool_calls \ {e.id}
         \/ e.kind \notin {"tool.call", "tool.result"} /\ UNCHANGED tools
<1>0. completed \in BOOLEAN /\ started \in BOOLEAN
  BY DEF StreamInv, CompletedMatches, StartedMatches
<1>1. ASSUME NEW e \in Envelope, Step(e) PROVE StreamInv'
  <2>1. /\ log' \in Seq(Envelope) /\ WellFormed(log') /\ SequenceMatches'
        /\ Len(log) \in Nat /\ Len(log') = Len(log) + 1
    BY <1>1, RecordedKeeps
  <2>2. CompletedMatches' /\ RevisionMatches' /\ HashMatches' /\ ModelMatches' /\ ToolsMatch'
    BY <1>1, CompletedKeeps, ContextKeeps, ModelKeeps, ToolsKeep
  <2>3. Len(log') > 0
    BY <2>1
  <2>4. StartedMatches'
    BY <1>1, <2>3 DEF StartedMatches
  <2> QED
    BY <2>1, <2>2, <2>4 DEF StreamInv
<1>2. ASSUME NEW e \in Envelope, AcceptStart(e) PROVE Step(e)
  BY <1>2, <1>0 DEF AcceptStart, StartOK, Acceptable
<1>3. ASSUME NEW e \in Envelope, AcceptContext(e) PROVE Step(e)
  BY <1>3, <1>0 DEF AcceptContext, FollowsOK, ContextOK, Acceptable
<1>4. ASSUME NEW e \in Envelope, AcceptModelRequest(e) PROVE Step(e)
  BY <1>4, <1>0 DEF AcceptModelRequest, FollowsOK, ModelRequestOK, Acceptable
<1>5. ASSUME NEW e \in Envelope, AcceptModelResponse(e) PROVE Step(e)
  BY <1>5, <1>0 DEF AcceptModelResponse, FollowsOK, ModelResponseOK, Acceptable
<1>6. ASSUME NEW e \in Envelope, AcceptToolCall(e) PROVE Step(e)
  BY <1>6, <1>0 DEF AcceptToolCall, FollowsOK, ToolCallOK, Acceptable
<1>7. ASSUME NEW e \in Envelope, AcceptToolResult(e) PROVE Step(e)
  BY <1>7, <1>0 DEF AcceptToolResult, FollowsOK, ToolResultOK, Acceptable
<1>8. ASSUME NEW e \in Envelope, AcceptSafePoint(e) PROVE Step(e)
  BY <1>8, <1>0 DEF AcceptSafePoint, FollowsOK, SafePointOK, Acceptable
<1>9. ASSUME NEW e \in Envelope, AcceptCompletion(e) PROVE Step(e)
  BY <1>9, <1>0 DEF AcceptCompletion, FollowsOK, CompletionOK, Acceptable
<1>10. CASE UNCHANGED vars
  BY <1>10 DEF vars, StreamInv, StartedMatches, SequenceMatches, CompletedMatches, RevisionMatches,
               HashMatches, ModelMatches, ToolsMatch
<1> HIDE DEF Step
<1> QED
  BY <1>1, <1>2, <1>3, <1>4, <1>5, <1>6, <1>7, <1>8, <1>9, <1>10 DEF Next

\* The validator's state is a summary of the records it accepted, in every
\* reachable state.
THEOREM StreamInvariance == Spec => []StreamInv
<1>1. Init => StreamInv
  <2> SUFFICES ASSUME Init PROVE StreamInv
    OBVIOUS
  <2>1. log = <<>> /\ Len(log) = 0 /\ log \in Seq(Envelope) /\ DOMAIN log = {}
    BY DEF Init
  <2>2. Made(log, "model.request") = {} /\ Pending(log, "model.request") = {}
        /\ Made(log, "tool.call") = {} /\ Pending(log, "tool.call") = {}
    BY <2>1 DEF Made, Pending
  <2>3. WellFormed(log)
    BY <2>1 DEF WellFormed
  <2>4. \A i \in 1..Len(log) : FALSE
    BY <2>1
  <2>9. started = FALSE /\ ~(Len(log) > 0)
    BY <2>1 DEF Init
  <2>5. StartedMatches
    BY <2>9 DEF StartedMatches
  <2>8. SequenceMatches
    BY <2>1 DEF Init, SequenceMatches
  <2>6. CompletedMatches
    BY <2>4 DEF Init, CompletedMatches
  <2>7. RevisionMatches /\ HashMatches
    BY <2>4 DEF Init, RevisionMatches, HashMatches
  <2> QED
    BY <2>1, <2>2, <2>3, <2>5, <2>6, <2>7, <2>8 DEF Init, StreamInv, ModelMatches, ToolsMatch
<1> QED
  BY <1>1, StreamNext, PTL DEF Spec

\* accept_stream accepts exactly the streams the protocol means: what it has
\* accepted forms one, and it refuses a record only if the record would spoil it.
THEOREM ValidatorIsExact == Spec => []AcceptsExactly
<1>1. StreamInv => AcceptsExactly
  BY AcceptsGood, AppendGood DEF StreamInv, AcceptsExactly
<1> QED
  BY <1>1, StreamInvariance, PTL

(***************************************************************************)
(* Sandbox: the Linux namespace sandbox and its cleanup.                   *)
(***************************************************************************)

-----------------------------------------------------------------------------
(* The checks in a row. *)

\* The error reported is the one of a check that failed.
LEMMA ErrorIsOfFailed ==
  ASSUME NEW n \in Nat, NEW checks, DOMAIN checks = 1..n
  PROVE  \/ FirstError(checks) = "ok" /\ \A i \in 1..n : checks[i][1]
         \/ \E i \in 1..n : ~checks[i][1] /\ FirstError(checks) = checks[i][2]
<1> DEFINE failed == {i \in 1..n : ~checks[i][1]}
<1>1. CASE failed = {}
  BY <1>1 DEF FirstError
<1>2. CASE failed # {}
  <2>1. Min(failed) \in failed
    BY <1>2, SmallestExists
  <2>2. FirstError(checks) = checks[Min(failed)][2]
    BY <1>2 DEF FirstError
  <2> HIDE DEF FirstError
  <2> QED
    BY <2>1, <2>2
<1> QED
  BY <1>1, <1>2

\* A request that passes has its working directory inside its workspace.
LEMMA RequestMeans ==
  ASSUME NEW r
  PROVE  /\ LaunchRequest(r) # "cleaned"
         /\ LaunchRequest(r) = "ok" => IsPrefix(r.workspace.at, r.working_directory.at)
<1> DEFINE checks == <<
    <<ResourceLimits(r.limits) = "ok", "limits">>,
    <<canonical_regular_executable(r.executable, FALSE) = "ok", "executable">>,
    <<canonical_regular_executable(r.trusted_helper, TRUE) = "ok", "trusted_helper">>,
    <<canonical_directory(r.workspace) = "ok", "workspace">>,
    <<canonical_directory(r.working_directory) = "ok", "working_directory">>,
    <<IsPrefix(r.workspace.at, r.working_directory.at), "outside_workspace">>,
    <<r.arguments.count <= MAX_ARGUMENTS, "too_many_arguments">>,
    <<r.arguments.longest <= MAX_ARGUMENT_BYTES /\ ~r.arguments.nul, "invalid_argument">>,
    <<validate_environment(r.environment) = "ok", "environment">> >>
<1>1. DOMAIN checks = 1..9 /\ LaunchRequest(r) = FirstError(checks)
  BY DEF LaunchRequest
<1>2. \A i \in 1..9 : checks[i][2] \in {"limits", "executable", "trusted_helper", "workspace",
                 "working_directory", "outside_workspace", "too_many_arguments",
                 "invalid_argument", "environment"}
  <2>1. \A i \in 1..9 : i = 1 \/ i = 2 \/ i = 3 \/ i = 4 \/ i = 5 \/ i = 6 \/ i = 7 \/ i = 8 \/ i = 9
    OBVIOUS
  <2> QED
    BY <2>1
<1>3. checks[6][1] = IsPrefix(r.workspace.at, r.working_directory.at)
  OBVIOUS
<1> HIDE DEF checks
<1>4. \/ FirstError(checks) = "ok" /\ \A i \in 1..9 : checks[i][1]
      \/ \E i \in 1..9 : ~checks[i][1] /\ FirstError(checks) = checks[i][2]
  BY <1>1, ErrorIsOfFailed
<1> QED
  BY <1>1, <1>2, <1>3, <1>4

-----------------------------------------------------------------------------
(* Discovery and prepare. *)

Codes == {"privilege_required", "kernel_probe_failed", "missing_tool", "missing_cgroup_v2",
          "missing_cgroup_controller", "unsupported_architecture"}

LEMMA DiscoveryMeans ==
  ASSUME NEW h
  PROVE  /\ discover_linux_backend(h).diagnostics \in Seq(Codes)
         /\ discover_linux_backend(h).status # "supported"
               => discover_linux_backend(h).diagnostics # <<>>
<1> DEFINE uid == effective_uid_from_proc(h)
           d1 == Diagnose(uid \in {"root", "unreadable"}, "privilege_required")
           d2 == Diagnose(uid # "unreadable", "kernel_probe_failed")
           d3 == Diagnose("systemd-run" \in h.tools, "missing_tool")
           d4 == Diagnose("bwrap" \in h.tools, "missing_tool")
           d5 == Diagnose("systemctl" \in h.tools, "missing_tool")
           d6 == Diagnose(h.cgroup_v2, "missing_cgroup_v2")
           d7 == Diagnose(h.cgroup_v2 => "cpu" \in h.controllers, "missing_cgroup_controller")
           d8 == Diagnose(h.cgroup_v2 => "memory" \in h.controllers, "missing_cgroup_controller")
           d9 == Diagnose(h.cgroup_v2 => "pids" \in h.controllers, "missing_cgroup_controller")
           d10 == Diagnose(h.arch \in {"x86_64", "aarch64"}, "unsupported_architecture")
           d == d1 \o d2 \o d3 \o d4 \o d5 \o d6 \o d7 \o d8 \o d9 \o d10
<1>1. discover_linux_backend(h) = [status |-> IF d = <<>> THEN "supported" ELSE "unsupported",
                                   diagnostics |-> d, tools |-> d = <<>>]
  BY DEF discover_linux_backend
<1>2. /\ d1 \in Seq(Codes) /\ d2 \in Seq(Codes) /\ d3 \in Seq(Codes) /\ d4 \in Seq(Codes)
      /\ d5 \in Seq(Codes) /\ d6 \in Seq(Codes) /\ d7 \in Seq(Codes) /\ d8 \in Seq(Codes)
      /\ d9 \in Seq(Codes) /\ d10 \in Seq(Codes)
  <2>1. <<>> \in Seq(Codes) /\ \A c \in Codes : <<c>> \in Seq(Codes)
    OBVIOUS
  <2>2. /\ d1 \in {<<>>, <<"privilege_required">>} /\ d2 \in {<<>>, <<"kernel_probe_failed">>}
        /\ d3 \in {<<>>, <<"missing_tool">>} /\ d4 \in {<<>>, <<"missing_tool">>}
        /\ d5 \in {<<>>, <<"missing_tool">>} /\ d6 \in {<<>>, <<"missing_cgroup_v2">>}
        /\ d7 \in {<<>>, <<"missing_cgroup_controller">>}
        /\ d8 \in {<<>>, <<"missing_cgroup_controller">>}
        /\ d9 \in {<<>>, <<"missing_cgroup_controller">>}
        /\ d10 \in {<<>>, <<"unsupported_architecture">>}
    BY Zenon DEF Diagnose
  <2>3. {"privilege_required", "kernel_probe_failed", "missing_tool", "missing_cgroup_v2",
         "missing_cgroup_controller", "unsupported_architecture"} \subseteq Codes
    BY DEF Codes
  <2> HIDE DEF d1, d2, d3, d4, d5, d6, d7, d8, d9, d10
  <2> QED
    BY <2>1, <2>2, <2>3
<1> HIDE DEF d1, d2, d3, d4, d5, d6, d7, d8, d9, d10
<1>3. \A s, t \in Seq(Codes) : s \o t \in Seq(Codes)
  BY ConcatProperties
<1>4. d \in Seq(Codes)
  BY <1>2, <1>3
<1> HIDE DEF d
<1> QED
  BY <1>1, <1>4

\* prepare refuses with one of the codes, and lets a request pass on a host with
\* every facility only if the helper is root's.
LEMMA PrepareMeans ==
  ASSUME NEW r
  PROVE  /\ linux_prepare(r) # "cleaned"
         /\ linux_prepare(r) = "ok" /\ capabilities.status = "supported"
               => validate_trusted_helper_security(r.trusted_helper)
<1> DEFINE first == IF capabilities.diagnostics = <<>> THEN "kernel_probe_failed"
                                                     ELSE Head(capabilities.diagnostics)
           checks == <<
    <<capabilities.status = "supported", first>>,
    <<capabilities.tools, "kernel_probe_failed">>,
    <<validate_trusted_helper_security(r.trusted_helper), "kernel_probe_failed">> >>
<1>1. DOMAIN checks = 1..3 /\ linux_prepare(r) = FirstError(checks)
  BY DEF linux_prepare
<1>2. first \in Codes
  <2>1. capabilities.diagnostics \in Seq(Codes)
    BY DiscoveryMeans DEF capabilities
  <2> QED
    BY <2>1, HeadTailProperties DEF Codes
<1>3. /\ checks[1][1] = (capabilities.status = "supported") /\ checks[1][2] = first
      /\ checks[2][2] = "kernel_probe_failed" /\ checks[3][2] = "kernel_probe_failed"
      /\ checks[3][1] = validate_trusted_helper_security(r.trusted_helper)
  OBVIOUS
<1>4. \A i \in 1..3 : i = 1 \/ i = 2 \/ i = 3
  OBVIOUS
<1> HIDE DEF checks, first
<1>5. \/ FirstError(checks) = "ok" /\ \A i \in 1..3 : checks[i][1]
      \/ \E i \in 1..3 : ~checks[i][1] /\ FirstError(checks) = checks[i][2]
  BY <1>1, ErrorIsOfFailed
<1>6. FirstError(checks) # "cleaned"
  BY <1>2, <1>3, <1>4, <1>5 DEF Codes
<1>7. FirstError(checks) = "ok" => \A i \in 1..3 : checks[i][1]
  BY <1>2, <1>3, <1>4, <1>5 DEF Codes
<1> QED
  BY <1>1, <1>3, <1>6, <1>7

-----------------------------------------------------------------------------
(* The invariants. *)

\* Before anything is launched nothing is running, and no cleanup has returned.
Unlaunched ==
    /\ leader = "none" /\ image = "none" /\ unit = "none"
    /\ call.op = "idle" /\ result # "cleaned"

\* What each stage of a cleanup has established; a scope that was collected has
\* lost its leader and every descendant.
CleanupInv ==
    /\ kids \in [Descendants -> {"none", "running", "stopped", "gone"}]
    /\ phase # "launched" => Unlaunched
    /\ unit = "collected" => ~Alive(leader) /\ NoKids
    /\ call.op = "poll" => leader = "reaped"
    /\ result = "cleaned" /\ call.op = "idle" =>
          /\ leader = "reaped"
          /\ kind = "linux" => ShowMayFail \/ unit = "collected"

\* What each phase of a launch has established.
LaunchInv ==
    /\ request \in Requests
    /\ phase # "launched" => Unlaunched
    /\ phase \in {"validated", "prepared", "launched"} =>
          IsPrefix(request.workspace.at, request.working_directory.at)
    /\ kind = "linux" /\ phase \in {"prepared", "launched"} =>
          /\ plan = plan_linux_launch(request)
          /\ capabilities.status = "supported" =>
                validate_trusted_helper_security(request.trusted_helper)
    /\ kind = "linux" /\ phase = "launched" => capabilities.status = "supported" /\ unit # "none"
    /\ kind = "linux" /\ image = "workload" => filtered

LEMMA CleanupNext == CleanupInv /\ [SandboxNext]_sandbox_vars => CleanupInv'
<1> SUFFICES ASSUME CleanupInv, [SandboxNext]_sandbox_vars PROVE CleanupInv'
  OBVIOUS
<1> USE DEF CleanupInv, Unlaunched, Alive, KidAlive, NoKids
<1>1. ASSUME NewRequest PROVE CleanupInv'
  BY <1>1, RequestMeans DEF NewRequest, Processes
<1>2. ASSUME prepare PROVE CleanupInv'
  BY <1>2, PrepareMeans DEF prepare, Processes
<1>3. ASSUME launch PROVE CleanupInv'
  BY <1>3 DEF launch
<1>4. ASSUME InitHelper PROVE CleanupInv'
  BY <1>4 DEF InitHelper
<1>5. ASSUME LeaderExits PROVE CleanupInv'
  BY <1>5 DEF LeaderExits
<1>6. ASSUME UnitCollected PROVE CleanupInv'
  BY <1>6 DEF UnitCollected
<1>7. ASSUME NEW k \in Descendants, WorkloadForks(k) PROVE CleanupInv'
  BY <1>7 DEF WorkloadForks
<1>8. ASSUME NEW k \in Descendants, DescendantExits(k) PROVE CleanupInv'
  BY <1>8 DEF DescendantExits
<1>9. ASSUME NEW k \in Descendants, NamespaceDies(k) PROVE CleanupInv'
  BY <1>9 DEF NamespaceDies
<1> USE DEF Begin, Uncalled, Return, NoCall, Processes, Signalled, Reap, Goto
<1>10. ASSUME inspect PROVE CleanupInv'
  BY <1>10 DEF inspect
<1>11. ASSUME suspend PROVE CleanupInv'
  BY <1>11 DEF suspend, signal_process, control_linux_unit
<1>12. ASSUME resume PROVE CleanupInv'
  BY <1>12 DEF resume, signal_process, control_linux_unit
<1>13. ASSUME terminate PROVE CleanupInv'
  BY <1>13 DEF terminate, terminate_process, StopUnit, Killed
<1>14. ASSUME cleanup PROVE CleanupInv'
  BY <1>14 DEF cleanup, terminate_process
<1>15. ASSUME stop_linux_unit PROVE CleanupInv'
  BY <1>15 DEF stop_linux_unit, StopUnit, Killed
<1>16. ASSUME cleanup_wait PROVE CleanupInv'
  BY <1>16 DEF cleanup_wait
<1>17. ASSUME wait_linux_unit_collected PROVE CleanupInv'
  BY <1>17 DEF wait_linux_unit_collected
<1>18. ASSUME UNCHANGED sandbox_vars PROVE CleanupInv'
  BY <1>18 DEF sandbox_vars
<1> QED
  BY <1>1, <1>2, <1>3, <1>4, <1>5, <1>6, <1>7, <1>8, <1>9, <1>10, <1>11, <1>12, <1>13,
     <1>14, <1>15, <1>16, <1>17, <1>18 DEF SandboxNext

LEMMA LaunchNext == LaunchInv /\ [SandboxNext]_sandbox_vars => LaunchInv'
<1> SUFFICES ASSUME LaunchInv, [SandboxNext]_sandbox_vars PROVE LaunchInv'
  OBVIOUS
<1> USE DEF LaunchInv, Unlaunched, capabilities
<1>1. ASSUME NewRequest PROVE LaunchInv'
  BY <1>1, RequestMeans DEF NewRequest, Processes
<1>2. ASSUME prepare PROVE LaunchInv'
  BY <1>2, PrepareMeans DEF prepare, Processes
<1>3. ASSUME launch PROVE LaunchInv'
  BY <1>3 DEF launch, plan_linux_launch
<1>4. ASSUME InitHelper PROVE LaunchInv'
  BY <1>4 DEF InitHelper
<1>5. ASSUME LeaderExits PROVE LaunchInv'
  BY <1>5 DEF LeaderExits
<1>6. ASSUME UnitCollected PROVE LaunchInv'
  BY <1>6 DEF UnitCollected
<1>7. ASSUME NEW k \in Descendants, WorkloadForks(k) PROVE LaunchInv'
  BY <1>7 DEF WorkloadForks
<1>8. ASSUME NEW k \in Descendants, DescendantExits(k) PROVE LaunchInv'
  BY <1>8 DEF DescendantExits
<1>9. ASSUME NEW k \in Descendants, NamespaceDies(k) PROVE LaunchInv'
  BY <1>9 DEF NamespaceDies
<1> USE DEF Begin, Uncalled, Return, NoCall, Processes, Signalled, Reap, Goto
<1>10. ASSUME inspect PROVE LaunchInv'
  BY <1>10 DEF inspect
<1>11. ASSUME suspend PROVE LaunchInv'
  BY <1>11 DEF suspend, signal_process, control_linux_unit
<1>12. ASSUME resume PROVE LaunchInv'
  BY <1>12 DEF resume, signal_process, control_linux_unit
<1>13. ASSUME terminate PROVE LaunchInv'
  BY <1>13 DEF terminate, terminate_process, StopUnit
<1>14. ASSUME cleanup PROVE LaunchInv'
  BY <1>14 DEF cleanup, terminate_process
<1>15. ASSUME stop_linux_unit PROVE LaunchInv'
  BY <1>15 DEF stop_linux_unit, StopUnit
<1>16. ASSUME cleanup_wait PROVE LaunchInv'
  BY <1>16 DEF cleanup_wait
<1>17. ASSUME wait_linux_unit_collected PROVE LaunchInv'
  BY <1>17 DEF wait_linux_unit_collected
<1>18. ASSUME UNCHANGED sandbox_vars PROVE LaunchInv'
  BY <1>18 DEF sandbox_vars
<1> QED
  BY <1>1, <1>2, <1>3, <1>4, <1>5, <1>6, <1>7, <1>8, <1>9, <1>10, <1>11, <1>12, <1>13,
     <1>14, <1>15, <1>16, <1>17, <1>18 DEF SandboxNext

LEMMA SandboxInvariance == SandboxSpec => [](CleanupInv /\ LaunchInv)
<1>1. SandboxInit => CleanupInv /\ LaunchInv
  BY DEF SandboxInit, CleanupInv, LaunchInv, Unlaunched, NoCall, NoKids, KidAlive, Alive
<1> QED
  BY <1>1, CleanupNext, LaunchNext, PTL DEF SandboxSpec

\* A cleanup that reports success leaves nothing behind, whatever exits, forks or
\* is collected while it runs; `systemctl show` failing quietly is what could make
\* it report one too early.
THEOREM CleanupIsThorough ==
  ASSUME ~ShowMayFail
  PROVE  SandboxSpec => []CleanedLeavesNothing
<1>1. CleanupInv => CleanedLeavesNothing
  BY DEF CleanupInv, CleanedLeavesNothing
<1> QED
  BY <1>1, SandboxInvariance, PTL

-----------------------------------------------------------------------------
(* What the mounts show. *)

\* A path continues its prefix.
LEMMA PrefixContinues ==
  ASSUME NEW s \in Seq(STRING), NEW p \in Seq(STRING), IsPrefix(s, p)
  PROVE  s \o SubSeq(p, Len(s) + 1, Len(p)) = p
<1>1. Len(s) \in Nat /\ Len(p) \in Nat /\ Len(s) <= Len(p) /\ SubSeq(s, 1, Len(s)) = SubSeq(p, 1, Len(s))
  BY LenProperties DEF IsPrefix
<1>2. SubSeq(s, 1, Len(s)) = s /\ SubSeq(p, 1, Len(p)) = p
  BY SubSeqFull
<1>3. SubSeq(p, 1, Len(s)) \o SubSeq(p, Len(s) + 1, Len(p)) = SubSeq(p, 1, Len(p))
  <2>1. /\ 1 \in 1..(Len(p) + 1) /\ Len(s) \in (1 - 1)..Len(p) /\ Len(p) \in Len(s)..Len(p)
    BY <1>1
  <2> QED
    BY <2>1, ConcatAdjacentSubSeq
<1> QED
  BY <1>1, <1>2, <1>3

\* The last of the six mounts that cover a path.
LEMMA LastMount ==
  ASSUME NEW C \in SUBSET (1..6), C # {}
  PROVE  Max(C) \in C /\ \A y \in C : Max(C) >= y
<1>1. \A y \in C : y = 1 \/ y = 2 \/ y = 3 \/ y = 4 \/ y = 5 \/ y = 6
  OBVIOUS
<1>2. \E x \in C : \A y \in C : x >= y
  <2>1. CASE 6 \in C
    BY <1>1, <2>1
  <2>2. CASE 6 \notin C /\ 5 \in C
    BY <1>1, <2>2
  <2>3. CASE 6 \notin C /\ 5 \notin C /\ 4 \in C
    BY <1>1, <2>3
  <2>4. CASE C \subseteq 1..3 /\ 3 \in C
    BY <2>4
  <2>5. CASE C \subseteq 1..2 /\ 2 \in C
    BY <2>5
  <2>6. CASE C = {1}
    BY <2>6
  <2>7. 6 \notin C /\ 5 \notin C /\ 4 \notin C => C \subseteq 1..3
    BY <1>1
  <2>8. C \subseteq 1..3 /\ 3 \notin C => C \subseteq 1..2
    OBVIOUS
  <2>9. C \subseteq 1..2 /\ 2 \notin C => C = {1}
    <3>1. \A y \in 1..2 : y = 1 \/ y = 2
      OBVIOUS
    <3> QED
      BY <3>1
  <2> QED
    BY <2>1, <2>2, <2>3, <2>4, <2>5, <2>6, <2>7, <2>8, <2>9
<1> QED
  BY <1>2 DEF Max

\* What a mount that is no tmpfs shows.
LEMMA SeenThrough ==
  ASSUME NEW p, NEW f, NEW to, NEW mode, mode # "tmpfs",
         plan.mounts[Max(Covering(p))] = Mount(mode, f, to)
  PROVE  Seen(p).from = f \o SubSeq(p, Len(to) + 1, Len(p))
<1>1. PICK m : m = plan.mounts[Max(Covering(p))]
  OBVIOUS
<1>2. m.mode # "tmpfs" /\ m.from = f /\ m.to = to
  BY <1>1 DEF Mount
<1> DEFINE shown == IF m.mode = "tmpfs" THEN <<>> ELSE m.from \o SubSeq(p, Len(m.to) + 1, Len(p))
<1>3. Seen(p) = [mode |-> m.mode, from |-> shown]
  BY <1>1, Zenon DEF Seen
<1>5. shown = m.from \o SubSeq(p, Len(m.to) + 1, Len(p))
  BY <1>2, Zenon
<1> HIDE DEF shown
<1>6. Seen(p).from = shown
  BY <1>3
<1>4. Seen(p).from = m.from \o SubSeq(p, Len(m.to) + 1, Len(p))
  BY <1>5, <1>6, Zenon
<1> QED
  BY <1>2, <1>4, Zenon

\* Which of the plan's mounts shows a path, and what it shows there.
LEMMA MountsShow ==
  ASSUME NEW T, NEW p \in Seq(T), plan = plan_linux_launch(request)
  PROVE  /\ Covering(p) \in SUBSET (1..6) /\ 1 \in Covering(p)
         /\ 4 \in Covering(p) <=> IsPrefix(request.workspace.at, p)
         /\ 5 \in Covering(p) <=> IsPrefix(Helper, p)
         /\ 6 \in Covering(p) <=> IsPrefix(Workload, p)
         /\ Max(Covering(p)) \in 1..6
         /\ Seen(p).mode = plan.mounts[Max(Covering(p))].mode
<1> DEFINE w == request.workspace.at
<1>1. /\ DOMAIN plan.mounts = 1..6
      /\ plan.mounts[1] = Mount("ro-bind", <<>>, <<>>)
      /\ plan.mounts[4] = Mount("bind", w, w)
      /\ plan.mounts[5] = Mount("ro-bind", <<"helper">>, Helper)
      /\ plan.mounts[6] = Mount("ro-bind", <<"exe">>, Workload)
  BY DEF plan_linux_launch
<1>2. IsPrefix(<<>>, p)
  <2>1. Len(p) \in Nat /\ Len(<<>>) = 0
    BY LenProperties
  <2>2. SubSeq(<<>>, 1, 0) = <<>> /\ SubSeq(p, 1, 0) = <<>>
    BY SubSeqEmpty
  <2> QED
    BY <2>1, <2>2 DEF IsPrefix
<1>3. Covering(p) = {i \in 1..6 : IsPrefix(plan.mounts[i].to, p)}
  BY <1>1 DEF Covering
<1>4. /\ plan.mounts[1].to = <<>> /\ plan.mounts[4].to = w
      /\ plan.mounts[5].to = Helper /\ plan.mounts[6].to = Workload
  BY <1>1 DEF Mount
<1>5. /\ Covering(p) \in SUBSET (1..6) /\ 1 \in Covering(p)
      /\ 4 \in Covering(p) <=> IsPrefix(w, p)
      /\ 5 \in Covering(p) <=> IsPrefix(Helper, p)
      /\ 6 \in Covering(p) <=> IsPrefix(Workload, p)
  BY <1>2, <1>3, <1>4
<1>6. Max(Covering(p)) \in 1..6
  BY <1>5, LastMount
<1>7. Seen(p).mode = plan.mounts[Max(Covering(p))].mode
  BY DEF Seen
<1> QED
  BY <1>5, <1>6, <1>7

\* The paths that are the host's and can be written.
LEMMA WritableIsWorkspace ==
  ASSUME NEW p \in Seq(STRING), request.workspace.at \in Seq(STRING),
         plan = plan_linux_launch(request)
  PROVE  (Seen(p).mode = "bind" /\ Seen(p).from = p)
            <=> /\ IsPrefix(request.workspace.at, p)
                /\ ~IsPrefix(Helper, p) /\ ~IsPrefix(Workload, p)
<1> DEFINE w == request.workspace.at
           top == Max(Covering(p))
<1>1. top \in Covering(p) /\ \A y \in Covering(p) : top >= y
  BY MountsShow, LastMount
<1>2. top = 4 <=> /\ IsPrefix(w, p) /\ ~IsPrefix(Helper, p) /\ ~IsPrefix(Workload, p)
  <2>1. Covering(p) \in SUBSET (1..6) /\ 5 # 4 /\ 6 # 4 /\ \A i \in 1..6 : i >= 4 => i \in {4, 5, 6}
    BY MountsShow
  <2> HIDE DEF top
  <2> QED
    BY <1>1, <2>1, MountsShow
<1>3. /\ plan.mounts = << Mount("ro-bind", <<>>, <<>>),
                   Mount("tmpfs", <<>>, <<"tmp">>), Mount("tmpfs", <<>>, <<"run">>),
                   Mount("bind", w, w),
                   Mount("ro-bind", <<"helper">>, Helper),
                   Mount("ro-bind", <<"exe">>, Workload) >>
  BY DEF plan_linux_launch
<1>4. \A i \in 1..6 : plan.mounts[i].mode = "bind" <=> i = 4
  <2>1. \A i \in 1..6 : i = 1 \/ i = 2 \/ i = 3 \/ i = 4 \/ i = 5 \/ i = 6
    OBVIOUS
  <2> QED
    BY <1>3, <2>1 DEF Mount
<1>5. Seen(p).mode = "bind" <=> top = 4
  BY <1>4, MountsShow
<1>6. ASSUME top = 4 PROVE Seen(p).from = p
  <2>1. plan.mounts[top] = Mount("bind", w, w) /\ IsPrefix(w, p)
    BY <1>2, <1>3, <1>6
  <2>3. Seen(p).from = w \o SubSeq(p, Len(w) + 1, Len(p))
    <3>1. "bind" # "tmpfs"
      OBVIOUS
    <3> QED
      BY <2>1, <3>1, SeenThrough, Zenon
  <2> QED
    BY <2>1, <2>3, PrefixContinues
<1> QED
  BY <1>2, <1>5, <1>6

\* The helper and the workload are found at their places.
LEMMA PlacesShow ==
  ASSUME plan = plan_linux_launch(request)
  PROVE  Seen(Helper).from = <<"helper">> /\ Seen(Workload).from = <<"exe">>
<1> DEFINE T == {"run", "epoch-sandbox-init", "epoch-workload"}
<1>1. Helper \in Seq(T) /\ Workload \in Seq(T) /\ Len(Helper) = 2 /\ Len(Workload) = 2
  <2>1. Len(Helper) = 2 /\ Len(Workload) = 2
    BY DEF Helper, Workload
  <2>2. \A a, b \in T : <<a, b>> \in Seq(T)
    OBVIOUS
  <2>3. /\ <<"run", "epoch-sandbox-init">> \in Seq(T)
        /\ <<"run", "epoch-workload">> \in Seq(T)
    BY <2>2
  <2> QED
    BY <2>1, <2>3 DEF Helper, Workload
<1>2. IsPrefix(Helper, Helper) /\ IsPrefix(Workload, Workload)
  BY <1>1 DEF IsPrefix
<1>3. ~IsPrefix(Workload, Helper)
  <2>1. SubSeq(Workload, 1, 2) = Workload /\ SubSeq(Helper, 1, 2) = Helper
    BY <1>1, SubSeqFull
  <2>2. Workload # Helper
    <3>1. Workload[2] = "epoch-workload" /\ Helper[2] = "epoch-sandbox-init"
      BY DEF Helper, Workload
    <3> QED
      BY <3>1
  <2> QED
    BY <1>1, <2>1, <2>2 DEF IsPrefix
<1>4. Max(Covering(Helper)) = 5
  <2>1. /\ Covering(Helper) \in SUBSET (1..6) /\ 5 \in Covering(Helper) /\ 6 \notin Covering(Helper)
    BY <1>1, <1>2, <1>3, MountsShow
  <2>2. Max(Covering(Helper)) \in Covering(Helper) /\ Max(Covering(Helper)) >= 5
    BY <2>1, LastMount
  <2> QED
    BY <2>1, <2>2
<1>5. Max(Covering(Workload)) = 6
  <2>1. Covering(Workload) \in SUBSET (1..6) /\ 6 \in Covering(Workload)
    BY <1>1, <1>2, MountsShow
  <2>2. Max(Covering(Workload)) \in Covering(Workload) /\ Max(Covering(Workload)) >= 6
    BY <2>1, LastMount
  <2> QED
    BY <2>1, <2>2
<1>6. /\ plan.mounts[5] = Mount("ro-bind", <<"helper">>, Helper)
      /\ plan.mounts[6] = Mount("ro-bind", <<"exe">>, Workload)
  BY DEF plan_linux_launch
<1>7. /\ SubSeq(Helper, Len(Helper) + 1, Len(Helper)) = <<>>
      /\ SubSeq(Workload, Len(Workload) + 1, Len(Workload)) = <<>>
  <2>1. 3 \in Int /\ 2 \in Int /\ 2 < 3 /\ 2 + 1 = 3
    OBVIOUS
  <2>2. SubSeq(Helper, 3, 2) = <<>> /\ SubSeq(Workload, 3, 2) = <<>>
    BY <2>1, SubSeqEmpty
  <2> QED
    BY <1>1, <2>1, <2>2
<1>8. <<"helper">> \o <<>> = <<"helper">> /\ <<"exe">> \o <<>> = <<"exe">>
  OBVIOUS
<1>11. "ro-bind" # "tmpfs"
  OBVIOUS
<1>9. Seen(Helper).from = <<"helper">> \o SubSeq(Helper, Len(Helper) + 1, Len(Helper))
  BY <1>4, <1>6, <1>11, SeenThrough, Zenon
<1>10. Seen(Workload).from = <<"exe">> \o SubSeq(Workload, Len(Workload) + 1, Len(Workload))
  BY <1>5, <1>6, <1>11, SeenThrough, Zenon
<1> QED
  BY <1>7, <1>8, <1>9, <1>10

\* The Linux backend fails closed: it runs a workload only where everything it
\* isolates with is there, behind the filter, and with nothing but the workspace
\* to write on the host.
THEOREM LinuxFailsClosed == SandboxSpec => []LinuxIsConfined
<1>1. LaunchInv => LinuxIsConfined
  <2> SUFFICES ASSUME LaunchInv, kind = "linux", leader # "none"
               PROVE  LinuxIsConfined
    BY DEF LinuxIsConfined
  <2>1. phase = "launched" /\ request \in Requests
    BY DEF LaunchInv, Unlaunched
  <2>2. /\ capabilities.status = "supported" /\ unit # "none" /\ plan = plan_linux_launch(request)
        /\ IsPrefix(request.workspace.at, request.working_directory.at)
        /\ image = "workload" => filtered
        /\ validate_trusted_helper_security(request.trusted_helper)
    BY <2>1 DEF LaunchInv
  <2>3. discover_linux_backend(host).status = "supported"
    BY <2>2 DEF capabilities
  <2>4. plan.backend = "linux" /\ request.trusted_helper.owner = "root"
    BY <2>2 DEF plan_linux_launch, validate_trusted_helper_security
  <2>5. request.workspace.at \in Seq(STRING) /\ Paths \subseteq Seq(STRING)
    BY <2>1, PathAssumption
  <2>6. \A p \in Paths : (Seen(p).mode = "bind" /\ Seen(p).from = p)
                               <=> /\ IsPrefix(request.workspace.at, p)
                                   /\ ~IsPrefix(Helper, p) /\ ~IsPrefix(Workload, p)
    BY <2>2, <2>5, WritableIsWorkspace
  <2>7. Seen(Helper).from = <<"helper">> /\ Seen(Workload).from = <<"exe">>
    BY <2>2, <2>5, PlacesShow
  <2> QED
    BY <2>2, <2>3, <2>4, <2>6, <2>7 DEF LinuxIsConfined
<1> QED
  BY <1>1, SandboxInvariance, PTL

(***************************************************************************)
(* CriuCompat: the CRIU compatibility laboratory.                          *)
(***************************************************************************)

-----------------------------------------------------------------------------
(* The percentile of the gates. *)

\* Numbers of a finite set that is not empty have a greatest.
LEMMA GreatestExists ==
  ASSUME NEW S, IsFiniteSet(S), S # {}, NEW f \in [S -> Nat]
  PROVE  \E j \in S : \A i \in S : f[i] <= f[j]
<1> DEFINE Greatest(T) == \E j \in T : \A i \in T : f[i] <= f[j]
           Without == {n \in Nat : \E T \in SUBSET S : T # {} /\ n = Cardinality(T) /\ ~Greatest(T)}
<1>1. SUFFICES ASSUME ~Greatest(S) PROVE FALSE
  OBVIOUS
<1>2. \A T \in SUBSET S : IsFiniteSet(T) /\ Cardinality(T) \in Nat
  BY FS_Subset, FS_CardinalityType
<1>3. Without \in SUBSET Nat /\ Without # {}
  BY <1>1, <1>2
<1>4. PICK n : n = Min(Without)
  OBVIOUS
<1>5. n \in Without /\ \A m \in Without : n <= m
  BY <1>3, <1>4, SmallestExists
<1>6. PICK T \in SUBSET S : T # {} /\ n = Cardinality(T) /\ ~Greatest(T)
  BY <1>5
<1>7. PICK t \in T : TRUE
  BY <1>6
<1> DEFINE U == T \ {t}
<1>8. Cardinality(U) = n - 1 /\ U \in SUBSET S /\ n \in Nat
  BY <1>2, <1>5, <1>6, <1>7, FS_RemoveElement
<1>9. CASE U = {}
  <2>1. \A i \in T : i = t
    BY <1>9
  <2> QED
    BY <1>6, <1>7, <2>1
<1>10. CASE U # {}
  <2>1. n - 1 \in Nat
    BY <1>2, <1>8
  <2>2. n - 1 \notin Without
    BY <1>5, <1>8, <2>1
  <2>3. Greatest(U)
    BY <1>8, <1>10, <2>1, <2>2
  <2>4. PICK g \in U : \A i \in U : f[i] <= f[g]
    BY <2>3
  <2>5. f[g] \in Nat /\ f[t] \in Nat /\ \A i \in T : f[i] \in Nat /\ (i = t \/ i \in U)
    BY <1>6, <1>7
  <2>6. CASE f[g] <= f[t]
    <3>1. \A i \in T : f[i] <= f[t]
      BY <2>4, <2>5, <2>6
    <3> QED
      BY <1>6, <1>7, <3>1
  <2>7. CASE f[t] <= f[g]
    <3>1. \A i \in T : f[i] <= f[g]
      BY <2>4, <2>5, <2>7
    <3> QED
      BY <1>6, <3>1
  <2> QED
    BY <2>5, <2>6, <2>7
<1> QED
  BY <1>9, <1>10

\* At most one in twenty is above a gate that the percentile passes.
LEMMA PercentileGate ==
  ASSUME NEW S, IsFiniteSet(S), S # {}, NEW f \in [S -> Nat], NEW gate \in Nat,
         percentile_95(f) <= gate
  PROVE  20 * Cardinality({i \in S : f[i] > gate}) <= Cardinality(S)
<1> DEFINE NotAbove(v) == {i \in S : f[i] <= v}
           above == {i \in S : f[i] > gate}
<1>1. PICK n : n = Cardinality(S)
  OBVIOUS
<1>2. n \in Nat /\ n >= 1
  BY <1>1, FS_CardinalityType, FS_EmptySet
<1>3. PICK rank : rank = (n * 95 + 99) \div 100
  OBVIOUS
<1>4. rank \in Nat /\ rank <= n /\ 100 * rank >= 95 * n
  BY <1>2, <1>3
<1> DEFINE reached == {v \in {f[i] : i \in S} : Cardinality(NotAbove(v)) >= rank}
<1>5. percentile_95(f) = Min(reached)
  BY <1>1, <1>3 DEF percentile_95
<1>6. reached \in SUBSET Nat /\ reached # {}
  <2>1. PICK j \in S : \A i \in S : f[i] <= f[j]
    BY GreatestExists
  <2>2. NotAbove(f[j]) = S
    BY <2>1
  <2>3. f[j] \in reached
    BY <1>1, <1>2, <1>4, <2>2
  <2> QED
    BY <2>3
<1>7. PICK v : v = Min(reached)
  OBVIOUS
<1>8. v \in reached
  BY <1>6, <1>7, SmallestExists
<1>9. v \in Nat /\ v <= gate /\ Cardinality(NotAbove(v)) >= rank
  BY <1>5, <1>6, <1>7, <1>8
<1>10. above \subseteq S \ NotAbove(v)
  BY <1>9
<1>11. PICK low, high, rest : /\ low = Cardinality(NotAbove(v)) /\ high = Cardinality(above)
                             /\ rest = Cardinality(S \ NotAbove(v))
  OBVIOUS
<1> HIDE DEF above, NotAbove, reached
<1>12. NotAbove(v) \subseteq S /\ S \cap NotAbove(v) = NotAbove(v)
  BY DEF NotAbove
<1>13. IsFiniteSet(S \ NotAbove(v)) /\ rest = n - low
  <2>1. PICK B : B = NotAbove(v)
    OBVIOUS
  <2>2. IsFiniteSet(S \ B) /\ Cardinality(S \ B) = Cardinality(S) - Cardinality(S \cap B)
    BY FS_Difference
  <2> QED
    BY <1>1, <1>11, <1>12, <2>1, <2>2
<1>14. IsFiniteSet(above) /\ high <= rest
  BY <1>10, <1>11, <1>13, FS_Subset
<1>15. low \in Nat /\ high \in Nat /\ rest \in Nat
  BY <1>11, <1>12, <1>13, <1>14, FS_CardinalityType, FS_Subset
<1>16. 20 * high <= n
  BY <1>2, <1>4, <1>9, <1>11, <1>13, <1>14, <1>15
<1> QED
  BY <1>1, <1>11, <1>16 DEF above

\* The percentile passes a gate that at most one in twenty is above.
LEMMA PercentilePasses ==
  ASSUME NEW S, IsFiniteSet(S), S # {}, NEW f \in [S -> Nat], NEW gate \in Nat,
         20 * Cardinality({i \in S : f[i] > gate}) <= Cardinality(S)
  PROVE  percentile_95(f) <= gate
<1> DEFINE NotAbove(v) == {i \in S : f[i] <= v}
           above == {i \in S : f[i] > gate}
           below == {i \in S : f[i] <= gate}
<1>1. PICK n, high, low : n = Cardinality(S) /\ high = Cardinality(above) /\ low = Cardinality(below)
  OBVIOUS
<1>2. n \in Nat /\ n >= 1
  BY <1>1, FS_CardinalityType, FS_EmptySet
<1>3. PICK rank : rank = (n * 95 + 99) \div 100
  OBVIOUS
<1>4. rank \in Nat /\ rank >= 1 /\ 100 * rank <= 95 * n + 99
  BY <1>2, <1>3
<1> DEFINE reached == {v \in {f[i] : i \in S} : Cardinality(NotAbove(v)) >= rank}
<1>5. percentile_95(f) = Min(reached)
  BY <1>1, <1>3 DEF percentile_95
<1>6. below = S \ above /\ S \cap above = above
  OBVIOUS
<1>7. low = n - high /\ IsFiniteSet(below)
  <2>1. PICK B : B = above
    OBVIOUS
  <2>2. IsFiniteSet(S \ B) /\ Cardinality(S \ B) = Cardinality(S) - Cardinality(S \cap B)
    BY FS_Difference
  <2> QED
    BY <1>1, <1>6, <2>1, <2>2
<1>8. high \in Nat /\ low \in Nat /\ 20 * high <= n
  BY <1>1, <1>6, <1>7, FS_CardinalityType, FS_Subset
<1>9. low >= rank
  BY <1>2, <1>4, <1>7, <1>8
<1>10. below # {}
  <2>1. low # 0
    BY <1>4, <1>8, <1>9
  <2> QED
    BY <1>1, <2>1, FS_EmptySet
<1>11. PICK j \in below : \A i \in below : f[i] <= f[j]
  <2>1. PICK B : B = below
    OBVIOUS
  <2>2. PICK g : g = [i \in B |-> f[i]]
    OBVIOUS
  <2>3. g \in [B -> Nat] /\ \A i \in B : g[i] = f[i]
    BY <2>1, <2>2
  <2>4. \E j \in B : \A i \in B : g[i] <= g[j]
    BY <1>7, <1>10, <2>1, <2>3, GreatestExists
  <2> QED
    BY <2>1, <2>3, <2>4
<1>12. below \subseteq NotAbove(f[j]) /\ NotAbove(f[j]) \subseteq S
  BY <1>11
<1>13. Cardinality(NotAbove(f[j])) \in Nat /\ Cardinality(NotAbove(f[j])) >= low
  <2>1. PICK B, C : B = below /\ C = NotAbove(f[j])
    OBVIOUS
  <2>2. IsFiniteSet(C)
    BY <1>12, <2>1, FS_Subset
  <2>3. Cardinality(B) <= Cardinality(C) /\ Cardinality(C) \in Nat
    BY <1>12, <2>1, <2>2, FS_Subset, FS_CardinalityType
  <2> QED
    BY <1>1, <1>8, <2>1, <2>3
<1>14. f[j] \in reached /\ reached \in SUBSET Nat
  BY <1>4, <1>8, <1>9, <1>11, <1>13
<1>15. f[j] <= gate
  BY <1>11
<1> HIDE DEF reached
<1>16. PICK v : v = Min(reached)
  OBVIOUS
<1>17. v \in reached /\ v <= f[j]
  BY <1>14, <1>16, SmallestExists
<1>18. v \in Nat /\ f[j] \in Nat
  BY <1>11, <1>14, <1>17
<1> QED
  BY <1>5, <1>15, <1>16, <1>17, <1>18

-----------------------------------------------------------------------------
(* The matrix. *)

LEMMA TriplesAreFinite ==
  ASSUME NEW A, NEW B, NEW C, IsFiniteSet(A), IsFiniteSet(B), IsFiniteSet(C)
  PROVE  IsFiniteSet(A \X B \X C)
<1> DEFINE nested == (A \X B) \X C
           triples == A \X B \X C
           f == [p \in nested |-> <<p[1][1], p[1][2], p[2]>>]
<1>1. IsFiniteSet(nested)
  BY FS_Product
<1>2. f \in [nested -> triples]
  OBVIOUS
<1>3. \A t \in triples : \E p \in nested : f[p] = t
  <2> SUFFICES ASSUME NEW t \in triples PROVE \E p \in nested : f[p] = t
    OBVIOUS
  <2>1. PICK p : p = <<<<t[1], t[2]>>, t[3]>>
    OBVIOUS
  <2>2. p \in nested /\ p[1][1] = t[1] /\ p[1][2] = t[2] /\ p[2] = t[3]
    BY <2>1
  <2>3. f[p] = <<t[1], t[2], t[3]>> /\ t = <<t[1], t[2], t[3]>>
    BY <2>2
  <2> QED
    BY <2>2, <2>3
<1> HIDE DEF nested, triples, f
<1>4. f \in Surjection(nested, triples)
  BY <1>2, <1>3 DEF Surjection
<1>5. IsFiniteSet(triples)
  BY ONLY <1>1, <1>4, FS_Surjection
<1> QED
  BY <1>5 DEF triples

LEMMA AxisIsFinite ==
  ASSUME NEW values \in Seq(Nat)
  PROVE  IsFiniteSet(Axis(values)) /\ (Len(values) >= 1 => Axis(values) # {})
<1>1. PICK n : n = Len(values)
  OBVIOUS
<1>2. n \in Nat /\ DOMAIN values = 1..n
  BY <1>1, LenProperties
<1> DEFINE T == {values[i] : i \in 1..n}
<1>3. Axis(values) = T
  BY <1>2 DEF Axis, ToSet
<1>4. values \in [1..n -> T] /\ \A t \in T : \E i \in 1..n : values[i] = t
  BY <1>1, <1>2
<1>5. values \in Surjection(1..n, T)
  BY <1>4 DEF Surjection
<1>6. IsFiniteSet(1..n)
  BY <1>2, FS_Interval
<1>7. n >= 1 => 1 \in 1..n
  BY <1>2
<1>8. n >= 1 => T # {}
  BY <1>7
<1> HIDE DEF T
<1>9. IsFiniteSet(T)
  BY ONLY <1>5, <1>6, FS_Surjection
<1> QED
  BY <1>1, <1>3, <1>8, <1>9

\* A matrix has finitely many points, and at least one.
LEMMA MatrixIsFinite ==
  ASSUME NEW c \in Configs, ScalingPlan(c)
  PROVE  /\ DOMAIN matrix_points(c) = 1..Len(matrix_points(c))
         /\ Len(matrix_points(c)) \in Nat /\ Len(matrix_points(c)) >= 1
<1> DEFINE mem == Axis(c.memory)
           counts == Axis(c.counts)
           K == DOMAIN Declared
           points == UNION {PointsOf(k, c) : k \in K}
           all == K \X (mem \cup {Min(mem)}) \X (counts \cup {1})
<1>1. IsFiniteSet(mem) /\ IsFiniteSet(counts) /\ mem # {} /\ counts # {}
  <2>1. c.memory \in Seq(Nat) /\ c.counts \in Seq(Nat)
    BY LabAssumption
  <2>2. Len(c.memory) \in 1..MAX_SCALE_AXIS /\ Len(c.counts) \in 1..MAX_SCALE_AXIS
    BY DEF ScalingPlan, validate_scale_axis
  <2>3. Len(c.memory) >= 1 /\ Len(c.counts) >= 1
    <3>1. \A n \in 1..MAX_SCALE_AXIS : n >= 1
      BY DEF MAX_SCALE_AXIS
    <3> QED
      BY <2>2, <3>1
  <2>4. IsFiniteSet(mem) /\ mem # {}
    BY <2>1, <2>3, AxisIsFinite
  <2>5. IsFiniteSet(counts) /\ counts # {}
    BY <2>1, <2>3, AxisIsFinite
  <2> QED
    BY <2>4, <2>5
<1>2. IsFiniteSet(K) /\ 1 \in K
  <2>1. PICK n : n = Len(Declared)
    OBVIOUS
  <2>2. n \in Nat /\ K = 1..n /\ n # 0
    BY <2>1, LabAssumption, LenProperties, EmptySeq
  <2>3. IsFiniteSet(1..n)
    BY <2>2, FS_Interval
  <2> QED
    BY <2>2, <2>3
<1> HIDE DEF mem, counts, K
<1>3. IsFiniteSet(all)
  BY <1>1, <1>2, FS_AddElement, TriplesAreFinite
<1>4. points \subseteq all
  <2> SUFFICES ASSUME NEW k \in K, NEW p \in PointsOf(k, c) PROVE p \in all
    OBVIOUS
  <2> QED
    BY DEF PointsOf, mem, counts
<1>5. points # {}
  <2>1. PICK m \in mem, n \in counts : TRUE
    BY <1>1
  <2>2. \/ <<1, m, n>> \in PointsOf(1, c) \/ <<1, m, 1>> \in PointsOf(1, c)
        \/ <<1, Min(mem), 1>> \in PointsOf(1, c)
    BY <2>1 DEF PointsOf, mem, counts
  <2> QED
    BY <1>2, <2>2
<1> HIDE DEF points, all
<1>6. PICK n : n = Cardinality(points)
  OBVIOUS
<1>7. n \in Nat /\ n >= 1
  BY <1>3, <1>4, <1>5, <1>6, FS_Subset, FS_CardinalityType, FS_EmptySet
<1>8. DOMAIN matrix_points(c) = 1..n
  BY <1>6 DEF matrix_points, points, K
<1>9. Len(matrix_points(c)) = n
  <2>1. PICK g : matrix_points(c) = [i \in 1..n |-> g[i]]
    <3>1. matrix_points(c) = [i \in 1..n |-> matrix_points(c)[i]]
      BY <1>6 DEF matrix_points, points, K
    <3> QED
      BY <3>1
  <2> QED
    BY <1>7, <2>1
<1> QED
  BY <1>7, <1>8, <1>9

-----------------------------------------------------------------------------
(* The report. *)

\* What a command left, of everything it produced.
RunOK(m) ==
    /\ m.latency \in Nat
    /\ m.log <= config.max_log_bytes /\ (m.truncated <=> m.produced > m.log)

\* No measurement, or one of a command whose log is an artifact.
Measured(s, name) ==
    s = <<>> \/ \E m : s = <<m>> /\ RunOK(m) /\ name \in ToSet(artifacts)

RowOK(r, i) ==
    /\ r.scenario = Points[i].scenario /\ r.memory = Points[i].memory /\ r.count = Points[i].count
    /\ r.log \in ToSet(artifacts)
    /\ Measured(r.dump, <<i, "dump">>) /\ Measured(r.restore, <<i, "restore">>)
    /\ r.status = "supported" =>
          /\ r.dump # <<>> /\ r.dump[1].success /\ r.restore # <<>> /\ r.restore[1].success
          /\ Files(r) \subseteq r.resumed \cup r.ahead

Working == {"row", "snapshot", "dump", "restore", "verify"}

\* An artifact is of a row that is there, or of the stages the next one has passed.
NameOK(a) ==
    \/ a[1] \in Nat /\ a[1] <= Len(rows)
    \/ a = <<index, "dump">> /\ lab \in {"restore", "verify", "error"}
    \/ a = <<index, "restore">> /\ lab \in {"verify", "error"}

KeepMeans ==
    /\ InScope # {}
    /\ \A i \in InScope : rows[i].status = "supported"
    /\ 20 * Cardinality({i \in InScope : rows[i].dump[1].latency > checkpoint_pause_p95_ms})
          <= Cardinality(InScope)
    /\ 20 * Cardinality({i \in InScope : rows[i].restore[1].latency > restore_p95_ms})
          <= Cardinality(InScope)

StageInv ==
    /\ config \in Configs
    /\ lab \notin {"new", "refused"} => RunLimits(config) /\ ScalingPlan(config)
    /\ lab \in {"new", "probe"} => rows = <<>>
    /\ lab \in Working => Len(rows) < Len(Points)
    /\ lab \in {"decide", "write", "done"} => Len(rows) = Len(Points)
    /\ lab = "restore" => \E m : runs = <<m>> /\ m.success
    /\ lab = "verify" => \E m, n : runs = <<m, n>> /\ m.success /\ n.success
    /\ decision # "none" => lab \in {"write", "done", "refused"} /\ (decision = "keep" <=> KeepMeans)

NamesInv ==
    /\ IsSeq(artifacts) /\ IsInjective(artifacts)
    /\ \A k \in 1..Len(artifacts) : NameOK(artifacts[k])

RowsInv ==
    /\ IsSeq(rows) /\ \A i \in 1..Len(rows) : RowOK(rows[i], i)
    /\ lab \in {"restore", "verify"} => Measured(<<runs[1]>>, <<index, "dump">>)
    /\ lab = "verify" => Measured(<<runs[2]>>, <<index, "restore">>)

CriuInv == StageInv /\ NamesInv /\ RowsInv

\* A log takes what fits of the three streams, and says whether that was all.
LEMMA RunMeasured ==
  ASSUME RunLimits(config), NEW c \in Commands, NEW size \in CriuLogs
  PROVE  RunOK(merge_criu_log(run_bounded(c, config.max_log_bytes), size, config.max_log_bytes))
<1>1. PICK max : max = config.max_log_bytes
  OBVIOUS
<1>2. max \in Nat
  BY <1>1 DEF RunLimits, MIN_LOG_BYTES
<1>3. PICK out, err : out = c.stdout /\ err = c.stderr
  OBVIOUS
<1>4. out \in Nat /\ err \in Nat /\ size \in Nat /\ c.latency \in Nat
  BY <1>3, LabAssumption
<1>5. PICK first : first = run_bounded(c, max)
  OBVIOUS
<1>6. PICK o, e, named : o = Least(out, max) /\ e = Least(err, max) /\ named = o + Least(e, max - o)
  OBVIOUS
<1>7. /\ first = [success |-> c.launched /\ c.exit = 0 /\ ~c.timed_out,
                timed_out |-> c.timed_out, says |-> c.says, latency |-> c.latency,
                log |-> named, truncated |-> (out > max) \/ (err > max) \/ e > max - o,
                produced |-> out + err]
  BY <1>3, <1>5, <1>6 DEF run_bounded, capture_stream
<1>8. PICK m : m = merge_criu_log(first, size, max)
  OBVIOUS
<1>9. /\ m.latency = c.latency /\ m.log = named + Least(size, max - named)
      /\ m.produced = out + err + size
  BY <1>7, <1>8 DEF merge_criu_log, capture_stream
<1>10. m.truncated <=> (out > max) \/ (err > max) \/ (e > max - o) \/ (size > max - named)
  BY <1>7, <1>8 DEF merge_criu_log, capture_stream
<1>11. PICK l, p : l = named + Least(size, max - named) /\ p = out + err + size
  OBVIOUS
<1>12. /\ l <= max
       /\ (out > max) \/ (err > max) \/ (e > max - o) \/ (size > max - named) <=> p > l
  BY <1>2, <1>4, <1>6, <1>11 DEF Least
<1> QED
  BY <1>1, <1>4, <1>5, <1>8, <1>9, <1>10, <1>11, <1>12 DEF RunOK

LEMMA ConcatAny ==
  ASSUME NEW s, IsSeq(s), NEW t, IsSeq(t)
  PROVE  /\ IsSeq(s \o t) /\ Len(s) \in Nat /\ Len(t) \in Nat /\ Len(s \o t) = Len(s) + Len(t)
         /\ DOMAIN (s \o t) = 1..(Len(s) + Len(t))
         /\ \A i \in 1..Len(s) : (s \o t)[i] = s[i]
         /\ \A i \in 1..Len(t) : (s \o t)[Len(s) + i] = t[i]
<1>1. PICK S, T : s \in Seq(S) /\ t \in Seq(T)
  BY DEF IsSeq
<1> DEFINE U == S \cup T
<1>2. PICK m, n : m = Len(s) /\ n = Len(t)
  OBVIOUS
<1>3. /\ m \in Nat /\ DOMAIN s = 1..m /\ \A i \in 1..m : s[i] \in S
      /\ n \in Nat /\ DOMAIN t = 1..n /\ \A i \in 1..n : t[i] \in T
  BY <1>1, <1>2, LenProperties, ElementOfSeq
<1>4. s \in Seq(U) /\ t \in Seq(U)
  <2>1. s \in [1..m -> U] /\ t \in [1..n -> U]
    BY <1>1, <1>2, <1>3
  <2> QED
    BY <1>3, <2>1
<1> HIDE DEF U
<1>5. PICK c : c = s \o t
  OBVIOUS
<1>6. c \in Seq(U) /\ Len(c) = m + n
  BY <1>2, <1>4, <1>5, ConcatProperties
<1>7. \A i \in 1..(m + n) : c[i] = IF i <= m THEN s[i] ELSE t[i - m]
  BY <1>2, <1>4, <1>5, ConcatProperties
<1>8. \A i \in 1..m : c[i] = s[i]
  BY <1>3, <1>7
<1>9. \A i \in 1..n : c[m + i] = t[i]
  <2> SUFFICES ASSUME NEW i \in 1..n PROVE c[m + i] = t[i]
    OBVIOUS
  <2>1. m + i \in 1..(m + n) /\ ~(m + i <= m) /\ (m + i) - m = i
    BY <1>3
  <2> QED
    BY <1>7, <2>1
<1>10. DOMAIN c = 1..(m + n)
  BY <1>6, LenProperties
<1> QED
  BY <1>2, <1>3, <1>5, <1>6, <1>8, <1>9, <1>10 DEF IsSeq

LEMMA NamesAre ==
  ASSUME NEW s, IsSeq(s)
  PROVE  /\ Len(s) \in Nat /\ DOMAIN s = 1..Len(s)
         /\ \A a : a \in ToSet(s) <=> \E k \in 1..Len(s) : s[k] = a
BY AppendAny DEF ToSet

\* What one row says stays true when artifacts are added.
LEMMA RowStays ==
  ASSUME UNCHANGED config, ToSet(artifacts) \subseteq ToSet(artifacts'), NEW r, NEW i, RowOK(r, i)
  PROVE  RowOK(r, i)'
BY DEF RowOK, Measured, RunOK, Points, matrix_points

LEMMA MeasuredStays ==
  ASSUME UNCHANGED config, ToSet(artifacts) \subseteq ToSet(artifacts'), NEW s, NEW name, Measured(s, name)
  PROVE  Measured(s, name)'
BY DEF Measured, RunOK

\* Two lists of names without one in common.
LEMMA NamesJoin ==
  ASSUME NEW s, IsSeq(s), IsInjective(s), NEW logs, IsSeq(logs), IsInjective(logs),
         \A k \in 1..Len(logs) : logs[k] \notin ToSet(s)
  PROVE  /\ IsSeq(s \o logs) /\ IsInjective(s \o logs)
         /\ \A a : a \in ToSet(s \o logs) <=> a \in ToSet(s) \/ a \in ToSet(logs)
<1>1. PICK t, m, n : t = s \o logs /\ m = Len(s) /\ n = Len(logs)
  OBVIOUS
<1>2. /\ m \in Nat /\ n \in Nat /\ DOMAIN s = 1..m /\ DOMAIN logs = 1..n
      /\ IsSeq(t) /\ DOMAIN t = 1..(m + n) /\ Len(t) = m + n
      /\ (\A i \in 1..m : t[i] = s[i]) /\ \A i \in 1..n : t[m + i] = logs[i]
  BY <1>1, ConcatAny, NamesAre
<1>3. \A i \in 1..(m + n) : i \in 1..m \/ \E j \in 1..n : i = m + j
  <2> SUFFICES ASSUME NEW i \in 1..(m + n), i \notin 1..m PROVE \E j \in 1..n : i = m + j
    OBVIOUS
  <2>1. i - m \in 1..n /\ i = m + (i - m)
    BY <1>2
  <2> QED
    BY <2>1
<1>4. \A i \in 1..m, j \in 1..n : s[i] # logs[j]
  <2> SUFFICES ASSUME NEW i \in 1..m, NEW j \in 1..n PROVE s[i] # logs[j]
    OBVIOUS
  <2>1. s[i] \in ToSet(s)
    BY <1>2 DEF ToSet
  <2>2. logs[j] \notin ToSet(s)
    BY <1>1
  <2> QED
    BY <2>1, <2>2
<1>5. /\ \A i, j \in 1..m : s[i] = s[j] => i = j
      /\ \A i, j \in 1..n : logs[i] = logs[j] => i = j
  BY <1>1, <1>2 DEF IsInjective
<1>6. ASSUME NEW i \in 1..m, NEW j \in 1..(m + n), j \notin 1..m, t[i] = t[j] PROVE FALSE
  <2>1. PICK k \in 1..n : j = m + k
    BY <1>3, <1>6
  <2>2. s[i] = logs[k]
    BY <1>2, <1>6, <2>1
  <2> QED
    BY <1>4, <2>2
<1>12. \A i, j \in 1..(m + n) : t[i] = t[j] => i = j
  <2> SUFFICES ASSUME NEW i \in 1..(m + n), NEW j \in 1..(m + n), t[i] = t[j] PROVE i = j
    OBVIOUS
  <2>1. CASE i \in 1..m /\ j \in 1..m
    BY <1>2, <1>5, <2>1
  <2>2. CASE i \in 1..m /\ j \notin 1..m
    BY <1>6, <2>2
  <2>3. CASE i \notin 1..m /\ j \in 1..m
    BY <1>6, <2>3
  <2>4. CASE i \notin 1..m /\ j \notin 1..m
    <3>1. PICK k \in 1..n : i = m + k
      BY <1>3, <2>4
    <3>2. PICK l \in 1..n : j = m + l
      BY <1>3, <2>4
    <3>3. logs[k] = logs[l]
      BY <1>2, <3>1, <3>2
    <3>4. k = l
      BY <1>5, <3>3
    <3> QED
      BY <3>1, <3>2, <3>4
  <2> QED
    BY <2>1, <2>2, <2>3, <2>4
<1>7. IsInjective(t)
  BY <1>2, <1>12 DEF IsInjective
<1>8. ToSet(s) = {s[i] : i \in 1..m} /\ ToSet(logs) = {logs[i] : i \in 1..n}
      /\ ToSet(t) = {t[i] : i \in 1..(m + n)}
  BY <1>2 DEF ToSet
<1>9. \A i \in 1..m : i \in 1..(m + n)
  BY <1>2
<1>10. \A i \in 1..n : m + i \in 1..(m + n)
  BY <1>2
<1>11. ASSUME NEW a PROVE a \in ToSet(t) <=> a \in ToSet(s) \/ a \in ToSet(logs)
  <2>1. ASSUME a \in ToSet(t) PROVE a \in ToSet(s) \/ a \in ToSet(logs)
    <3>1. PICK i \in 1..(m + n) : t[i] = a
      BY <1>8, <2>1
    <3> QED
      BY <1>2, <1>3, <1>8, <3>1
  <2>2. ASSUME a \in ToSet(s) PROVE a \in ToSet(t)
    BY <1>2, <1>8, <1>9, <2>2
  <2>3. ASSUME a \in ToSet(logs) PROVE a \in ToSet(t)
    BY <1>2, <1>8, <1>10, <2>3
  <2> QED
    BY <2>1, <2>2, <2>3
<1> QED
  BY <1>1, <1>2, <1>7, <1>11

\* Names of the next row's that are new are added.
LEMMA NamesGrow ==
  ASSUME CriuInv, NEW logs, IsSeq(logs), IsInjective(logs), artifacts' = artifacts \o logs,
         \A k \in 1..Len(logs) : logs[k] \notin ToSet(artifacts)
  PROVE  /\ IsSeq(artifacts') /\ IsInjective(artifacts')
         /\ \A a : a \in ToSet(artifacts') <=> a \in ToSet(artifacts) \/ a \in ToSet(logs)
BY NamesJoin DEF CriuInv, NamesInv

\* The names that are not taken at each stage.
LEMMA FreshNames ==
  ASSUME CriuInv, NEW stage,
         \/ lab \in {"row", "dump"}
         \/ lab = "restore" /\ stage # "dump"
         \/ lab = "verify" /\ stage \notin {"dump", "restore"}
  PROVE  <<index, stage>> \notin ToSet(artifacts)
<1>1. PICK n : n = Len(rows)
  OBVIOUS
<1>2. n \in Nat /\ index = n + 1
  BY <1>1, AppendAny DEF CriuInv, RowsInv, index
<1>3. SUFFICES ASSUME <<index, stage>> \in ToSet(artifacts) PROVE FALSE
  OBVIOUS
<1>4. PICK k \in 1..Len(artifacts) : artifacts[k] = <<index, stage>>
  BY <1>3, NamesAre DEF CriuInv, NamesInv
<1>5. NameOK(<<index, stage>>)
  BY <1>4 DEF CriuInv, NamesInv
<1>6. CASE <<index, stage>>[1] <= Len(rows)
  BY <1>1, <1>2, <1>6
<1>7. CASE <<index, stage>> = <<index, "dump">>
  BY <1>5, <1>6, <1>7 DEF NameOK
<1>8. CASE <<index, stage>> = <<index, "restore">>
  BY <1>5, <1>6, <1>8 DEF NameOK
<1> QED
  BY <1>5, <1>6, <1>7, <1>8 DEF NameOK

\* A row is added with its artifacts.
LEMMA AddRowKeeps ==
  ASSUME CriuInv, lab \in Working, UNCHANGED <<config, decision>>,
         NEW row, NEW logs, IsSeq(logs), IsInjective(logs), AddRow(row, logs),
         \A k \in 1..Len(logs) : logs[k][1] = index /\ logs[k] \notin ToSet(artifacts),
         NEW j, j = index, RowOK(row, j)'
  PROVE  CriuInv'
<1>1. PICK n, s, t : n = Len(rows) /\ s = rows /\ t = rows'
  OBVIOUS
<1>2. /\ n \in Nat /\ IsSeq(t) /\ Len(t) = n + 1
      /\ (\A i \in 1..n : t[i] = s[i]) /\ t[n + 1] = row /\ index = n + 1 /\ index \in Nat
  BY <1>1, AppendAny DEF CriuInv, RowsInv, AddRow, index
<1>3. /\ IsSeq(artifacts') /\ IsInjective(artifacts')
      /\ \A a : a \in ToSet(artifacts') <=> a \in ToSet(artifacts) \/ a \in ToSet(logs)
  BY NamesGrow DEF AddRow
<1>4. NamesInv'
  <2>1. \A k \in 1..Len(artifacts') : artifacts'[k][1] \in Nat /\ artifacts'[k][1] <= n + 1
    <3> SUFFICES ASSUME NEW k \in 1..Len(artifacts')
                 PROVE  artifacts'[k][1] \in Nat /\ artifacts'[k][1] <= n + 1
      OBVIOUS
    <3>1. PICK a : a = artifacts'[k]
      OBVIOUS
    <3>2. a \in ToSet(artifacts) \/ a \in ToSet(logs)
      BY <1>3, <3>1, NamesAre
    <3>3. CASE a \in ToSet(logs)
      BY <1>2, <3>1, <3>3, NamesAre
    <3>4. CASE a \in ToSet(artifacts)
      <4>1. NameOK(a)
        BY <3>4, NamesAre DEF CriuInv, NamesInv
      <4>2. CASE a[1] \in Nat /\ a[1] <= n
        BY <1>2, <3>1, <4>2
      <4>3. CASE a = <<index, "dump">> \/ a = <<index, "restore">>
        BY <1>2, <3>1, <4>3
      <4> QED
        BY <1>1, <4>1, <4>2, <4>3 DEF NameOK
    <3> QED
      BY <3>2, <3>3, <3>4
  <2> QED
    BY <1>1, <1>2, <1>3, <2>1 DEF NamesInv, NameOK
<1>5. RowsInv'
  <2>1. \A i \in 1..n : RowOK(s[i], i)'
    <3> SUFFICES ASSUME NEW i \in 1..n PROVE RowOK(s[i], i)'
      OBVIOUS
    <3>1. PICK r : r = s[i]
      OBVIOUS
    <3>2. RowOK(r, i)
      BY <1>1, <3>1 DEF CriuInv, RowsInv
    <3>3. RowOK(r, i)'
      BY <1>3, <3>2, RowStays
    <3> QED
      BY <3>1, <3>3
  <2>2. \A i \in 1..(n + 1) : i \in 1..n \/ i = n + 1
    BY <1>2
  <2>5. \A i \in 1..(n + 1) : RowOK(t[i], i)'
    BY <1>2, <2>1, <2>2
  <2>6. lab' \in {"row", "decide"}
    BY DEF AddRow
  <2> QED
    BY <1>1, <1>2, <2>5, <2>6 DEF RowsInv
<1>6. StageInv'
  <2>1. PICK m : m = Len(Points)
    OBVIOUS
  <2>2. lab \notin {"new", "refused", "probe", "write", "done"} /\ decision = "none"
    BY DEF Working, CriuInv, StageInv
  <2>3. RunLimits(config) /\ ScalingPlan(config) /\ config \in Configs
    BY <2>2 DEF CriuInv, StageInv
  <2>4. m \in Nat /\ n < m /\ Len(Points') = m
    BY <1>1, <2>1, <2>3, MatrixIsFinite DEF CriuInv, StageInv, Points
  <2>5. lab' = IF n + 1 = m THEN "decide" ELSE "row"
    BY <1>1, <1>2, <2>1 DEF AddRow
  <2>6. lab' \in Working => n + 1 < m
    BY <1>2, <2>4, <2>5 DEF Working
  <2> QED
    BY <1>1, <1>2, <2>2, <2>3, <2>4, <2>5, <2>6 DEF StageInv
<1> QED
  BY <1>4, <1>5, <1>6 DEF CriuInv

\* A step that adds neither rows nor artifacts and has no measurement to keep.
LEMMA NothingReported ==
  ASSUME CriuInv, UNCHANGED <<config, rows, artifacts>>,
         lab' = lab \/ lab' \notin {"restore", "verify"}, UNCHANGED runs \/ lab' \notin {"restore", "verify"},
         \/ lab \in {"new", "probe", "row", "snapshot", "dump", "decide", "write", "done", "refused"}
         \/ lab' = lab
  PROVE  NamesInv' /\ RowsInv'
<1>1. index' = index /\ ToSet(artifacts') = ToSet(artifacts)
  BY DEF index
<1>2. \A k : NameOK(artifacts[k]) => NameOK(artifacts[k])'
  BY <1>1 DEF NameOK
<1>3. NamesInv'
  BY <1>1, <1>2 DEF CriuInv, NamesInv
<1>4. \A i : RowOK(rows[i], i) => RowOK(rows[i], i)'
  <2> SUFFICES ASSUME NEW i, RowOK(rows[i], i) PROVE RowOK(rows[i], i)'
    OBVIOUS
  <2>1. PICK r : r = rows[i]
    OBVIOUS
  <2>2. RowOK(r, i)'
    BY <1>1, <2>1, RowStays
  <2> QED
    BY <2>1, <2>2
<1>5. lab' \in {"restore", "verify"} =>
         /\ Measured(<<runs[1]>>, <<index, "dump">>)'
         /\ lab' = "verify" => Measured(<<runs[2]>>, <<index, "restore">>)'
  <2> SUFFICES ASSUME lab' \in {"restore", "verify"}
               PROVE  /\ Measured(<<runs[1]>>, <<index, "dump">>)'
                      /\ lab' = "verify" => Measured(<<runs[2]>>, <<index, "restore">>)'
    OBVIOUS
  <2>1. lab' = lab /\ runs' = runs
    OBVIOUS
  <2>2. PICK r, i : r = runs /\ i = index
    OBVIOUS
  <2>3. Measured(<<r[1]>>, <<i, "dump">>) /\ (lab = "verify" => Measured(<<r[2]>>, <<i, "restore">>))
    BY <2>1, <2>2 DEF CriuInv, RowsInv
  <2>4. Measured(<<r[1]>>, <<i, "dump">>)'
    BY <1>1, <2>3, MeasuredStays
  <2>5. lab = "verify" => Measured(<<r[2]>>, <<i, "restore">>)'
    BY <1>1, <2>3, MeasuredStays
  <2> QED
    BY <1>1, <2>1, <2>2, <2>4, <2>5
<1> QED
  BY <1>3, <1>4, <1>5 DEF CriuInv, RowsInv

\* A command that succeeds names its log and goes on.
LEMMA LogKeeps ==
  ASSUME CriuInv, NEW stage, NEW m, RunOK(m), UNCHANGED <<config, rows>>,
         artifacts' = Append(artifacts, <<index, stage>>),
         \/ /\ stage = "dump" /\ lab = "dump" /\ lab' = "restore" /\ runs' = <<m>>
         \/ /\ stage = "restore" /\ lab = "restore" /\ lab' = "verify"
            /\ \E n : runs = <<n>> /\ runs' = <<n, m>>
  PROVE  NamesInv' /\ RowsInv'
<1>1. PICK s, t, k, i, name : /\ s = artifacts /\ t = artifacts' /\ k = Len(s) /\ i = index
                             /\ name = <<i, stage>>
  OBVIOUS
<1>2. name \notin ToSet(s)
  BY <1>1, FreshNames
<1>3. /\ k \in Nat /\ IsSeq(t) /\ Len(t) = k + 1 /\ DOMAIN s = 1..k /\ DOMAIN t = 1..(k + 1)
      /\ (\A j \in 1..k : t[j] = s[j]) /\ t[k + 1] = name
  BY <1>1, AppendAny DEF CriuInv, NamesInv
<1>4. \A j \in 1..(k + 1) : j \in 1..k \/ j = k + 1
  BY <1>3
<1>5. \A j \in 1..k : s[j] # name
  BY <1>2, <1>3 DEF ToSet
<1>6. \A a, b \in 1..k : s[a] = s[b] => a = b
  BY <1>1, <1>3 DEF CriuInv, NamesInv, IsInjective
<1>7. \A a, b \in 1..(k + 1) : t[a] = t[b] => a = b
  BY <1>3, <1>4, <1>5, <1>6
<1>8. IsInjective(t)
  BY <1>3, <1>7 DEF IsInjective
<1>9. index' = i
  BY <1>1 DEF index
<1>10. \A j \in 1..k : NameOK(s[j])'
  BY <1>1, <1>9 DEF CriuInv, NamesInv, NameOK
<1>11. NameOK(name)'
  BY <1>1, <1>9 DEF NameOK
<1>12. NamesInv'
  <2>1. \A j \in 1..(k + 1) : NameOK(t[j])'
    BY <1>3, <1>4, <1>10, <1>11
  <2> QED
    BY <1>1, <1>3, <1>8, <2>1 DEF NamesInv
<1>13. ToSet(s) \subseteq ToSet(t) /\ name \in ToSet(t)
  <2>1. ToSet(s) = {s[j] : j \in 1..k} /\ ToSet(t) = {t[j] : j \in 1..(k + 1)}
    BY <1>3 DEF ToSet
  <2>2. (\A j \in 1..k : j \in 1..(k + 1)) /\ k + 1 \in 1..(k + 1)
    BY <1>3
  <2> QED
    BY <1>3, <2>1, <2>2
<1>14. \A j \in 1..Len(rows) : RowOK(rows[j], j)'
  <2> SUFFICES ASSUME NEW j \in 1..Len(rows) PROVE RowOK(rows[j], j)'
    OBVIOUS
  <2>1. PICK r : r = rows[j]
    OBVIOUS
  <2>2. RowOK(r, j)
    BY <2>1 DEF CriuInv, RowsInv
  <2>3. RowOK(r, j)'
    BY <1>1, <1>13, <2>2, RowStays
  <2> QED
    BY <2>1, <2>3
<1>15. Measured(<<m>>, name)'
  <2>1. RunOK(m)'
    BY DEF RunOK
  <2> QED
    BY <1>1, <1>13, <2>1 DEF Measured
<1>16. CASE stage = "dump"
  <2>1. lab' = "restore" /\ runs' = <<m>> /\ <<m>>[1] = m
    BY <1>16
  <2>2. Measured(<<runs[1]>>, <<index, "dump">>)'
    BY <1>1, <1>9, <1>15, <1>16, <2>1
  <2> QED
    BY <1>12, <1>14, <2>1, <2>2 DEF RowsInv, CriuInv
<1>17. CASE stage = "restore"
  <2>1. PICK n : runs = <<n>> /\ runs' = <<n, m>>
    BY <1>17
  <2>2. <<n>>[1] = n /\ <<n, m>>[1] = n /\ <<n, m>>[2] = m
    OBVIOUS
  <2>3. Measured(<<n>>, <<i, "dump">>)
    BY <1>1, <1>17, <2>1, <2>2 DEF CriuInv, RowsInv
  <2>4. Measured(<<n>>, <<i, "dump">>)'
    BY <1>1, <1>13, <2>3, MeasuredStays
  <2>5. Measured(<<runs[1]>>, <<index, "dump">>)' /\ Measured(<<runs[2]>>, <<index, "restore">>)'
    BY <1>1, <1>9, <1>15, <1>17, <2>1, <2>2, <2>4
  <2> QED
    BY <1>12, <1>14, <2>5 DEF RowsInv, CriuInv
<1> QED
  BY <1>16, <1>17

LEMMA FewNames ==
  ASSUME NEW a, NEW b, a # b
  PROVE  /\ IsSeq(<<a>>) /\ Len(<<a>>) = 1 /\ IsInjective(<<a>>) /\ ToSet(<<a>>) = {a}
         /\ IsSeq(<<a, b>>) /\ Len(<<a, b>>) = 2 /\ IsInjective(<<a, b>>) /\ ToSet(<<a, b>>) = {a, b}
<1>1. <<a>> \in Seq({a}) /\ <<a, b>> \in Seq({a, b})
  OBVIOUS
<1>2. DOMAIN <<a>> = 1..1 /\ DOMAIN <<a, b>> = 1..2
  OBVIOUS
<1>3. (\A i \in 1..1 : i = 1) /\ (\A i \in 1..2 : i = 1 \/ i = 2) /\ 1 \in 1..1 /\ 1 \in 1..2 /\ 2 \in 1..2
  OBVIOUS
<1>4. <<a>>[1] = a /\ <<a, b>>[1] = a /\ <<a, b>>[2] = b
  OBVIOUS
<1>5. ToSet(<<a>>) = {<<a>>[i] : i \in 1..1} /\ ToSet(<<a, b>>) = {<<a, b>>[i] : i \in 1..2}
  BY <1>2 DEF ToSet
<1>6. ToSet(<<a>>) = {a} /\ ToSet(<<a, b>>) = {a, b}
  BY <1>3, <1>4, <1>5
<1>7. IsInjective(<<a>>)
  BY <1>2, <1>3 DEF IsInjective
<1>8. IsInjective(<<a, b>>)
  BY <1>2, <1>3, <1>4 DEF IsInjective
<1> QED
  BY <1>1, <1>6, <1>7, <1>8 DEF IsSeq

\* A row that is not supported is added.
LEMMA UnsupportedRowKeeps ==
  ASSUME CriuInv, lab \in Working, UNCHANGED <<config, decision>>,
         NEW p, p = Points[index], NEW class, class[1] # "supported", NEW named, NEW d, NEW r, NEW verified,
         NEW logs, IsSeq(logs), IsInjective(logs), named \in ToSet(logs),
         \A k \in 1..Len(logs) : logs[k][1] = index /\ logs[k] \notin ToSet(artifacts),
         AddRow(Row(p, class, named, d, r, verified), logs),
         \/ Measured(d, <<index, "dump">>)
         \/ <<index, "dump">> \in ToSet(logs) /\ \E m : d = <<m>> /\ RunOK(m),
         \/ Measured(r, <<index, "restore">>)
         \/ <<index, "restore">> \in ToSet(logs) /\ \E m : r = <<m>> /\ RunOK(m)
  PROVE  CriuInv'
<1>1. PICK i, row : i = index /\ row = Row(p, class, named, d, r, verified)
  OBVIOUS
<1>2. /\ row.scenario = p.scenario /\ row.memory = p.memory /\ row.count = p.count /\ row.log = named
      /\ row.dump = d /\ row.restore = r /\ row.status # "supported"
  BY <1>1 DEF Row
<1>3. \A a : a \in ToSet(artifacts') <=> a \in ToSet(artifacts) \/ a \in ToSet(logs)
  BY NamesGrow DEF AddRow
<1>4. ToSet(artifacts) \subseteq ToSet(artifacts') /\ named \in ToSet(artifacts')
  BY <1>3
<1>5. Measured(d, <<i, "dump">>)'
  <2>1. CASE Measured(d, <<i, "dump">>)
    BY <1>4, <2>1, MeasuredStays
  <2>2. CASE <<i, "dump">> \in ToSet(logs) /\ \E m : d = <<m>> /\ RunOK(m)
    BY <1>3, <2>2 DEF Measured, RunOK
  <2> QED
    BY <1>1, <2>1, <2>2
<1>6. Measured(r, <<i, "restore">>)'
  <2>1. CASE Measured(r, <<i, "restore">>)
    BY <1>4, <2>1, MeasuredStays
  <2>2. CASE <<i, "restore">> \in ToSet(logs) /\ \E m : r = <<m>> /\ RunOK(m)
    BY <1>3, <2>2 DEF Measured, RunOK
  <2> QED
    BY <1>1, <2>1, <2>2
<1>7. p = Points'[i]
  BY <1>1 DEF Points, matrix_points
<1>8. RowOK(row, i)'
  BY <1>2, <1>4, <1>5, <1>6, <1>7 DEF RowOK
<1> QED
  BY <1>1, <1>8, AddRowKeeps

LEMMA CommandFailureKeeps ==
  ASSUME CriuInv, UNCHANGED <<config, decision>>,
         NEW m, RunOK(m), NEW stage, NEW d, NEW r, row_from_command_failure(m, stage, d, r),
         \/ lab = "dump" /\ stage = "dump" /\ d = <<m>> /\ r = <<>>
         \/ lab = "restore" /\ stage = "restore" /\ d = runs /\ r = <<m>>
  PROVE  CriuInv'
<1>1. PICK class : class = command_failure_classification(m, stage)
  OBVIOUS
<1>2. class[1] # "supported"
  BY <1>1 DEF command_failure_classification
<1>3. PICK a, b : a = <<index, stage>> /\ b = diagnostic_log
  OBVIOUS
<1>4. a # b /\ a[1] = index /\ b[1] = index
  BY <1>3 DEF diagnostic_log
<1>5. a \notin ToSet(artifacts) /\ b \notin ToSet(artifacts)
  BY <1>3, FreshNames DEF diagnostic_log
<1>6. PICK logs : logs = <<a, b>>
  OBVIOUS
<1>7. IsSeq(logs) /\ Len(logs) = 2 /\ IsInjective(logs) /\ ToSet(logs) = {a, b}
  BY <1>4, <1>6, FewNames
<1>8. \A k \in 1..Len(logs) : logs[k][1] = index /\ logs[k] \notin ToSet(artifacts)
  <2>1. \A k \in 1..2 : logs[k] = a \/ logs[k] = b
    <3>1. \A k \in 1..2 : k = 1 \/ k = 2
      OBVIOUS
    <3>2. logs[1] = a /\ logs[2] = b
      BY <1>6
    <3> QED
      BY <3>1, <3>2
  <2> QED
    BY <1>4, <1>5, <1>7, <2>1
<1>9. \/ Measured(d, <<index, "dump">>)
      \/ <<index, "dump">> \in ToSet(logs) /\ \E n : d = <<n>> /\ RunOK(n)
  <2>1. CASE lab = "dump" /\ stage = "dump" /\ d = <<m>>
    BY <1>3, <1>7, <2>1
  <2>2. CASE lab = "restore" /\ d = runs
    <3>1. PICK n : runs = <<n>>
      BY <2>2 DEF CriuInv, StageInv
    <3>2. runs = <<runs[1]>>
      BY <3>1
    <3> QED
      BY <2>2, <3>2 DEF CriuInv, RowsInv
  <2> QED
    BY <2>1, <2>2
<1>10. \/ Measured(r, <<index, "restore">>)
       \/ <<index, "restore">> \in ToSet(logs) /\ \E n : r = <<n>> /\ RunOK(n)
  BY <1>3, <1>7 DEF Measured
<1>11. AddRow(Row(point, class, b, d, r, FALSE), logs)
  BY <1>1, <1>3, <1>6 DEF row_from_command_failure
<1>12. point = Points[index] /\ b \in ToSet(logs) /\ lab \in Working
  BY <1>7 DEF point, Working
<1> QED
  BY <1>2, <1>7, <1>8, <1>9, <1>10, <1>11, <1>12, UnsupportedRowKeeps

\* The rows that run no command, and one that is added after verification.
LEMMA DiagnosticIsFresh ==
  ASSUME CriuInv, lab \in {"row", "verify"}
  PROVE  /\ diagnostic_log \notin ToSet(artifacts) /\ IsSeq(<<diagnostic_log>>)
         /\ IsInjective(<<diagnostic_log>>) /\ ToSet(<<diagnostic_log>>) = {diagnostic_log}
         /\ \A k \in 1..Len(<<diagnostic_log>>) :
               /\ <<diagnostic_log>>[k][1] = index /\ <<diagnostic_log>>[k] \notin ToSet(artifacts)
<1>1. PICK a, b : a = diagnostic_log /\ b = <<index, "dump">>
  OBVIOUS
<1>2. a # b /\ a[1] = index
  BY <1>1 DEF diagnostic_log
<1>3. a \notin ToSet(artifacts)
  BY <1>1, FreshNames DEF diagnostic_log
<1>4. IsSeq(<<a>>) /\ Len(<<a>>) = 1 /\ IsInjective(<<a>>) /\ ToSet(<<a>>) = {a}
  BY <1>2, FewNames
<1>5. \A k \in 1..1 : <<a>>[k] = a
  OBVIOUS
<1> QED
  BY <1>1, <1>2, <1>3, <1>4, <1>5

LEMMA DiagnosticRowKeeps ==
  ASSUME CriuInv, lab = "row", UNCHANGED <<config, decision>>, NEW class, class[1] # "supported",
         AddRow(Row(point, class, diagnostic_log, <<>>, <<>>, FALSE), <<diagnostic_log>>)
  PROVE  CriuInv'
<1>1. point = Points[index] /\ lab \in Working
  BY DEF point, Working
<1>2. Measured(<<>>, <<index, "dump">>) /\ Measured(<<>>, <<index, "restore">>)
  BY DEF Measured
<1>3. diagnostic_log \in ToSet(<<diagnostic_log>>)
  BY DiagnosticIsFresh
<1> QED
  BY <1>1, <1>2, <1>3, DiagnosticIsFresh, UnsupportedRowKeeps

\* Nothing can be run: every row says so, and the log it names is there.
LEMMA UnsupportedKeeps ==
  ASSUME CriuInv, lab = "probe", UNCHANGED <<config, decision>>, NEW code, Unsupported(code)
  PROVE  CriuInv'
<1>1. PICK m, pts : m = Len(Points) /\ pts = Points
  OBVIOUS
<1>2. m \in Nat /\ DOMAIN pts = 1..m /\ Points' = pts
  BY <1>1, MatrixIsFinite DEF CriuInv, StageInv, Points
<1> DEFINE named(i) == <<i, "diagnostic">>
           logs == [i \in 1..m |-> named(i)]
<1>3. lab' = "decide" /\ artifacts' = ProbeLogs \o logs /\ rows' = unsupported_rows(code)
  BY <1>1, <1>2 DEF Unsupported
<1>4. IsSeq(logs) /\ Len(logs) = m /\ DOMAIN logs = 1..m
  <2>1. logs \in Seq({named(i) : i \in 1..m}) /\ Len(logs) = m
    BY <1>2
  <2> QED
    BY <2>1 DEF IsSeq
<1>5. \A i \in 1..m : logs[i] = named(i) /\ logs[i][1] = i
  OBVIOUS
<1>6. IsInjective(logs)
  BY <1>4, <1>5 DEF IsInjective
<1> HIDE DEF logs
<1>7. IsSeq(ProbeLogs) /\ Len(ProbeLogs) = 4 /\ \A k \in 1..4 : ProbeLogs[k][1] = 0
  <2>1. ProbeLogs \in Seq({<<0, "kernel">>, <<0, "version">>, <<0, "check">>, <<0, "check-all">>})
    BY DEF ProbeLogs
  <2>2. Len(ProbeLogs) = 4 /\ \A k \in 1..4 : ProbeLogs[k][1] = 0
    BY DEF ProbeLogs
  <2> QED
    BY <2>1, <2>2 DEF IsSeq
<1>8. IsInjective(ProbeLogs)
  <2>1. DOMAIN ProbeLogs = 1..4
    BY <1>7, NamesAre
  <2>2. \A j, k \in 1..4 : ProbeLogs[j] = ProbeLogs[k] => j = k
    BY DEF ProbeLogs
  <2> QED
    BY <2>1, <2>2 DEF IsInjective
<1>9. \A k \in 1..m : logs[k] \notin ToSet(ProbeLogs)
  <2> SUFFICES ASSUME NEW k \in 1..m, logs[k] \in ToSet(ProbeLogs) PROVE FALSE
    OBVIOUS
  <2>1. PICK j \in 1..4 : ProbeLogs[j] = logs[k]
    BY <1>7, NamesAre
  <2>2. logs[k][1] = 0
    BY <1>7, <2>1
  <2> QED
    BY <1>5, <2>2
<1>10. /\ IsSeq(artifacts') /\ IsInjective(artifacts')
       /\ \A a : a \in ToSet(artifacts') <=> a \in ToSet(ProbeLogs) \/ a \in ToSet(logs)
  BY <1>3, <1>4, <1>6, <1>7, <1>8, <1>9, NamesJoin
<1>11. PICK t : t = rows'
  OBVIOUS
<1>12. IsSeq(t) /\ Len(t) = m /\ \A i \in 1..m : \E class :
          class[1] # "supported" /\ t[i] = Row(pts[i], class, named(i), <<>>, <<>>, FALSE)
  <2>1. t = [i \in 1..m |-> t[i]]
    BY <1>1, <1>2, <1>3, <1>11 DEF unsupported_rows
  <2>2. t \in Seq({t[i] : i \in 1..m}) /\ Len(t) = m
    BY <1>2, <2>1
  <2>3. \A c : <<"unsupported", c>>[1] # "supported"
    OBVIOUS
  <2>4. \A i \in 1..m : \/ t[i] = Row(pts[i], <<"unsupported", "external_tcp">>, named(i), <<>>, <<>>, FALSE)
                        \/ t[i] = Row(pts[i], <<"unsupported", code>>, named(i), <<>>, <<>>, FALSE)
    BY <1>1, <1>2, <1>3, <1>11 DEF unsupported_rows, external_tcp_row
  <2> QED
    BY <2>2, <2>3, <2>4 DEF IsSeq
<1>13. NamesInv'
  <2>1. \A k \in 1..Len(artifacts') : artifacts'[k][1] \in 0..m
    <3> SUFFICES ASSUME NEW k \in 1..Len(artifacts') PROVE artifacts'[k][1] \in 0..m
      OBVIOUS
    <3>1. PICK a : a = artifacts'[k]
      OBVIOUS
    <3>2. a \in ToSet(ProbeLogs) \/ a \in ToSet(logs)
      BY <1>10, <3>1, NamesAre
    <3>3. CASE a \in ToSet(ProbeLogs)
      <4>1. a[1] = 0
        BY <1>7, <3>3, NamesAre
      <4> QED
        BY <1>2, <3>1, <4>1
    <3>4. CASE a \in ToSet(logs)
      <4>1. a[1] \in 1..m
        BY <1>4, <1>5, <3>4, NamesAre
      <4> QED
        BY <1>2, <3>1, <4>1
    <3> QED
      BY <3>2, <3>3, <3>4
  <2>2. \A x \in 0..m : x \in Nat /\ x <= m
    BY <1>2
  <2> QED
    BY <1>10, <1>11, <1>12, <2>1, <2>2 DEF NamesInv, NameOK
<1>14. RowsInv'
  <2>1. ASSUME NEW i \in 1..m PROVE RowOK(t[i], i)'
    <3>1. PICK class : class[1] # "supported" /\ t[i] = Row(pts[i], class, named(i), <<>>, <<>>, FALSE)
      BY <1>12
    <3>2. PICK r, name : r = t[i] /\ name = named(i)
      OBVIOUS
    <3>3. /\ r.scenario = pts[i].scenario /\ r.memory = pts[i].memory /\ r.count = pts[i].count
          /\ r.log = name /\ r.dump = <<>> /\ r.restore = <<>> /\ r.status # "supported"
      BY <3>1, <3>2 DEF Row
    <3>4. name \in ToSet(artifacts')
      BY <1>4, <1>5, <1>10, <3>2, NamesAre
    <3> HIDE DEF named
    <3>5. RowOK(r, i)'
      BY <1>2, <3>3, <3>4 DEF RowOK, Measured
    <3> QED
      BY <3>2, <3>5
  <2> QED
    BY <1>3, <1>11, <1>12, <2>1 DEF RowsInv
<1>15. StageInv'
  <2>1. decision = "none"
    BY DEF CriuInv, StageInv
  <2> QED
    BY <1>1, <1>2, <1>3, <1>11, <1>12, <2>1 DEF StageInv, CriuInv, Working
<1> QED
  BY <1>13, <1>14, <1>15 DEF CriuInv

\* The latencies of rows that are all supported are numbers.
LEMMA SupportedAreMeasured ==
  ASSUME CriuInv, \A i \in InScope : rows[i].status = "supported"
  PROVE  /\ IsFiniteSet(InScope)
         /\ \A i \in InScope : rows[i].dump[1].latency \in Nat /\ rows[i].restore[1].latency \in Nat
<1>1. PICK n : n = Len(rows)
  OBVIOUS
<1>2. n \in Nat /\ DOMAIN rows = 1..n
  BY <1>1, AppendAny DEF CriuInv, RowsInv
<1>3. InScope \subseteq 1..n
  BY <1>2 DEF InScope
<1>4. IsFiniteSet(InScope)
  <2>1. IsFiniteSet(1..n)
    BY <1>2, FS_Interval
  <2> QED
    BY <1>3, <2>1, FS_Subset
<1>5. ASSUME NEW i \in InScope
      PROVE  rows[i].dump[1].latency \in Nat /\ rows[i].restore[1].latency \in Nat
  <2>1. RowOK(rows[i], i) /\ rows[i].status = "supported"
    BY <1>1, <1>3 DEF CriuInv, RowsInv
  <2>2. PICK d, r : rows[i].dump = <<d>> /\ RunOK(d) /\ rows[i].restore = <<r>> /\ RunOK(r)
    BY <2>1 DEF RowOK, Measured
  <2> QED
    BY <2>2 DEF RunOK
<1> QED
  BY <1>4, <1>5

\* What a decision to keep CRIU rests on, and that nothing more is asked.
LEMMA DecideMeans ==
  ASSUME CriuInv
  PROVE  decide = "keep" <=> KeepMeans
<1> DEFINE considered == {i \in DOMAIN rows : rows[i].scenario # "external_tcp"}
           supported == {i \in considered : rows[i].status = "supported"}
           dumps == [i \in supported |-> rows[i].dump[1].latency]
           restores == [i \in supported |-> rows[i].restore[1].latency]
           passes == /\ percentile_95(dumps) <= checkpoint_pause_p95_ms
                     /\ percentile_95(restores) <= restore_p95_ms
           all == \A i \in InScope : rows[i].status = "supported"
<1>1. considered = InScope /\ (all <=> supported = InScope)
  BY DEF InScope
<1>2. decide = "keep" <=> InScope # {} /\ all /\ passes
  <2> DEFINE failed == \E i \in considered : rows[i].status = "failed"
  <2>1. decide = (CASE supported = {} -> "kill"
                    [] supported # {} /\ failed -> "kill"
                    [] OTHER -> IF supported = considered /\ passes THEN "keep" ELSE "narrow")
    BY DEF decide
  <2>2. all => ~failed
    BY <1>1
  <2> HIDE DEF passes, failed, all, supported, considered
  <2> QED
    BY <1>1, <2>1, <2>2
<1>3. ASSUME InScope # {}, all
      PROVE  /\ percentile_95(dumps) <= checkpoint_pause_p95_ms <=>
                20 * Cardinality({i \in InScope : rows[i].dump[1].latency > checkpoint_pause_p95_ms})
                   <= Cardinality(InScope)
             /\ percentile_95(restores) <= restore_p95_ms <=>
                20 * Cardinality({i \in InScope : rows[i].restore[1].latency > restore_p95_ms})
                   <= Cardinality(InScope)
  <2>1. supported = InScope /\ IsFiniteSet(supported)
    BY <1>1, <1>3, SupportedAreMeasured
  <2>2. dumps \in [supported -> Nat] /\ restores \in [supported -> Nat]
    BY <1>3, <2>1, SupportedAreMeasured
  <2>3. checkpoint_pause_p95_ms \in Nat /\ restore_p95_ms \in Nat
    BY DEF checkpoint_pause_p95_ms, restore_p95_ms
  <2>4. /\ {i \in supported : dumps[i] > checkpoint_pause_p95_ms}
              = {i \in InScope : rows[i].dump[1].latency > checkpoint_pause_p95_ms}
        /\ {i \in supported : restores[i] > restore_p95_ms}
              = {i \in InScope : rows[i].restore[1].latency > restore_p95_ms}
    BY <2>1
  <2> HIDE DEF dumps, restores, supported
  <2>5. percentile_95(dumps) <= checkpoint_pause_p95_ms <=>
           20 * Cardinality({i \in supported : dumps[i] > checkpoint_pause_p95_ms}) <= Cardinality(supported)
    BY <1>3, <2>1, <2>2, <2>3, PercentileGate, PercentilePasses
  <2>6. percentile_95(restores) <= restore_p95_ms <=>
           20 * Cardinality({i \in supported : restores[i] > restore_p95_ms}) <= Cardinality(supported)
    BY <1>3, <2>1, <2>2, <2>3, PercentileGate, PercentilePasses
  <2> QED
    BY <2>1, <2>4, <2>5, <2>6
<1> HIDE DEF dumps, restores, considered, supported
<1> QED
  BY <1>2, <1>3 DEF KeepMeans

-----------------------------------------------------------------------------
(* What is seen of the restored tree. *)

\* From the freeze on, a file that the restored tree has not touched is where it was;
\* a file that a poll has read past its snapshot was touched, or ahead already.
WatchInv ==
    /\ lab = "snapshot" => fixture = "running"
    /\ lab \in {"restore", "verify"} => fixture = "gone"
    /\ fixture # "none" => lab \in Working /\ DOMAIN written = Files(point)
    /\ fixture \in {"frozen", "gone"} => \A f \in DOMAIN written : f \in resumed \/ (Past(f) <=> f \in ahead)
    /\ lab = "verify" => \A f \in DOMAIN written \ unread : f \in resumed \cup ahead

LEMMA WatchInvInit == CriuInit => WatchInv
BY DEF CriuInit, WatchInv

\* Nothing is watched any more.
LEMMA WatchEnds ==
  ASSUME fixture' = "none", lab' \in {"probe", "row", "decide", "error"}
  PROVE  WatchInv'
BY DEF WatchInv

LEMMA TouchKeepsWatch ==
  ASSUME WatchInv, NEW f \in DOMAIN written, Touches(f),
         \/ torn' = torn \cup {f} /\ UNCHANGED written
         \/ torn' = torn \ {f} /\ \E x : written' = [written EXCEPT ![f] = x]
  PROVE  WatchInv'
<1>1. UNCHANGED <<lab, config, rows, fixture, before, unread, ahead>>
  BY DEF Touches
<1>2. point' = point /\ DOMAIN written' = DOMAIN written
  BY <1>1 DEF point, Points, matrix_points, index
<1>3. CASE fixture \in {"frozen", "gone"}
  <2>1. lab = "verify" /\ resumed' = resumed \cup {f}
    BY <1>3 DEF Touches
  <2>2. ASSUME NEW g \in DOMAIN written, g # f PROVE Past(g)' <=> Past(g)
    <3>1. written'[g] = written[g] /\ (g \in torn' <=> g \in torn)
      BY <2>2
    <3>2. Reading(g)' = Reading(g)
      BY <3>1 DEF Reading
    <3> QED
      BY <1>1, <1>2, <3>2 DEF Past
  <2>3. \A g \in DOMAIN written' : g \in resumed' \/ (Past(g)' <=> g \in ahead')
    <3> SUFFICES ASSUME NEW g \in DOMAIN written, g # f PROVE g \in resumed' \/ (Past(g)' <=> g \in ahead')
      BY <1>2, <2>1
    <3>1. g \in resumed \/ (Past(g) <=> g \in ahead)
      BY <1>3 DEF WatchInv
    <3> QED
      BY <1>1, <2>1, <2>2, <3>1
  <2> QED
    BY <1>1, <1>2, <2>1, <2>3 DEF WatchInv
<1>4. CASE fixture \notin {"frozen", "gone"}
  BY <1>1, <1>2, <1>4 DEF WatchInv
<1> QED
  BY <1>3, <1>4

LEMMA WatchInvNext == WatchInv /\ [CriuNext]_criu_vars => WatchInv'
<1> SUFFICES ASSUME WatchInv, [CriuNext]_criu_vars PROVE WatchInv'
  OBVIOUS
<1>0. UNCHANGED <<config, rows>> => point' = point
  BY DEF point, Points, matrix_points, index
<1>1. ASSUME UNCHANGED <<lab, config, rows, fixture, Watched>> PROVE WatchInv'
  <2>1. \A f : Past(f)' <=> Past(f)
    BY <1>0, <1>1 DEF Past, Reading, Watched
  <2> QED
    BY <1>0, <1>1, <2>1 DEF WatchInv, Watched
<1>2. ASSUME NEW row, NEW logs, AddRow(row, logs) PROVE WatchInv'
  BY <1>2, WatchEnds DEF AddRow, RowEnds
<1>3. CASE NewConfig \/ probe_environment \/ Decides \/ write_new
  <2>1. /\ fixture' = fixture /\ lab \in {"new", "probe", "decide", "write"}
        /\ lab' \notin {"snapshot", "restore", "verify"}
    BY <1>3 DEF NewConfig, probe_environment, Unsupported, Decides, write_new
  <2>2. fixture = "none"
    BY <2>1 DEF WatchInv, Working
  <2> QED
    BY <2>1, <2>2 DEF WatchInv
<1>4. CASE RunFails
  BY <1>4, WatchEnds DEF RunFails, RowEnds
<1>5. CASE ExternalTcp
  BY <1>2, <1>5 DEF ExternalTcp
<1>6. CASE spawn_fixture
  <2>1. /\ lab = "row" /\ lab' = "row" /\ fixture' = "running" /\ written' = [f \in Files(point) |-> 0]
        /\ UNCHANGED <<config, rows>>
    BY <1>6 DEF spawn_fixture
  <2> QED
    BY <1>0, <2>1 DEF WatchInv, Working
<1>7. ASSUME NEW f \in DOMAIN written, Empties(f) \/ Writes(f) PROVE WatchInv'
  BY <1>7, TouchKeepsWatch DEF Empties, Writes
<1>8. CASE wait_for_fixture
  <2>1. CASE lab' = "snapshot" /\ UNCHANGED <<rows, fixture, written>>
    <3>1. lab = "row" /\ fixture = "running" /\ UNCHANGED config
      BY <1>8 DEF wait_for_fixture
    <3> QED
      BY <1>0, <2>1, <3>1 DEF WatchInv, Working
  <2>2. CASE ~(lab' = "snapshot" /\ UNCHANGED <<rows, fixture, written>>)
    BY <1>2, <1>8, <2>2 DEF wait_for_fixture
  <2> QED
    BY <2>1, <2>2
<1>9. CASE behavior_snapshot
  <2>1. lab = "snapshot" /\ lab' \in {"snapshot", "dump"} /\ UNCHANGED <<config, rows, fixture, written>>
    BY <1>9 DEF behavior_snapshot
  <2>2. fixture = "running"
    BY <2>1 DEF WatchInv
  <2> QED
    BY <1>0, <2>1, <2>2 DEF WatchInv, Working
<1>10. CASE CriuFreezes
  <2>1. /\ lab = "dump" /\ fixture' = "frozen" /\ ahead' = {f \in DOMAIN written : Past(f)} /\ fixture = "running"
        /\ UNCHANGED <<lab, config, rows, written, torn, before>>
    BY <1>10 DEF CriuFreezes
  <2>2. \A f : Past(f)' <=> Past(f)
    BY <1>0, <2>1 DEF Past, Reading
  <2> QED
    BY <1>0, <2>1, <2>2 DEF WatchInv
<1>11. CASE DumpEnds
  <2>1. lab = "dump" /\ UNCHANGED config
    BY <1>11 DEF DumpEnds
  <2>2. CASE fixture = "frozen" /\ fixture' = "gone" /\ lab' = "restore" /\ UNCHANGED <<rows, Watched>>
    <3>1. \A f : Past(f)' <=> Past(f)
      BY <1>0, <2>1, <2>2 DEF Past, Reading, Watched
    <3> QED
      BY <1>0, <2>1, <2>2, <3>1 DEF WatchInv, Watched, Working
  <2>3. CASE ~(fixture = "frozen" /\ fixture' = "gone" /\ lab' = "restore" /\ UNCHANGED <<rows, Watched>>)
    <3>1. \E row, logs : AddRow(row, logs)
      BY <1>11, <2>3 DEF DumpEnds, row_from_command_failure
    <3> QED
      BY <1>2, <3>1
  <2> QED
    BY <2>2, <2>3
<1>12. CASE RestoreEnds
  <2>1. lab = "restore" /\ UNCHANGED config
    BY <1>12 DEF RestoreEnds
  <2> DEFINE restored == /\ lab' = "verify" /\ unread' = Files(point)
                         /\ UNCHANGED <<rows, fixture, written, torn, before, resumed, ahead>>
  <2>2. CASE restored
    <3>1. \A f : Past(f)' <=> Past(f)
      BY <1>0, <2>1, <2>2 DEF Past, Reading
    <3>2. fixture = "gone" /\ DOMAIN written = Files(point)
      BY <2>1 DEF WatchInv
    <3> QED
      BY <1>0, <2>1, <2>2, <3>1, <3>2 DEF WatchInv, Working
  <2>3. CASE ~restored
    <3>1. \E row, logs : AddRow(row, logs)
      BY <1>12, <2>3 DEF RestoreEnds, row_from_command_failure
    <3> QED
      BY <1>2, <3>1
  <2> QED
    BY <2>2, <2>3
<1>13. CASE wait_for_behavior
  <2>1. /\ lab = "verify" /\ UNCHANGED <<lab, config, rows, fixture, written, torn, before, resumed, ahead>>
        /\ unread' = IF Past(Next_file) THEN unread \ {Next_file} ELSE Files(point)
    BY <1>13 DEF wait_for_behavior
  <2>2. \A f : Past(f)' <=> Past(f)
    BY <1>0, <2>1 DEF Past, Reading
  <2>3. fixture = "gone" /\ DOMAIN written = Files(point)
    BY <2>1 DEF WatchInv
  <2>4. \A f \in DOMAIN written \ unread' : f \in resumed \cup ahead
    <3> SUFFICES ASSUME NEW f \in DOMAIN written, f \notin unread' PROVE f \in resumed \cup ahead
      OBVIOUS
    <3>1. CASE Past(Next_file) /\ f = Next_file
      BY <2>3, <3>1 DEF WatchInv
    <3>2. CASE Past(Next_file) /\ f # Next_file
      BY <2>1, <3>2 DEF WatchInv
    <3> QED
      BY <2>1, <2>3, <3>1, <3>2
  <2> QED
    BY <1>0, <2>1, <2>2, <2>3, <2>4 DEF WatchInv
<1>14. CASE restore_and_verify
  <2>1. \E row, logs : AddRow(row, logs)
    BY <1>14 DEF restore_and_verify
  <2> QED
    BY <1>2, <2>1
<1> QED
  BY <1>1, <1>3, <1>4, <1>5, <1>6, <1>7, <1>8, <1>9, <1>10, <1>11, <1>12, <1>13, <1>14
     DEF CriuNext, criu_vars

\* A row is supported whose every file a poll has read past its snapshot.
LEMMA VerifiedKeeps ==
  ASSUME CriuInv, WatchInv, restore_and_verify
  PROVE  CriuInv'
<1>1. lab = "verify" /\ UNCHANGED <<config, decision>>
  BY DEF restore_and_verify
<1>2. PICK m, n : runs = <<m, n>> /\ m.success /\ n.success
  BY <1>1 DEF CriuInv, StageInv
<1>3. <<runs[1]>> = <<m>> /\ <<runs[2]>> = <<n>> /\ <<m>>[1] = m /\ <<n>>[1] = n
  BY <1>2
<1>4. Measured(<<m>>, <<index, "dump">>) /\ Measured(<<n>>, <<index, "restore">>)
  BY <1>1, <1>3 DEF CriuInv, RowsInv
<1>5. PICK class, row :
         /\ row = Row(point, class, diagnostic_log, <<m>>, <<n>>, Verified)
         /\ AddRow(row, <<diagnostic_log>>)
         /\ class[1] = "supported" => Verified
  <2>1. PICK cleanup_ok \in BOOLEAN :
          LET class == CASE ~Verified -> <<"failed", "verification">>
                         [] Verified /\ ~cleanup_ok -> <<"failed", "cleanup">>
                         [] OTHER -> <<"supported">>
          IN  AddRow(Row(point, class, diagnostic_log, <<runs[1]>>, <<runs[2]>>, Verified),
                     <<diagnostic_log>>)
    BY DEF restore_and_verify
  <2>2. PICK class : class = CASE ~Verified -> <<"failed", "verification">>
                               [] Verified /\ ~cleanup_ok -> <<"failed", "cleanup">>
                               [] OTHER -> <<"supported">>
    OBVIOUS
  <2>3. <<"failed", "verification">>[1] # "supported" /\ <<"failed", "cleanup">>[1] # "supported"
    OBVIOUS
  <2>4. class[1] = "supported" => Verified
    BY <2>2, <2>3
  <2>5. AddRow(Row(point, class, diagnostic_log, <<m>>, <<n>>, Verified), <<diagnostic_log>>)
    BY <1>3, <2>1, <2>2
  <2> QED
    BY <2>4, <2>5
<1>6. Verified => Files(point) \subseteq resumed \cup ahead
  <2>1. DOMAIN written = Files(point)
    BY <1>1 DEF WatchInv
  <2> QED
    BY <1>1, <2>1 DEF Verified, WatchInv
<1>7. PICK i, p : i = index /\ p = point
  OBVIOUS
<1>8. /\ row.scenario = p.scenario /\ row.memory = p.memory /\ row.count = p.count
      /\ row.log = diagnostic_log /\ row.dump = <<m>> /\ row.restore = <<n>>
      /\ row.status = class[1]
      /\ Verified => row.resumed = resumed /\ row.ahead = ahead
  BY <1>5, <1>7 DEF Row
<1>9. p = Points[i] /\ Points' = Points
  BY <1>1, <1>7 DEF point, Points, matrix_points
<1>10. Files(row) = Files(point)
  BY <1>7, <1>8 DEF Files
<1>11. \A a : a \in ToSet(artifacts') <=> a \in ToSet(artifacts) \/ a \in ToSet(<<diagnostic_log>>)
  BY <1>1, <1>5, DiagnosticIsFresh, NamesGrow DEF AddRow
<1>12. ToSet(artifacts) \subseteq ToSet(artifacts') /\ diagnostic_log \in ToSet(artifacts')
  BY <1>1, <1>11, DiagnosticIsFresh
<1>13. Measured(<<m>>, <<i, "dump">>)' /\ Measured(<<n>>, <<i, "restore">>)'
  BY <1>1, <1>4, <1>7, <1>12, MeasuredStays
<1>14. RowOK(row, i)'
  <2>1. row.log \in ToSet(artifacts')
    BY <1>8, <1>12
  <2>2. row.status = "supported" => Files(row) \subseteq row.resumed \cup row.ahead
    BY <1>5, <1>6, <1>8, <1>10
  <2>3. <<m>> # <<>> /\ <<n>> # <<>>
    OBVIOUS
  <2>4. Measured(row.dump, <<i, "dump">>)' /\ Measured(row.restore, <<i, "restore">>)'
    BY <1>8, <1>13
  <2>5. row.scenario = Points'[i].scenario /\ row.memory = Points'[i].memory /\ row.count = Points'[i].count
    BY <1>8, <1>9
  <2>6. row.dump # <<>> /\ row.dump[1].success /\ row.restore # <<>> /\ row.restore[1].success
    BY <1>2, <1>3, <1>8, <2>3
  <2> QED
    BY <2>1, <2>2, <2>4, <2>5, <2>6 DEF RowOK
<1>15. lab \in Working
  BY <1>1 DEF Working
<1> QED
  BY <1>1, <1>5, <1>7, <1>14, <1>15, DiagnosticIsFresh, AddRowKeeps

-----------------------------------------------------------------------------
LEMMA CriuInvInit == CriuInit => CriuInv
<1> SUFFICES ASSUME CriuInit PROVE CriuInv
  OBVIOUS
<1>1. IsSeq(<<>>) /\ Len(<<>>) = 0 /\ IsInjective(<<>>)
  BY DEF IsSeq, IsInjective
<1> QED
  BY <1>1 DEF CriuInit, CriuInv, StageInv, NamesInv, RowsInv, Working

LEMMA CriuInvNext == CriuInv /\ WatchInv /\ [CriuNext]_criu_vars => CriuInv'
<1> SUFFICES ASSUME CriuInv, WatchInv, [CriuNext]_criu_vars PROVE CriuInv'
  OBVIOUS
<1>0. UNCHANGED config => Points' = Points
  BY DEF Points, matrix_points
<1>1. ASSUME UNCHANGED <<lab, config, rows, artifacts, runs, decision>> PROVE CriuInv'
  <2>1. NamesInv' /\ RowsInv'
    BY <1>1, NothingReported DEF CriuInv
  <2>2. StageInv'
    BY <1>0, <1>1 DEF CriuInv, StageInv, KeepMeans, InScope
  <2> QED
    BY <2>1, <2>2 DEF CriuInv
<1>2. CASE NewConfig
  <2>1. NamesInv' /\ RowsInv'
    BY <1>2, NothingReported DEF NewConfig
  <2>2. StageInv'
    BY <1>2 DEF NewConfig, CriuInv, StageInv, Working
  <2> QED
    BY <2>1, <2>2 DEF CriuInv
<1>3. CASE probe_environment
  <2>1. lab = "probe" /\ UNCHANGED <<config, decision>>
    BY <1>3 DEF probe_environment
  <2>2. CASE \E code : Unsupported(code)
    BY <2>1, <2>2, UnsupportedKeeps
  <2>3. CASE artifacts' = ProbeLogs /\ lab' = "row" /\ UNCHANGED rows
    <3>1. rows = <<>> /\ Len(<<>>) = 0 /\ ScalingPlan(config) /\ config \in Configs
      BY <2>1 DEF CriuInv, StageInv
    <3>2. Points' = Points /\ Len(Points) \in Nat /\ Len(Points) >= 1
      BY <2>1, <3>1, MatrixIsFinite, ZenonT(60) DEF Points, matrix_points
    <3>3. PICK m : m = Len(Points)
      OBVIOUS
    <3>4. 0 < m
      BY <3>2, <3>3
    <3>5. StageInv'
      BY <2>1, <2>3, <3>1, <3>2, <3>3, <3>4 DEF CriuInv, StageInv, Working
    <3>6. RowsInv'
      BY <2>3, <3>1 DEF CriuInv, RowsInv
    <3>7. /\ ProbeLogs \in Seq({<<0, "kernel">>, <<0, "version">>, <<0, "check">>, <<0, "check-all">>})
          /\ Len(ProbeLogs) = 4 /\ DOMAIN ProbeLogs = 1..4
      BY DEF ProbeLogs
    <3>8. \A k \in 1..4 : ProbeLogs[k][1] = 0
      BY DEF ProbeLogs
    <3>9. \A j, k \in 1..4 : ProbeLogs[j] = ProbeLogs[k] => j = k
      BY DEF ProbeLogs
    <3>10. NamesInv'
      <4>1. IsSeq(ProbeLogs) /\ IsInjective(ProbeLogs)
        BY <3>7, <3>9 DEF IsSeq, IsInjective
      <4> QED
        BY <2>3, <3>1, <3>7, <3>8, <4>1 DEF NamesInv, NameOK
    <3> QED
      BY <3>5, <3>6, <3>10 DEF CriuInv
  <2> QED
    BY <1>3, <2>2, <2>3 DEF probe_environment
<1>4. CASE ExternalTcp
  <2>1. lab = "row" /\ UNCHANGED <<config, decision>>
    BY <1>4 DEF ExternalTcp
  <2>2. AddRow(Row(point, <<"unsupported", "external_tcp">>, diagnostic_log, <<>>, <<>>, FALSE), <<diagnostic_log>>)
    BY <1>4 DEF ExternalTcp, external_tcp_row, diagnostic_log
  <2>3. <<"unsupported", "external_tcp">>[1] # "supported"
    OBVIOUS
  <2> QED
    BY <2>1, <2>2, <2>3, DiagnosticRowKeeps
<1>5. ASSUME NEW f, spawn_fixture \/ Empties(f) \/ Writes(f) \/ CriuFreezes \/ wait_for_behavior
      PROVE  CriuInv'
  BY <1>1, <1>5 DEF spawn_fixture, Empties, Writes, Touches, CriuFreezes, wait_for_behavior
<1>6. CASE wait_for_fixture
  <2>1. lab = "row" /\ UNCHANGED <<config, decision>>
    BY <1>6 DEF wait_for_fixture
  <2>2. CASE lab' = "snapshot" /\ UNCHANGED <<rows, artifacts, runs>>
    <3>1. NamesInv' /\ RowsInv'
      BY <2>1, <2>2, NothingReported
    <3>2. StageInv'
      BY <1>0, <2>1, <2>2 DEF CriuInv, StageInv, Working
    <3> QED
      BY <3>1, <3>2 DEF CriuInv
  <2>3. CASE AddRow(Row(point, <<"failed", "fixture">>, diagnostic_log, <<>>, <<>>, FALSE), <<diagnostic_log>>)
    <3>1. <<"failed", "fixture">>[1] # "supported"
      OBVIOUS
    <3> QED
      BY <2>1, <2>3, <3>1, DiagnosticRowKeeps
  <2> QED
    BY <1>6, <2>2, <2>3 DEF wait_for_fixture
<1>12. CASE behavior_snapshot
  <2>1. /\ lab = "snapshot" /\ lab' \in {"snapshot", "dump"}
        /\ UNCHANGED <<config, rows, artifacts, runs, decision>>
    BY <1>12 DEF behavior_snapshot
  <2>2. NamesInv' /\ RowsInv'
    BY <2>1, NothingReported
  <2>3. StageInv'
    BY <1>0, <2>1 DEF CriuInv, StageInv, Working
  <2> QED
    BY <2>2, <2>3 DEF CriuInv
<1>13. CASE RunFails
  <2>1. /\ lab \in {"probe", "row", "snapshot", "dump", "restore", "verify"} /\ lab' = "error"
        /\ UNCHANGED <<config, rows, artifacts, decision>>
    BY <1>13 DEF RunFails
  <2>2. index' = index /\ ToSet(artifacts') = ToSet(artifacts)
    BY <2>1 DEF index
  <2>3. NamesInv'
    <3>1. \A k : NameOK(artifacts[k]) => NameOK(artifacts[k])'
      BY <2>1, <2>2 DEF NameOK
    <3> QED
      BY <2>1, <3>1 DEF CriuInv, NamesInv
  <2>4. RowsInv'
    <3>1. ASSUME NEW i \in 1..Len(rows) PROVE RowOK(rows[i], i)'
      <4>1. PICK r : r = rows[i]
        OBVIOUS
      <4>2. RowOK(r, i)
        BY <4>1 DEF CriuInv, RowsInv
      <4>3. RowOK(r, i)'
        BY <2>1, <2>2, <4>2, RowStays
      <4> QED
        BY <2>1, <4>1, <4>3
    <3> QED
      BY <2>1, <3>1 DEF CriuInv, RowsInv
  <2>5. StageInv'
    BY <1>0, <2>1 DEF CriuInv, StageInv, Working
  <2> QED
    BY <2>3, <2>4, <2>5 DEF CriuInv
<1>7. CASE DumpEnds
  <2>1. lab = "dump" /\ UNCHANGED <<config, decision>> /\ RunLimits(config)
    BY <1>7 DEF DumpEnds, CriuInv, StageInv
  <2>2. PICK m : /\ RunOK(m)
                 /\ IF m.success THEN /\ runs' = <<m>> /\ lab' = "restore"
                                      /\ artifacts' = Append(artifacts, <<index, "dump">>)
                                      /\ UNCHANGED rows
                    ELSE row_from_command_failure(m, "dump", <<m>>, <<>>)
    <3>1. PICK c \in Commands, size \in CriuLogs :
             LET m == merge_criu_log(run_bounded(c, config.max_log_bytes), size, config.max_log_bytes) IN
             IF m.success THEN /\ runs' = <<m>> /\ lab' = "restore"
                               /\ artifacts' = Append(artifacts, <<index, "dump">>)
                               /\ UNCHANGED rows
             ELSE row_from_command_failure(m, "dump", <<m>>, <<>>)
      BY <1>7 DEF DumpEnds
    <3> QED
      BY <2>1, <3>1, RunMeasured
  <2>3. CASE m.success
    <3>1. NamesInv' /\ RowsInv'
      BY <2>1, <2>2, <2>3, LogKeeps
    <3>2. StageInv'
      BY <1>0, <2>1, <2>2, <2>3 DEF CriuInv, StageInv, Working
    <3> QED
      BY <3>1, <3>2 DEF CriuInv
  <2>4. CASE ~m.success
    BY <2>1, <2>2, <2>4, CommandFailureKeeps
  <2> QED
    BY <2>3, <2>4
<1>8. CASE RestoreEnds
  <2>1. lab = "restore" /\ UNCHANGED <<config, decision>> /\ RunLimits(config)
    BY <1>8 DEF RestoreEnds, CriuInv, StageInv
  <2>2. PICK m : /\ RunOK(m)
                 /\ IF m.success THEN /\ runs' = Append(runs, m) /\ lab' = "verify"
                                      /\ artifacts' = Append(artifacts, <<index, "restore">>)
                                      /\ UNCHANGED rows
                    ELSE row_from_command_failure(m, "restore", runs, <<m>>)
    <3>1. PICK c \in Commands, size \in CriuLogs :
             LET m == merge_criu_log(run_bounded(c, config.max_log_bytes), size, config.max_log_bytes) IN
             IF m.success THEN /\ runs' = Append(runs, m) /\ lab' = "verify"
                               /\ artifacts' = Append(artifacts, <<index, "restore">>)
                               /\ UNCHANGED rows
             ELSE row_from_command_failure(m, "restore", runs, <<m>>)
      BY <1>8 DEF RestoreEnds
    <3> QED
      BY <2>1, <3>1, RunMeasured
  <2>3. PICK n : runs = <<n>> /\ n.success
    BY <2>1 DEF CriuInv, StageInv
  <2>4. Append(<<n>>, m) = <<n, m>>
    <3>1. <<n>> \in Seq({n, m}) /\ m \in {n, m} /\ Len(<<n>>) = 1 /\ <<n>>[1] = n
      OBVIOUS
    <3>2. PICK s : s = Append(<<n>>, m)
      OBVIOUS
    <3>3. s \in Seq({n, m}) /\ Len(s) = 2 /\ s[1] = n /\ s[2] = m
      BY <3>1, <3>2, AppendProperties
    <3>4. <<n, m>> \in Seq({n, m}) /\ Len(<<n, m>>) = 2 /\ <<n, m>>[1] = n /\ <<n, m>>[2] = m
      OBVIOUS
    <3>5. \A k \in 1..2 : s[k] = <<n, m>>[k]
      <4>1. \A k \in 1..2 : k = 1 \/ k = 2
        OBVIOUS
      <4> QED
        BY <3>3, <3>4, <4>1
    <3> QED
      BY <3>2, <3>3, <3>4, <3>5, SeqEqual
  <2>5. CASE m.success
    <3>1. NamesInv' /\ RowsInv'
      BY <2>1, <2>2, <2>3, <2>4, <2>5, LogKeeps
    <3>2. runs' = <<n, m>> /\ n.success /\ lab' = "verify" /\ UNCHANGED rows
      BY <2>2, <2>3, <2>4, <2>5
    <3>3. Len(rows) < Len(Points) /\ decision = "none" /\ config \in Configs /\ ScalingPlan(config)
      BY <2>1 DEF CriuInv, StageInv, Working
    <3>4. StageInv'
      BY <1>0, <2>1, <2>5, <3>2, <3>3 DEF StageInv, Working
    <3> QED
      BY <3>1, <3>4 DEF CriuInv
  <2>6. CASE ~m.success
    BY <2>1, <2>2, <2>6, CommandFailureKeeps
  <2> QED
    BY <2>5, <2>6
<1>9. CASE restore_and_verify
  BY <1>9, VerifiedKeeps
<1>10. CASE Decides
  <2>1. NamesInv' /\ RowsInv'
    BY <1>10, NothingReported DEF Decides
  <2>2. decision' = "keep" <=> KeepMeans'
    <3>1. decide = "keep" <=> KeepMeans
      BY DecideMeans
    <3>2. KeepMeans <=> KeepMeans'
      BY <1>10 DEF Decides, KeepMeans, InScope
    <3> QED
      BY <1>10, <3>1, <3>2 DEF Decides
  <2>3. /\ lab = "decide" /\ lab' = "write" /\ UNCHANGED <<config, rows>>
        /\ RunLimits(config) /\ ScalingPlan(config) /\ config \in Configs /\ Len(rows) = Len(Points)
    BY <1>10 DEF Decides, CriuInv, StageInv
  <2>4. StageInv'
    BY <1>0, <2>2, <2>3 DEF StageInv, Working
  <2> QED
    BY <2>1, <2>4 DEF CriuInv
<1>11. CASE write_new
  <2>1. lab = "write" /\ lab' \in {"done", "refused"} /\ UNCHANGED <<config, rows, artifacts, runs, decision>>
    BY <1>11 DEF write_new
  <2>2. NamesInv' /\ RowsInv'
    BY <2>1, NothingReported
  <2>3. KeepMeans <=> KeepMeans'
    BY <2>1 DEF KeepMeans, InScope
  <2>4. /\ RunLimits(config) /\ ScalingPlan(config) /\ config \in Configs /\ Len(rows) = Len(Points)
        /\ decision # "none" => (decision = "keep" <=> KeepMeans)
    BY <2>1 DEF CriuInv, StageInv
  <2>5. StageInv'
    BY <1>0, <2>1, <2>3, <2>4 DEF StageInv, Working
  <2> QED
    BY <2>2, <2>5 DEF CriuInv
<1> QED
  BY <1>1, <1>2, <1>3, <1>4, <1>5, <1>6, <1>7, <1>8, <1>9, <1>10, <1>11, <1>12, <1>13 DEF CriuNext, criu_vars

LEMMA CriuInvariance == CriuSpec => []CriuInv
BY CriuInvInit, CriuInvNext, WatchInvInit, WatchInvNext, PTL DEF CriuSpec

\* What support rests on: both commands succeeded, and every file of the row was
\* touched by the restored tree or past its snapshot when the tree was frozen.
THEOREM SupportRestsOnWhatMoved == CriuSpec => []SupportIsSeen
<1>1. CriuInv => SupportIsSeen
  <2> SUFFICES ASSUME CriuInv PROVE SupportIsSeen
    OBVIOUS
  <2>1. DOMAIN rows = 1..Len(rows)
    BY AppendAny DEF CriuInv, RowsInv
  <2>2. \A i \in DOMAIN rows : RowOK(rows[i], i)
    BY <2>1 DEF CriuInv, RowsInv
  <2> QED
    BY <2>2 DEF SupportIsSeen, Rows, RowOK
<1> QED
  BY <1>1, CriuInvariance, PTL

\* CRIU is kept exactly if all that is in scope is supported and at most one latency
\* in twenty is above its gate: decide's rank, rounded up, is right for any matrix.
THEOREM KeepingIsWithinGates == CriuSpec => []KeepIsWithinGates
<1>1. CriuInv => KeepIsWithinGates
  BY DEF CriuInv, StageInv, KeepMeans, KeepIsWithinGates
<1> QED
  BY <1>1, CriuInvariance, PTL

\* A decided report has a row for every point in order, artifacts of different names
\* for every log it refers to, and logs that say when they were cut.
THEOREM EvidenceIsComplete == CriuSpec => []EvidenceIsWhole
<1>1. CriuInv => EvidenceIsWhole
  <2> SUFFICES ASSUME CriuInv, lab \in {"decide", "write", "done"} PROVE EvidenceIsWhole
    BY DEF EvidenceIsWhole
  <2>1. DOMAIN rows = 1..Len(rows)
    BY AppendAny DEF CriuInv, RowsInv
  <2>2. \A i \in DOMAIN rows : RowOK(rows[i], i)
    BY <2>1 DEF CriuInv, RowsInv
  <2>3. ASSUME NEW s, NEW name, Measured(s, name)
        PROVE  s \in Seq(ToSet(s)) /\ \A m \in ToSet(s) : RunOK(m) /\ name \in ToSet(artifacts)
    <3>1. CASE s = <<>>
      BY <3>1 DEF ToSet
    <3>2. CASE s # <<>>
      <4>1. PICK m : s = <<m>> /\ RunOK(m) /\ name \in ToSet(artifacts)
        BY <2>3, <3>2 DEF Measured
      <4>2. ToSet(s) = {m} /\ s \in Seq({m})
        BY <4>1 DEF ToSet
      <4> QED
        BY <4>1, <4>2
    <3> QED
      BY <3>1, <3>2
  <2>4. ASSUME NEW i \in DOMAIN rows
        PROVE  {rows[i].log} \union {<<i, "dump">> : m \in ToSet(rows[i].dump)}
                             \union {<<i, "restore">> : m \in ToSet(rows[i].restore)}
                 \subseteq ToSet(artifacts)
    BY <2>2, <2>3, <2>4 DEF RowOK
  <2>5. ASSUME NEW i \in DOMAIN rows, NEW m \in ToSet(rows[i].dump \o rows[i].restore)
        PROVE  RunOK(m)
    <3>1. PICK d, r : d = rows[i].dump /\ r = rows[i].restore
      OBVIOUS
    <3>2. Measured(d, <<i, "dump">>) /\ Measured(r, <<i, "restore">>)
      BY <2>2, <2>5, <3>1 DEF RowOK
    <3>3. IsSeq(d) /\ IsSeq(r)
      BY <2>3, <3>2 DEF IsSeq
    <3>4. PICK a, b, t : a = Len(d) /\ b = Len(r) /\ t = d \o r
      OBVIOUS
    <3>5. /\ a \in Nat /\ b \in Nat /\ DOMAIN t = 1..(a + b)
          /\ (\A k \in 1..a : t[k] = d[k]) /\ \A k \in 1..b : t[a + k] = r[k]
      BY <3>3, <3>4, ConcatAny
    <3>6. PICK k \in 1..(a + b) : t[k] = m
      BY <2>5, <3>1, <3>4, <3>5 DEF ToSet
    <3>7. CASE k \in 1..a
      BY <2>3, <3>2, <3>3, <3>4, <3>5, <3>6, <3>7, NamesAre
    <3>8. CASE k \notin 1..a
      <4>1. k - a \in 1..b /\ k = a + (k - a)
        BY <3>5, <3>8
      <4>2. r[k - a] = m
        BY <3>5, <3>6, <4>1
      <4>3. m \in ToSet(r)
        BY <3>3, <3>4, <4>1, <4>2, NamesAre
      <4> QED
        BY <2>3, <3>2, <4>3
    <3> QED
      BY <3>7, <3>8
  <2>6. Len(rows) = Len(Points) /\ IsInjective(artifacts)
    BY DEF CriuInv, StageInv, NamesInv
  <2> QED
    BY <2>2, <2>4, <2>5, <2>6 DEF EvidenceIsWhole, Rows, RowOK, RunOK
<1> QED
  BY <1>1, CriuInvariance, PTL

(***************************************************************************)
(* ProcCollector: the walk of a process tree.                              *)
(***************************************************************************)

-----------------------------------------------------------------------------
(* The kernel: what may happen below the root while it is walked. *)

\* What exists is below some process or not; the stable part of the tree is all
\* below the root, its parents are stable too and list their children under a thread
\* they have.
KernelInv ==
    /\ live \in SUBSET Pids /\ stable \in SUBSET live
    /\ tids \in [Pids -> SUBSET Nat] /\ \A p \in Pids : IsFiniteSet(tids[p])
    /\ parent \in [Pids -> [parent : Pids \union {0}, by : Nat]]
    /\ stable \subseteq Below(Root)
    /\ \A x \in stable \ {Root} : /\ parent[x].parent \in stable
                                  /\ parent[x].by \in tids[parent[x].parent]

KernelStep == \/ \E p \in Pids : Exits(p) \/ \E t \in tids[p] : ThreadExits(p, t)
              \/ \E p \in Pids \union {0}, c \in Pids : Forks(p, c)

\* A process is below itself, and its children are below whatever it is below.
LEMMA BelowIsClosed ==
  ASSUME NEW p
  PROVE  /\ Below(p) \subseteq live
         /\ p \in live => p \in Below(p)
         /\ \A c \in live : parent[c].parent \in Below(p) \union {p} => c \in Below(p)
BY DEF Below, Closed

LEMMA ExitsKeepBelow ==
  ASSUME KernelInv, NEW p \in Pids, Exits(p), NEW d, NEW q \in Below(d), q \notin Below(p)
  PROVE  q \in Below(d)'
<1>1. live' = live \ {p} /\ live \subseteq Pids /\ q \in live /\ p \in live
  BY DEF Exits, KernelInv, Below
<1>2. \A c \in Pids : parent'[c] = IF parent[c].parent = p THEN [parent |-> 0, by |-> 0] ELSE parent[c]
  BY DEF Exits
<1>3. Below(p) \subseteq live /\ p \in Below(p) /\ \A c \in live : parent[c].parent \in Below(p) => c \in Below(p)
  BY <1>1, BelowIsClosed
<1>4. SUFFICES ASSUME NEW S \in SUBSET (Pids \union {0}), d \in S, Closed(S)'
               PROVE  q \in S
  BY <1>1, <1>3 DEF Below
<1> DEFINE T == S \union Below(p)
<1>5. T \in SUBSET (Pids \union {0}) /\ d \in T
  BY <1>1, <1>3, <1>4
<1>6. \A c \in live : parent[c].parent \in T => c \in T
  <2> SUFFICES ASSUME NEW c \in live, parent[c].parent \in T, c \notin Below(p)
               PROVE  c \in S
    OBVIOUS
  <2>1. c \in live' /\ parent[c].parent \notin Below(p) /\ parent[c].parent # p
    BY <1>1, <1>3
  <2>2. parent'[c] = parent[c]
    BY <1>1, <1>2, <2>1
  <2> QED
    BY <1>4, <2>1, <2>2 DEF Closed
<1> QED
  BY <1>5, <1>6 DEF Below, Closed

\* While the kernel goes on, what stays stable is where it was: below what it was
\* below, with the same parent, listed by the same thread unless that one is gone.
StaysTied ==
    /\ stable' \subseteq stable
    /\ \A q \in stable' :
          /\ \A d : q \in Below(d) => q \in Below(d)'
          /\ parent'[q].parent = parent[q].parent
          /\ \/ parent'[q].by = parent[q].by
             \/ parent[q].by \notin tids'[parent[q].parent]
          /\ tids'[q] \subseteq tids[q]

LEMMA ExitsTied ==
  ASSUME KernelInv, NEW p \in Pids, Exits(p)
  PROVE  StaysTied /\ KernelInv'
<1>1. /\ live' = live \ {p} /\ p \in live /\ live \subseteq Pids /\ stable \subseteq live
      /\ tids' = [tids EXCEPT ![p] = {}] /\ stable' = stable \ Below(p)
  BY DEF Exits, KernelInv
<1>2. \A c \in Pids : parent'[c] = IF parent[c].parent = p THEN [parent |-> 0, by |-> 0] ELSE parent[c]
  BY DEF Exits
<1>3. p \in Below(p) /\ \A c \in live : parent[c].parent \in Below(p) => c \in Below(p)
  BY <1>1, BelowIsClosed
<1>4. \A q \in stable' : /\ q \in stable /\ q # p /\ parent'[q] = parent[q] /\ tids'[q] = tids[q]
                         /\ \A d : q \in Below(d) => q \in Below(d)'
  <2> SUFFICES ASSUME NEW q \in stable'
               PROVE  /\ q \in stable /\ q # p /\ parent'[q] = parent[q] /\ tids'[q] = tids[q]
                      /\ \A d : q \in Below(d) => q \in Below(d)'
    OBVIOUS
  <2>1. q \in stable /\ q \notin Below(p) /\ q # p /\ q \in Pids /\ q \in live
    BY <1>1, <1>3
  <2>2. parent[q].parent # p
    BY <1>3, <2>1
  <2>3. \A d : q \in Below(d) => q \in Below(d)'
    BY <2>1, ExitsKeepBelow
  <2>4. parent'[q] = parent[q]
    BY <1>2, <2>1, <2>2
  <2>5. tids'[q] = tids[q]
    BY <1>1, <2>1 DEF KernelInv
  <2> QED
    BY <2>1, <2>3, <2>4, <2>5
<1>5. StaysTied
  BY <1>1, <1>4 DEF StaysTied
<1>6. live' \in SUBSET Pids /\ stable' \in SUBSET live'
  BY <1>1, <1>4
<1>7. tids' \in [Pids -> SUBSET Nat] /\ \A x \in Pids : IsFiniteSet(tids'[x])
  BY <1>1, FS_EmptySet DEF KernelInv
<1>8. parent' \in [Pids -> [parent : Pids \union {0}, by : Nat]]
  BY DEF Exits, KernelInv
<1>9. stable' \subseteq Below(Root)'
  BY <1>4 DEF KernelInv
<1>10. \A x \in stable' \ {Root} : parent'[x].parent \in stable' /\ parent'[x].by \in tids'[parent'[x].parent]
  <2> SUFFICES ASSUME NEW x \in stable' \ {Root}
               PROVE  parent'[x].parent \in stable' /\ parent'[x].by \in tids'[parent'[x].parent]
    OBVIOUS
  <2>1. PICK y : y = parent[x].parent
    OBVIOUS
  <2>2. y \in stable /\ parent[x].by \in tids[y] /\ parent'[x] = parent[x] /\ x \in live /\ x \notin Below(p)
    BY <1>1, <1>4, <2>1 DEF KernelInv
  <2>3. y \notin Below(p)
    BY <1>3, <2>1, <2>2
  <2> QED
    BY <1>1, <1>4, <2>1, <2>2, <2>3
<1> QED
  BY <1>5, <1>6, <1>7, <1>8, <1>9, <1>10 DEF KernelInv

LEMMA ThreadExitsTied ==
  ASSUME KernelInv, NEW p \in Pids, NEW t \in tids[p], ThreadExits(p, t)
  PROVE  StaysTied /\ KernelInv'
<1>1. live' = live /\ stable' = stable /\ tids' = [tids EXCEPT ![p] = @ \ {t}]
  BY DEF ThreadExits
<1>2. PICK heir \in tids'[p] :
         parent' = [c \in Pids |-> IF parent[c] = [parent |-> p, by |-> t]
                                   THEN [parent |-> p, by |-> heir] ELSE parent[c]]
  BY DEF ThreadExits
<1>3. /\ live \subseteq Pids /\ stable \subseteq live /\ tids \in [Pids -> SUBSET Nat]
      /\ parent \in [Pids -> [parent : Pids \union {0}, by : Nat]]
  BY DEF KernelInv
<1>4. tids'[p] = tids[p] \ {t} /\ \A x \in Pids : x # p => tids'[x] = tids[x]
  BY <1>1, <1>3
<1>5. \A c \in Pids : /\ parent'[c].parent = parent[c].parent
                      /\ \/ parent'[c].by = parent[c].by /\ ~(parent[c].parent = p /\ parent[c].by = t)
                         \/ parent[c].parent = p /\ parent[c].by = t /\ parent'[c].by = heir
  <2> SUFFICES ASSUME NEW c \in Pids
               PROVE  /\ parent'[c].parent = parent[c].parent
                      /\ \/ parent'[c].by = parent[c].by /\ ~(parent[c].parent = p /\ parent[c].by = t)
                         \/ parent[c].parent = p /\ parent[c].by = t /\ parent'[c].by = heir
    OBVIOUS
  <2>1. parent[c] \in [parent : Pids \union {0}, by : Nat]
    BY <1>3
  <2>2. CASE parent[c] = [parent |-> p, by |-> t]
    BY <1>2, <2>2
  <2>3. CASE parent[c] # [parent |-> p, by |-> t]
    <3>1. ~(parent[c].parent = p /\ parent[c].by = t)
      BY <2>1, <2>3
    <3> QED
      BY <1>2, <2>3, <3>1
  <2> QED
    BY <2>2, <2>3
<1>6. \A S : Closed(S)' <=> Closed(S)
  BY <1>1, <1>3, <1>5 DEF Closed
<1>7. \A d : Below(d)' = Below(d)
  BY <1>1, <1>6 DEF Below
<1>8. StaysTied
  <2>1. \A q \in stable' : \/ parent'[q].by = parent[q].by
                           \/ parent[q].by \notin tids'[parent[q].parent]
    BY <1>1, <1>3, <1>4, <1>5
  <2>2. \A q \in stable' : tids'[q] \subseteq tids[q]
    BY <1>1, <1>3, <1>4
  <2> QED
    BY <1>1, <1>3, <1>5, <1>7, <2>1, <2>2 DEF StaysTied
<1>9. \A x \in Pids : tids'[x] \subseteq tids[x] /\ IsFiniteSet(tids'[x])
  BY <1>4, FS_Subset DEF KernelInv
<1>10. tids' \in [Pids -> SUBSET Nat] /\ heir \in Nat
  BY <1>1, <1>3, <1>4
<1>11. parent' \in [Pids -> [parent : Pids \union {0}, by : Nat]]
  BY <1>2, <1>3, <1>10
<1>12. \A x \in stable' \ {Root} : parent'[x].parent \in stable' /\ parent'[x].by \in tids'[parent'[x].parent]
  <2> SUFFICES ASSUME NEW x \in stable \ {Root}
               PROVE  parent'[x].parent \in stable /\ parent'[x].by \in tids'[parent'[x].parent]
    BY <1>1
  <2>1. x \in Pids /\ parent[x].parent \in stable /\ parent[x].by \in tids[parent[x].parent]
    BY <1>3 DEF KernelInv
  <2> QED
    BY <1>3, <1>4, <1>5, <2>1
<1> QED
  BY <1>1, <1>3, <1>7, <1>8, <1>9, <1>10, <1>11, <1>12 DEF KernelInv

LEMMA ForksTied ==
  ASSUME KernelInv, NEW p \in Pids \union {0}, NEW c \in Pids, Forks(p, c)
  PROVE  StaysTied /\ KernelInv'
<1>1. /\ c \notin live /\ live' = live \union {c} /\ tids' = [tids EXCEPT ![c] = {c}]
      /\ stable' = stable
  BY DEF Forks
<1>2. PICK f \in [parent : Pids \union {0}, by : Nat] : parent' = [parent EXCEPT ![c] = f]
  <2>1. CASE p = 0 /\ parent' = [parent EXCEPT ![c] = [parent |-> 0, by |-> 0]]
    BY <2>1
  <2>2. CASE p \in live /\ \E t \in tids[p] : parent' = [parent EXCEPT ![c] = [parent |-> p, by |-> t]]
    <3>1. PICK t \in tids[p] : parent' = [parent EXCEPT ![c] = [parent |-> p, by |-> t]]
      BY <2>2
    <3>2. t \in Nat /\ p \in Pids
      BY <2>2 DEF KernelInv
    <3> QED
      BY <3>1, <3>2
  <2> QED
    BY <2>1, <2>2 DEF Forks
<1>3. /\ live \subseteq Pids /\ stable \subseteq live /\ tids \in [Pids -> SUBSET Nat]
      /\ parent \in [Pids -> [parent : Pids \union {0}, by : Nat]]
  BY DEF KernelInv
<1>4. \A q \in live : q # c /\ q \in Pids /\ parent'[q] = parent[q] /\ tids'[q] = tids[q]
  BY <1>1, <1>2, <1>3
<1>5. \A S : Closed(S)' => Closed(S)
  BY <1>1, <1>4 DEF Closed
<1>6. \A d : Below(d) \subseteq Below(d)'
  BY <1>1, <1>5 DEF Below
<1>7. StaysTied
  BY <1>1, <1>3, <1>4, <1>6 DEF StaysTied
<1>8. tids' \in [Pids -> SUBSET Nat] /\ \A x \in Pids : IsFiniteSet(tids'[x])
  <2>1. c \in Nat /\ IsFiniteSet({c})
    BY TreeAssumption, FS_Singleton
  <2> QED
    BY <1>1, <1>3, <2>1 DEF KernelInv
<1>9. parent' \in [Pids -> [parent : Pids \union {0}, by : Nat]]
  BY <1>2, <1>3
<1>10. \A x \in stable' \ {Root} : parent'[x].parent \in stable' /\ parent'[x].by \in tids'[parent'[x].parent]
  BY <1>1, <1>3, <1>4 DEF KernelInv
<1>11. stable' \subseteq Below(Root)'
  BY <1>1, <1>6 DEF KernelInv
<1>12. live' \in SUBSET Pids /\ stable' \in SUBSET live'
  BY <1>1, <1>3
<1> QED
  BY <1>7, <1>8, <1>9, <1>10, <1>11, <1>12 DEF KernelInv

-----------------------------------------------------------------------------
(* The collector: what it has found, is to visit, or has reported. *)

\* A diagnostic that says why a process may not be in the manifest.
Says(d, p) == \/ d.section = "process_tree"
              \/ p \in Below(d.pid) /\ d.section \in {"status", "threads", "children"}
Covered(p) == \E d \in diagnostics : Says(d, p)
Accounted(p) == p \in ToSet(queue) \union {cur.pid} \union Found \/ Covered(p)

\* The threads whose children the process at hand is still to be asked for.
ToAsk == IF cur.stage = "threads" THEN cur.todo \union cur.threads
         ELSE IF cur.stage = "children" THEN cur.todo ELSE {}

\* A child of the process at hand is among those read, or will be read from the
\* thread that lists it, or the collector will report a thread that is gone.
ChildKept(c) ==
    \/ Covered(c) \/ c \in cur.children
    \/ parent[c].by \in ToAsk
    \/ \E t \in ToAsk : t \notin tids[cur.pid]

Stages == {"idle", "status", "task", "threads", "children", "files"}
SectionNames == {"status", "maps", "fds", "namespaces", "cgroup", "network", "executable", "command"}

CollectorInv ==
    /\ queue \in Seq(Pids)
    /\ collected \in Seq([pid : Pids \union {0}, missing : SUBSET SectionNames])
    /\ cur \in [pid : Pids \union {0}, stage : Stages, todo : SUBSET Nat, threads : SUBSET Nat,
                children : SUBSET Pids, sections : Seq(SectionNames), missing : SUBSET SectionNames]
    /\ cur.stage = "idle" \/ cur.pid # 0

TiedInv ==
    /\ Root \in stable => Accounted(Root)
    /\ \A c \in stable \ {Root} : parent[c].parent \in Found => Accounted(c)
    /\ \A p \in seen \intersect stable : p \in {cur.pid} \union Found \/ Covered(p)
    /\ cur.stage \in {"threads", "children", "files"} =>
          \A c \in stable \ {Root} : parent[c].parent = cur.pid => ChildKept(c)
    /\ walking \/ (\E d \in diagnostics : d.section = "process_tree") \/ (cur = Idle0 /\ queue = <<>>)

ProcInv == KernelInv /\ CollectorInv /\ TiedInv

\* A step of the kernel leaves the collector what it knows.
LEMMA KernelKeeps ==
  ASSUME ProcInv, StaysTied, KernelInv', UNCHANGED collector_vars
  PROVE  ProcInv'
<1>1. /\ queue' = queue /\ seen' = seen /\ cur' = cur /\ collected' = collected
      /\ diagnostics' = diagnostics /\ walking' = walking
  BY DEF collector_vars
<1>2. stable' \subseteq stable /\ Found' = Found /\ ToAsk' = ToAsk
  BY <1>1 DEF StaysTied, Found, ToAsk
<1>3. \A p \in stable' : Covered(p) => Covered(p)'
  BY <1>1 DEF StaysTied, Covered, Says
<1>4. \A p \in stable' : Accounted(p) => Accounted(p)'
  BY <1>1, <1>2, <1>3 DEF Accounted
<1>5. CollectorInv'
  BY <1>1 DEF ProcInv, CollectorInv
<1>6. ASSUME cur.stage \in {"threads", "children", "files"}, NEW c \in stable' \ {Root},
             parent'[c].parent = cur.pid
      PROVE  ChildKept(c)'
  <2>1. PICK p : p = cur.pid
    OBVIOUS
  <2>2. c \in stable \ {Root} /\ parent[c].parent = p /\ ChildKept(c)
    BY <1>2, <1>6, <2>1 DEF StaysTied, ProcInv, TiedInv
  <2>3. p \in stable' /\ cur'.pid = p
    BY <1>1, <1>6, <2>1, <2>2 DEF KernelInv, ProcInv, StaysTied
  <2>4. tids'[p] \subseteq tids[p]
    BY <2>3 DEF StaysTied
  <2>5. parent'[c].by = parent[c].by \/ parent[c].by \notin tids'[p]
    BY <1>6, <2>2 DEF StaysTied
  <2> QED
    BY <1>1, <1>2, <1>3, <1>6, <2>1, <2>2, <2>3, <2>4, <2>5 DEF ChildKept
<1>7. TiedInv'
  <2>1. Root \in stable' => Accounted(Root)'
    BY <1>2, <1>4 DEF ProcInv, TiedInv
  <2>2. \A c \in stable' \ {Root} : parent'[c].parent \in Found' => Accounted(c)'
    BY <1>2, <1>4 DEF StaysTied, ProcInv, TiedInv
  <2>3. \A p \in seen' \intersect stable' : p \in {cur'.pid} \union Found' \/ Covered(p)'
    BY <1>1, <1>2, <1>3 DEF ProcInv, TiedInv
  <2>4. walking' \/ (\E d \in diagnostics' : d.section = "process_tree") \/ (cur' = Idle0 /\ queue' = <<>>)
    BY <1>1 DEF ProcInv, TiedInv
  <2> QED
    BY <1>1, <1>6, <2>1, <2>2, <2>3, <2>4 DEF TiedInv, Idle0
<1> QED
  BY <1>5, <1>7 DEF ProcInv

\* The kernel stands still under a step of the collector, and a report stays.
LEMMA CollectorStepFacts ==
  ASSUME UNCHANGED kernel_vars, diagnostics \subseteq diagnostics'
  PROVE  /\ stable' = stable /\ parent' = parent /\ tids' = tids /\ live' = live
         /\ \A d : Below(d)' = Below(d)
         /\ \A p : Covered(p) => Covered(p)'
         /\ KernelInv => KernelInv'
<1>1. stable' = stable /\ parent' = parent /\ tids' = tids /\ live' = live
  BY DEF kernel_vars
<1>2. \A d : Below(d)' = Below(d)
  BY <1>1 DEF Below, Closed
<1>3. \A d, p : Says(d, p)' <=> Says(d, p)
  BY <1>2 DEF Says
<1>4. \A p : Covered(p) => Covered(p)'
  BY <1>3 DEF Covered
<1>5. KernelInv => KernelInv'
  BY <1>1, <1>2 DEF KernelInv
<1> QED
  BY <1>1, <1>2, <1>4, <1>5

\* A report about a process covers its children, and itself while it exists.
LEMMA ReportCovers ==
  ASSUME NEW p, NEW section, NEW issue, Report(p, section, issue), UNCHANGED kernel_vars
  PROVE  /\ diagnostics \subseteq diagnostics'
         /\ issue # "ok" =>
               /\ section = "process_tree" => /\ \E d \in diagnostics' : d.section = "process_tree"
                                              /\ \A c : Covered(c)'
               /\ section \in {"status", "threads", "children"} =>
                     \A c \in live : c = p \/ parent[c].parent = p => Covered(c)'
<1>1. diagnostics \subseteq diagnostics'
  BY DEF Report
<1>2. SUFFICES ASSUME issue # "ok"
               PROVE  /\ section = "process_tree" => /\ \E d \in diagnostics' : d.section = "process_tree"
                                                     /\ \A c : Covered(c)'
                      /\ section \in {"status", "threads", "children"} =>
                            \A c \in live : c = p \/ parent[c].parent = p => Covered(c)'
  BY <1>1
<1>3. PICK d \in diagnostics' : d.pid = p /\ d.section = section
  <2>1. Diagnostic(p, section, issue) \in diagnostics'
    BY <1>2 DEF Report
  <2> QED
    BY <2>1 DEF Diagnostic
<1>4. \A c \in live : c = p \/ parent[c].parent = p => c \in Below(p)
  BY BelowIsClosed
<1>5. Below(p)' = Below(p)
  BY <1>1, CollectorStepFacts
<1>6. section = "process_tree" => \A c : Covered(c)'
  BY <1>3 DEF Covered, Says
<1>7. section \in {"status", "threads", "children"} =>
         \A c \in live : c = p \/ parent[c].parent = p => Covered(c)'
  <2>1. Below(d.pid)' = Below(p)
    BY <1>3, <1>5
  <2>2. ASSUME section \in {"status", "threads", "children"}, NEW c \in Below(p)
        PROVE  Covered(c)'
    <3>1. Says(d, c)'
      BY <1>3, <1>5, <2>2 DEF Says
    <3> QED
      BY <1>3, <3>1 DEF Covered
  <2> QED
    BY <1>4, <2>2
<1> QED
  BY <1>3, <1>6, <1>7

\* A step at the process at hand that keeps it, and every child of it.
LEMMA AtHandKeeps ==
  ASSUME ProcInv, UNCHANGED <<kernel_vars, queue, seen, collected, walking>>,
         diagnostics \subseteq diagnostics', cur.stage # "idle", cur'.pid = cur.pid, CollectorInv',
         cur'.stage \in {"threads", "children", "files"} =>
            \A c \in stable \ {Root} : parent[c].parent = cur.pid => ChildKept(c)'
  PROVE  ProcInv'
<1>1. /\ queue' = queue /\ seen' = seen /\ collected' = collected /\ walking' = walking
      /\ UNCHANGED kernel_vars
  OBVIOUS
<1>2. /\ stable' = stable /\ parent' = parent
      /\ \A p : Covered(p) => Covered(p)'
      /\ KernelInv'
  BY <1>1, CollectorStepFacts DEF ProcInv
<1>3. Found' = Found
  BY <1>1 DEF Found
<1>4. \A p : Accounted(p) => Accounted(p)'
  BY <1>1, <1>2, <1>3 DEF Accounted
<1>5. cur # Idle0
  BY DEF Idle0
<1>6. /\ Root \in stable' => Accounted(Root)'
      /\ \A c \in stable' \ {Root} : parent'[c].parent \in Found' => Accounted(c)'
  BY <1>2, <1>3, <1>4 DEF ProcInv, TiedInv
<1>7. \A p \in seen' \intersect stable' : p \in {cur'.pid} \union Found' \/ Covered(p)'
  BY <1>1, <1>2, <1>3 DEF ProcInv, TiedInv
<1>8. walking' \/ (\E d \in diagnostics' : d.section = "process_tree") \/ (cur' = Idle0 /\ queue' = <<>>)
  BY <1>1, <1>5 DEF ProcInv, TiedInv
<1>9. TiedInv'
  BY <1>2, <1>6, <1>7, <1>8 DEF TiedInv, Idle0
<1> QED
  BY <1>2, <1>9 DEF ProcInv

\* Reading the first or the last of a process: it is left for the next one.
LEMMA LeavesKeeps ==
  ASSUME ProcInv, NEW p, p = cur.pid, UNCHANGED <<kernel_vars, seen, walking>>, walking, cur' = Idle0, CollectorInv',
         diagnostics \subseteq diagnostics', ToSet(queue) \subseteq ToSet(queue'),
         Found \subseteq Found', Found' \subseteq Found \union {p},
         p \in stable => p \in Found' \/ Covered(p)',
         p \in Found' \ Found => \A c \in stable \ {Root} :
            parent[c].parent = p => c \in ToSet(queue') \/ Covered(c)'
  PROVE  ProcInv'
<1>1. UNCHANGED kernel_vars /\ seen' = seen /\ walking'
  OBVIOUS
<1>2. /\ stable' = stable /\ parent' = parent
      /\ \A q : Covered(q) => Covered(q)'
      /\ KernelInv'
  BY <1>1, CollectorStepFacts DEF ProcInv
<1>3. \A q \in stable : Accounted(q) => Accounted(q)'
  BY <1>2 DEF Accounted
<1>4. \A c \in stable \ {Root} : parent[c].parent \in Found' => Accounted(c)'
  BY <1>3 DEF ProcInv, TiedInv, Accounted
<1>5. \A q \in seen \intersect stable : q \in Found' \/ Covered(q)'
  BY <1>2 DEF ProcInv, TiedInv
<1>6. cur'.stage = "idle"
  BY DEF Idle0
<1> QED
  BY <1>1, <1>2, <1>3, <1>4, <1>5, <1>6 DEF ProcInv, TiedInv

LEMMA CurFields ==
  ASSUME CollectorInv
  PROVE  /\ cur = [pid |-> cur.pid, stage |-> cur.stage, todo |-> cur.todo, threads |-> cur.threads,
                   children |-> cur.children, sections |-> cur.sections, missing |-> cur.missing]
         /\ cur.pid \in Pids \union {0} /\ cur.stage \in Stages /\ cur.todo \subseteq Nat
         /\ cur.threads \subseteq Nat /\ cur.children \subseteq Pids
         /\ cur.sections \in Seq(SectionNames) /\ cur.missing \subseteq SectionNames
BY DEF CollectorInv

LEMMA IdleIsTyped ==
  /\ Idle0 \in [pid : Pids \union {0}, stage : Stages, todo : SUBSET Nat, threads : SUBSET Nat,
                children : SUBSET Pids, sections : Seq(SectionNames), missing : SUBSET SectionNames]
  /\ Idle0.stage = "idle" /\ Idle0.pid = 0
BY DEF Idle0, Stages

LEMMA ReadStatusKeeps == ASSUME ProcInv, ReadStatus PROVE ProcInv'
<1>1. PICK p, issue : p = cur.pid /\ issue = read_file(cur.pid, "status")
  OBVIOUS
<1>2. /\ walking /\ UNCHANGED kernel_vars /\ cur.stage = "status" /\ Report(p, "status", issue)
      /\ cur' = IF issue = "process_disappeared" THEN Idle0
                ELSE [cur EXCEPT !.stage = "task", !.missing = IF Lost(issue) THEN {"status"} ELSE {}]
      /\ UNCHANGED <<queue, seen, collected, walking>>
  BY <1>1 DEF ReadStatus, CollectorSteps
<1>3. /\ diagnostics \subseteq diagnostics'
      /\ issue # "ok" => \A c \in live : c = p \/ parent[c].parent = p => Covered(c)'
  BY <1>2, ReportCovers
<1>4. CASE issue = "process_disappeared"
  <2>1. cur' = Idle0 /\ Found' = Found
    BY <1>2, <1>4 DEF Found
  <2>2. CollectorInv'
    BY <1>2, <2>1, IdleIsTyped DEF ProcInv, CollectorInv
  <2>3. p \in stable => Covered(p)'
    BY <1>1, <1>3, <1>4 DEF ProcInv, KernelInv
  <2> QED
    BY <1>1, <1>2, <1>3, <2>1, <2>2, <2>3, LeavesKeeps
<1>5. CASE issue # "process_disappeared"
  <2>1. PICK m : m = IF Lost(issue) THEN {"status"} ELSE {}
    OBVIOUS
  <2>2. cur' = [cur EXCEPT !.stage = "task", !.missing = m] /\ m \subseteq SectionNames
    BY <1>2, <1>5, <2>1 DEF SectionNames
  <2>3. cur'.pid = cur.pid /\ cur'.stage = "task"
    BY <2>2 DEF ProcInv, CollectorInv
  <2>4. CollectorInv'
    BY <1>2, <2>2, ZenonT(60) DEF ProcInv, CollectorInv, Stages
  <2> QED
    BY <1>2, <1>3, <2>3, <2>4, AtHandKeeps
<1> QED
  BY <1>4, <1>5

LEMMA NumericDirectoryKeeps == ASSUME ProcInv, numeric_directory PROVE ProcInv'
<1>1. PICK p, issue : p = cur.pid /\ issue = read_file(cur.pid, "threads")
  OBVIOUS
<1>2. PICK n : n = Cardinality(tids[p])
  OBVIOUS
<1>3. PICK said : said = IF ~Lost(issue) /\ n > max_threads_per_process THEN "limit_exceeded" ELSE issue
  OBVIOUS
<1>4. PICK entries \in SUBSET tids[p] :
         /\ Cardinality(entries) = IF Lost(issue) THEN 0 ELSE Min({n, max_threads_per_process})
         /\ Report(p, "threads", said)
         /\ cur' = [cur EXCEPT !.stage = "threads", !.todo = entries]
  BY <1>1, <1>2, <1>3 DEF numeric_directory
<1>5. /\ walking /\ UNCHANGED kernel_vars /\ cur.stage = "task"
      /\ UNCHANGED <<queue, seen, collected, walking>>
  BY DEF numeric_directory, CollectorSteps
<1>6. /\ diagnostics \subseteq diagnostics'
      /\ said # "ok" => \A c \in live : parent[c].parent = p => Covered(c)'
  BY <1>4, <1>5, ReportCovers
<1>7. p \in Pids
  BY <1>1, <1>5 DEF ProcInv, CollectorInv
<1>8. /\ tids[p] \subseteq Nat /\ IsFiniteSet(tids[p]) /\ n \in Nat
  BY <1>2, <1>7, FS_CardinalityType DEF ProcInv, KernelInv
<1>9. CollectorInv' /\ cur'.pid = cur.pid /\ cur'.stage = "threads" /\ cur'.todo = entries
  <2>1. entries \subseteq Nat
    BY <1>8
  <2> QED
    BY <1>4, <1>5, <2>1 DEF ProcInv, CollectorInv, Stages
<1>10. said = "ok" => entries = tids[p]
  <2> SUFFICES ASSUME said = "ok"
               PROVE  entries = tids[p]
    OBVIOUS
  <2>1. ~Lost(issue) /\ ~(n > max_threads_per_process)
    BY <1>3 DEF Lost
  <2>2. max_threads_per_process \in Nat
    BY CollectorLimits
  <2>3. {n, max_threads_per_process} \in SUBSET Nat
    BY <1>8, <2>2
  <2>4. Min({n, max_threads_per_process}) \in {n, max_threads_per_process}
        /\ Min({n, max_threads_per_process}) <= n
    BY <2>3, SmallestExists
  <2>5. Cardinality(entries) = n
    BY <1>4, <1>8, <2>1, <2>2, <2>4
  <2> QED
    BY ONLY <1>2, <1>8, <2>5, entries \in SUBSET tids[p], FS_Subset
<1>11. \A c \in stable \ {Root} : parent[c].parent = cur.pid => ChildKept(c)'
  <2> SUFFICES ASSUME NEW c \in stable \ {Root}, parent[c].parent = p
               PROVE  ChildKept(c)'
    BY <1>1
  <2>1. c \in live /\ parent[c].by \in tids[p] /\ parent' = parent
    BY <1>5 DEF ProcInv, KernelInv, kernel_vars
  <2>2. said = "ok" => parent'[c].by \in ToAsk'
    BY <1>9, <1>10, <2>1 DEF ToAsk
  <2> QED
    BY <1>6, <2>1, <2>2 DEF ChildKept
<1> QED
  BY <1>5, <1>6, <1>9, <1>11, AtHandKeeps

LEMMA CollectThreadsKeeps == ASSUME ProcInv, collect_threads PROVE ProcInv'
<1>1. PICK p : p = cur.pid
  OBVIOUS
<1>2. /\ UNCHANGED kernel_vars /\ cur.stage = "threads"
      /\ UNCHANGED <<queue, seen, collected, walking>>
  BY DEF collect_threads, CollectorSteps
<1>3. /\ parent' = parent /\ tids' = tids /\ cur.todo \subseteq Nat /\ ToAsk = cur.todo \union cur.threads
  BY <1>2, CurFields DEF kernel_vars, ProcInv, ToAsk
<1>4. CASE cur.todo = {}
  <2>1. /\ cur' = [cur EXCEPT !.stage = "children", !.todo = cur.threads]
        /\ diagnostics' = diagnostics
    BY <1>4 DEF collect_threads
  <2>2. CollectorInv' /\ cur'.pid = cur.pid /\ cur'.stage = "children" /\ cur'.todo = cur.threads
    BY <1>2, <2>1 DEF ProcInv, CollectorInv, Stages
  <2>3. ToAsk' = ToAsk /\ cur'.children = cur.children
    BY <1>3, <1>4, <2>1, <2>2 DEF ToAsk, ProcInv, CollectorInv
  <2>4. \A c : ChildKept(c) => ChildKept(c)'
    BY <1>2, <1>3, <2>1, <2>2, <2>3, CollectorStepFacts DEF ChildKept
  <2> QED
    BY <1>2, <2>1, <2>2, <2>4, AtHandKeeps DEF ProcInv, TiedInv
<1>5. CASE cur.todo # {}
  <2>1. PICK t, issue : t = Min(cur.todo) /\ issue = IF t \in tids[p] THEN "ok" ELSE "process_disappeared"
    OBVIOUS
  <2>2. t \in cur.todo
    BY <1>3, <1>5, <2>1, SmallestExists
  <2>3. /\ Report(p, "threads", issue)
        /\ cur' = [cur EXCEPT !.todo = @ \ {t},
                              !.threads = IF issue = "ok" THEN @ \union {t} ELSE @]
    BY <1>1, <1>5, <2>1 DEF collect_threads
  <2>4. /\ diagnostics \subseteq diagnostics'
        /\ issue # "ok" => \A c \in live : parent[c].parent = p => Covered(c)'
    BY <1>2, <2>3, ReportCovers
  <2>5. /\ CollectorInv' /\ cur'.pid = cur.pid /\ cur'.stage = "threads" /\ cur'.todo = cur.todo \ {t}
        /\ cur'.threads = IF issue = "ok" THEN cur.threads \union {t} ELSE cur.threads
        /\ cur'.children = cur.children
    <3>1. PICK ths : ths = IF issue = "ok" THEN cur.threads \union {t} ELSE cur.threads
      OBVIOUS
    <3>2. cur' = [cur EXCEPT !.todo = cur.todo \ {t}, !.threads = ths]
      BY <2>3, <3>1, CurFields DEF ProcInv
    <3>3. ths \subseteq Nat
      BY <1>3, <2>2, <3>1, CurFields DEF ProcInv
    <3> QED
      BY <1>2, <3>1, <3>2, <3>3 DEF ProcInv, CollectorInv
  <2>6. issue = "ok" => ToAsk' = ToAsk
    BY <1>3, <2>2, <2>5, <1>2 DEF ToAsk
  <2>7. \A c \in stable \ {Root} : parent[c].parent = p => ChildKept(c)'
    <3> SUFFICES ASSUME NEW c \in stable \ {Root}, parent[c].parent = p
                 PROVE  ChildKept(c)'
      OBVIOUS
    <3>1. ChildKept(c) /\ c \in live
      BY <1>1, <1>2 DEF ProcInv, TiedInv, KernelInv
    <3>2. Covered(c) => Covered(c)'
      BY <1>2, <2>4, CollectorStepFacts
    <3> QED
      BY <1>3, <2>4, <2>5, <2>6, <3>1, <3>2 DEF ChildKept
  <2> QED
    BY <1>1, <1>2, <2>4, <2>5, <2>7, AtHandKeeps
<1> QED
  BY <1>4, <1>5

LEMMA CollectChildrenKeeps == ASSUME ProcInv, collect_children PROVE ProcInv'
<1>1. PICK p : p = cur.pid
  OBVIOUS
<1>2. /\ UNCHANGED kernel_vars /\ cur.stage = "children"
      /\ UNCHANGED <<queue, seen, collected, walking>>
  BY DEF collect_children, CollectorSteps
<1>3. /\ parent' = parent /\ tids' = tids /\ cur.todo \subseteq Nat /\ ToAsk = cur.todo
  BY <1>2, CurFields DEF kernel_vars, ProcInv, ToAsk
<1>4. CASE cur.todo = {}
  <2>1. /\ cur' = [cur EXCEPT !.stage = "files", !.sections = Sections]
        /\ diagnostics' = diagnostics
    BY <1>4 DEF collect_children
  <2>2. Sections \in Seq(SectionNames)
    BY DEF Sections, SectionNames
  <2>3. /\ CollectorInv' /\ cur'.pid = cur.pid /\ cur'.stage = "files" /\ cur'.children = cur.children
    BY <1>2, <2>1, <2>2 DEF ProcInv, CollectorInv, Stages
  <2>4. ToAsk' = ToAsk
    BY <1>3, <1>4, <2>3 DEF ToAsk
  <2>5. \A c : ChildKept(c) => ChildKept(c)'
    BY <1>2, <1>3, <2>1, <2>3, <2>4, CollectorStepFacts DEF ChildKept
  <2> QED
    BY <1>2, <2>1, <2>3, <2>5, AtHandKeeps DEF ProcInv, TiedInv
<1>5. CASE cur.todo # {}
  <2>1. PICK t, issue : /\ t = Min(cur.todo)
                       /\ issue = IF t \in tids[p] THEN read_file(p, "children") ELSE "process_disappeared"
    OBVIOUS
  <2>2. t \in cur.todo
    BY <1>3, <1>5, <2>1, SmallestExists
  <2>3. PICK young : young = IF Lost(issue) THEN cur.children ELSE cur.children \union ChildrenOf(p, t)
    OBVIOUS
  <2>4. /\ Report(p, "children", issue)
        /\ cur' = [cur EXCEPT !.todo = cur.todo \ {t}, !.children = young]
    BY <1>1, <1>5, <2>1, <2>3, CurFields DEF collect_children, ProcInv
  <2>5. /\ diagnostics \subseteq diagnostics'
        /\ issue # "ok" => \A c \in live : parent[c].parent = p => Covered(c)'
    BY <1>2, <2>4, ReportCovers
  <2>6. young \subseteq Pids /\ cur.children \subseteq young
    BY <2>3, CurFields DEF ProcInv, KernelInv, ChildrenOf, Listed
  <2>7. /\ CollectorInv' /\ cur'.pid = cur.pid /\ cur'.stage = "children" /\ cur'.todo = cur.todo \ {t}
        /\ cur'.children = young
    BY <1>2, <2>4, <2>6 DEF ProcInv, CollectorInv
  <2>8. ToAsk' = ToAsk \ {t}
    BY <1>3, <2>7 DEF ToAsk
  <2>9. \A c \in stable \ {Root} : parent[c].parent = p => ChildKept(c)'
    <3> SUFFICES ASSUME NEW c \in stable \ {Root}, parent[c].parent = p
                 PROVE  ChildKept(c)'
      OBVIOUS
    <3>1. ChildKept(c) /\ c \in live
      BY <1>1, <1>2 DEF ProcInv, TiedInv, KernelInv
    <3>2. Covered(c) => Covered(c)'
      BY <1>2, <2>5, CollectorStepFacts
    <3>3. issue = "ok" => t \in tids[p] /\ (parent[c].by = t => c \in young)
      BY <2>1, <2>3, <3>1 DEF Lost, ChildrenOf, Listed
    <3> QED
      BY <1>1, <1>3, <2>5, <2>6, <2>7, <2>8, <3>1, <3>2, <3>3 DEF ChildKept
  <2> QED
    BY <1>1, <1>2, <2>5, <2>7, <2>9, AtHandKeeps
<1> QED
  BY <1>4, <1>5

LEMMA CollectFilesKeeps == ASSUME ProcInv, collect_files PROVE ProcInv'
<1>1. PICK p, section, issue : p = cur.pid /\ section = Head(cur.sections) /\ issue = FileKind(section)
  OBVIOUS
<1>2. /\ UNCHANGED kernel_vars /\ cur.stage = "files" /\ cur.sections # <<>>
      /\ UNCHANGED <<queue, seen, collected, walking>>
      /\ Report(p, section, issue)
  BY <1>1 DEF collect_files, CollectorSteps
<1>3. PICK m : m = IF Lost(issue) THEN cur.missing \union {section} ELSE cur.missing
  OBVIOUS
<1>4. cur' = [cur EXCEPT !.sections = Tail(cur.sections), !.missing = m]
  BY <1>1, <1>3, CurFields DEF collect_files, ProcInv
<1>5. m \subseteq SectionNames /\ Tail(cur.sections) \in Seq(SectionNames)
  BY <1>1, <1>2, <1>3, CurFields, HeadTailProperties DEF ProcInv
<1>6. /\ CollectorInv' /\ cur'.pid = cur.pid /\ cur'.stage = "files" /\ cur'.children = cur.children
  BY <1>2, <1>4, <1>5 DEF ProcInv, CollectorInv
<1>7. diagnostics \subseteq diagnostics' /\ ToAsk' = ToAsk /\ parent' = parent /\ tids' = tids
  BY <1>2, <1>6, ReportCovers DEF ToAsk, kernel_vars
<1>8. \A c : ChildKept(c) => ChildKept(c)'
  BY <1>2, <1>6, <1>7, CollectorStepFacts DEF ChildKept
<1> QED
  BY <1>2, <1>6, <1>7, <1>8, AtHandKeeps DEF ProcInv, TiedInv

\* What one process adds to the manifest, and to what is still to be visited.
LEMMA EndsProcessKeeps == ASSUME ProcInv, EndsProcess PROVE ProcInv'
<1>1. PICK p, young : p = cur.pid /\ young = cur.children
  OBVIOUS
<1>2. PICK next \in Ascending(young) : queue' = queue \o next
  BY <1>1 DEF EndsProcess
<1>3. /\ walking /\ UNCHANGED kernel_vars /\ cur.stage = "files"
      /\ collected' = Append(collected, [pid |-> p, missing |-> cur.missing])
      /\ cur' = Idle0 /\ UNCHANGED <<seen, diagnostics, walking>>
  BY <1>1 DEF EndsProcess, CollectorSteps
<1>4. young \subseteq Pids /\ p \in Pids \union {0} /\ cur.missing \subseteq SectionNames
  BY <1>1, CurFields DEF ProcInv
<1>5. queue \in Seq(Pids) /\ collected \in Seq([pid : Pids \union {0}, missing : SUBSET SectionNames])
  BY DEF ProcInv, CollectorInv
<1>6. ToSet(next) = young /\ next \in Seq(Pids)
  <2>1. next \in [1..Cardinality(young) -> young] /\ ToSet(next) = young
    BY <1>2 DEF Ascending
  <2>2. IsFiniteSet(young) /\ Cardinality(young) \in Nat
    BY <1>4, TreeAssumption, FS_Subset, FS_CardinalityType
  <2> QED
    BY <1>4, <2>1, <2>2
<1>7. queue' \in Seq(Pids) /\ ToSet(queue') = ToSet(queue) \union young
  <2>1. Len(queue) \in Nat /\ Len(next) \in Nat /\ DOMAIN queue = 1..Len(queue) /\ DOMAIN next = 1..Len(next)
    BY <1>5, <1>6, LenProperties
  <2>2. queue' \in Seq(Pids) /\ Len(queue') = Len(queue) + Len(next)
        /\ \A i \in 1..(Len(queue) + Len(next)) :
              queue'[i] = IF i <= Len(queue) THEN queue[i] ELSE next[i - Len(queue)]
    BY <1>2, <1>5, <1>6, ConcatProperties
  <2>3. PICK a, b : a = Len(queue) /\ b = Len(next) /\ DOMAIN queue' = 1..(a + b)
    BY <2>2, LenProperties
  <2>4. ASSUME NEW i \in 1..a PROVE queue[i] \in ToSet(queue')
    <3>1. i \in 1..(a + b) /\ i <= a
      BY <2>1, <2>3, <2>4
    <3> QED
      BY <2>2, <2>3, <3>1 DEF ToSet
  <2>5. ASSUME NEW i \in 1..b PROVE next[i] \in ToSet(queue')
    <3>1. PICK j : j = a + i
      OBVIOUS
    <3>2. j \in 1..(a + b) /\ ~(j <= a) /\ j - a = i
      BY <2>1, <2>3, <2>5, <3>1
    <3>3. queue'[j] = next[i] /\ j \in DOMAIN queue'
      BY <2>2, <2>3, <3>2
    <3> QED
      BY <3>3 DEF ToSet
  <2>6. ASSUME NEW k \in 1..(a + b) PROVE queue'[k] \in ToSet(queue) \union ToSet(next)
    <3>1. CASE k <= a
      <4>1. k \in 1..a /\ queue'[k] = queue[k]
        BY <2>1, <2>2, <2>3, <2>6, <3>1
      <4> QED
        BY <2>1, <2>3, <4>1 DEF ToSet
    <3>2. CASE ~(k <= a)
      <4>1. PICK j : j = k - a
        OBVIOUS
      <4>2. j \in 1..b /\ queue'[k] = next[j]
        BY <2>1, <2>2, <2>3, <2>6, <3>2, <4>1
      <4> QED
        BY <2>1, <2>3, <4>2 DEF ToSet
    <3> QED
      BY <3>1, <3>2
  <2> QED
    BY <1>6, <2>1, <2>2, <2>3, <2>4, <2>5, <2>6, ZenonT(60) DEF ToSet
<1>8. /\ collected' \in Seq([pid : Pids \union {0}, missing : SUBSET SectionNames])
      /\ Found' = Found \union {p}
  <2>1. PICK e : e = [pid |-> p, missing |-> cur.missing]
    OBVIOUS
  <2>2. e \in [pid : Pids \union {0}, missing : SUBSET SectionNames] /\ e.pid = p
    BY <1>4, <2>1
  <2>3. /\ collected' \in Seq([pid : Pids \union {0}, missing : SUBSET SectionNames])
        /\ Len(collected') = Len(collected) + 1
        /\ \A i \in 1..Len(collected) : collected'[i] = collected[i]
        /\ collected'[Len(collected) + 1] = e
    BY <1>3, <1>5, <2>1, <2>2, AppendProperties
  <2>4. Len(collected) \in Nat /\ DOMAIN collected = 1..Len(collected) /\ DOMAIN collected' = 1..Len(collected')
    BY <1>5, <2>3, LenProperties
  <2> QED
    BY <2>2, <2>3, <2>4 DEF Found
<1>9. CollectorInv'
  BY <1>3, <1>7, <1>8, IdleIsTyped DEF CollectorInv
<1>10. \A c \in stable \ {Root} : parent[c].parent = p => c \in ToSet(queue') \/ Covered(c)'
  <2> SUFFICES ASSUME NEW c \in stable \ {Root}, parent[c].parent = p
               PROVE  c \in ToSet(queue') \/ Covered(c)'
    OBVIOUS
  <2>1. ChildKept(c) /\ ToAsk = {}
    BY <1>1, <1>3 DEF ProcInv, TiedInv, ToAsk
  <2>2. Covered(c) => Covered(c)'
    BY <1>3, CollectorStepFacts
  <2> QED
    BY <1>1, <1>7, <2>1, <2>2 DEF ChildKept
<1> QED
  BY <1>1, <1>3, <1>7, <1>8, <1>9, <1>10, LeavesKeeps

\* Taking the next process: one that was seen is skipped, and one too many ends the
\* walk with a report.
LEMMA NextProcessKeeps == ASSUME ProcInv, NextProcess PROVE ProcInv'
<1>1. PICK p, rest : p = Head(queue) /\ rest = Tail(queue)
  OBVIOUS
<1>2. /\ walking /\ UNCHANGED kernel_vars /\ cur = Idle0 /\ queue # <<>> /\ collected' = collected
      /\ queue' = rest /\ seen' = seen \union {p}
  BY <1>1 DEF NextProcess, CollectorSteps
<1>3. queue \in Seq(Pids)
  BY DEF ProcInv, CollectorInv
<1>4. /\ p \in Pids /\ rest \in Seq(Pids) /\ ToSet(queue) \subseteq {p} \union ToSet(rest)
  <2>1. /\ p \in Pids /\ rest \in Seq(Pids) /\ Len(rest) = Len(queue) - 1
        /\ \A i \in 1..Len(rest) : rest[i] = queue[i + 1]
    BY <1>1, <1>2, <1>3, HeadTailProperties
  <2>2. Len(queue) \in Nat /\ Len(rest) \in Nat /\ DOMAIN queue = 1..Len(queue) /\ DOMAIN rest = 1..Len(rest)
    BY <1>3, <2>1, LenProperties
  <2>3. ASSUME NEW i \in 1..Len(queue) PROVE queue[i] = p \/ queue[i] \in ToSet(rest)
    <3>1. CASE i = 1
      BY <1>1, <3>1
    <3>2. CASE i # 1
      <4>1. PICK j, n, m : j = i - 1 /\ n = Len(queue) /\ m = Len(rest)
        OBVIOUS
      <4>2. j \in 1..m /\ j + 1 = i
        BY <2>1, <2>2, <2>3, <3>2, <4>1
      <4> QED
        BY <2>1, <2>2, <4>1, <4>2 DEF ToSet
    <3> QED
      BY <3>1, <3>2
  <2> QED
    BY <2>1, <2>2, <2>3 DEF ToSet
<1>5. Found' = Found /\ Idle0.pid = 0 /\ 0 \notin Pids /\ stable \subseteq Pids
  BY <1>2, IdleIsTyped, TreeAssumption DEF Found, ProcInv, KernelInv
<1>6. CASE p \in seen
  <2>1. cur' = Idle0 /\ diagnostics' = diagnostics /\ walking'
    BY <1>1, <1>2, <1>6 DEF NextProcess
  <2>2. /\ stable' = stable /\ parent' = parent /\ KernelInv'
        /\ \A q : Covered(q) => Covered(q)'
    BY <1>2, <2>1, CollectorStepFacts DEF ProcInv
  <2>3. p \in stable => p \in Found \/ Covered(p)
    BY <1>2, <1>5, <1>6 DEF ProcInv, TiedInv
  <2>4. \A q \in stable : Accounted(q) => Accounted(q)'
    <3> SUFFICES ASSUME NEW q \in stable, Accounted(q)
                 PROVE  Accounted(q)'
      OBVIOUS
    <3>1. q # 0 /\ (q \in ToSet(rest) \union Found \/ Covered(q))
      BY <1>2, <1>4, <1>5, <2>3 DEF Accounted
    <3> QED
      BY <1>2, <1>5, <2>1, <2>2, <3>1 DEF Accounted
  <2>5. CollectorInv'
    BY <1>2, <1>4, <2>1 DEF ProcInv, CollectorInv
  <2>6. \A q \in seen' \intersect stable' : q \in {cur'.pid} \union Found' \/ Covered(q)'
    BY <1>2, <1>5, <2>1, <2>2, <2>3 DEF ProcInv, TiedInv
  <2>7. cur'.stage = "idle"
    BY <2>1, IdleIsTyped
  <2>8. TiedInv'
    BY <1>5, <2>1, <2>2, <2>4, <2>6, <2>7 DEF ProcInv, TiedInv
  <2> QED
    BY <2>2, <2>5, <2>8 DEF ProcInv
<1>7. CASE p \notin seen /\ Len(collected) >= max_processes
  <2>1. Report(0, "process_tree", "limit_exceeded") /\ cur' = Idle0
    BY <1>1, <1>2, <1>7 DEF NextProcess
  <2>2. /\ diagnostics \subseteq diagnostics'
        /\ \E d \in diagnostics' : d.section = "process_tree"
        /\ \A q : Covered(q)'
    BY <1>2, <2>1, ReportCovers
  <2>3. KernelInv'
    BY <1>2, <2>2, CollectorStepFacts DEF ProcInv
  <2>4. CollectorInv'
    BY <1>2, <1>4, <2>1 DEF ProcInv, CollectorInv
  <2>5. cur'.stage = "idle" /\ \A q : Accounted(q)'
    BY <2>1, <2>2, IdleIsTyped DEF Accounted
  <2>6. TiedInv'
    BY <2>2, <2>5 DEF TiedInv
  <2> QED
    BY <2>3, <2>4, <2>6 DEF ProcInv
<1>8. CASE p \notin seen /\ ~(Len(collected) >= max_processes)
  <2>1. /\ cur' = [Idle0 EXCEPT !.pid = p, !.stage = "status"]
        /\ diagnostics' = diagnostics /\ walking'
    BY <1>1, <1>2, <1>8 DEF NextProcess
  <2>2. cur'.pid = p /\ cur'.stage = "status" /\ CollectorInv'
    BY <1>2, <1>4, <1>5, <2>1, IdleIsTyped DEF ProcInv, CollectorInv, Stages
  <2>3. /\ stable' = stable /\ parent' = parent /\ KernelInv'
        /\ \A q : Covered(q) => Covered(q)'
    BY <1>2, <2>1, CollectorStepFacts DEF ProcInv
  <2>4. \A q \in stable : Accounted(q) => Accounted(q)'
    <3> SUFFICES ASSUME NEW q \in stable, Accounted(q)
                 PROVE  Accounted(q)'
      OBVIOUS
    <3>1. q # 0 /\ (q \in ToSet(rest) \union {p} \union Found \/ Covered(q))
      BY <1>2, <1>4, <1>5 DEF Accounted
    <3> QED
      BY <1>2, <1>5, <2>2, <2>3, <3>1 DEF Accounted
  <2>5. \A q \in seen' \intersect stable' : q \in {cur'.pid} \union Found' \/ Covered(q)'
    BY <1>2, <1>5, <2>2, <2>3 DEF ProcInv, TiedInv
  <2>6. TiedInv'
    BY <1>5, <2>1, <2>2, <2>3, <2>4, <2>5 DEF ProcInv, TiedInv
  <2> QED
    BY <2>2, <2>3, <2>6 DEF ProcInv
<1> QED
  BY <1>6, <1>7, <1>8

LEMMA EndsWalkKeeps == ASSUME ProcInv, EndsWalk PROVE ProcInv'
<1>1. /\ UNCHANGED <<kernel_vars, queue, seen, cur, diagnostics>> /\ cur = Idle0 /\ queue = <<>>
  BY DEF EndsWalk, CollectorSteps
<1>2. PICK sorted \in [DOMAIN collected -> ToSet(collected)] :
         ToSet(sorted) = ToSet(collected) /\ collected' = sorted
  BY DEF EndsWalk
<1>3. PICK E : E = [pid : Pids \union {0}, missing : SUBSET SectionNames]
  OBVIOUS
<1>4. collected' \in Seq(E)
  <2>1. collected \in Seq(E) /\ Len(collected) \in Nat /\ DOMAIN collected = 1..Len(collected)
    BY <1>3, LenProperties DEF ProcInv, CollectorInv
  <2>2. ToSet(collected) \subseteq E
    BY <2>1, ElementOfSeq DEF ToSet
  <2> QED
    BY <1>2, <2>1, <2>2
<1>5. Found' = Found
  <2>1. Found = {e.pid : e \in ToSet(collected)} /\ Found' = {e.pid : e \in ToSet(sorted)}
    BY <1>2 DEF Found, ToSet
  <2> QED
    BY <1>2, <2>1
<1>6. /\ stable' = stable /\ parent' = parent /\ tids' = tids /\ KernelInv'
      /\ \A q : Covered(q) => Covered(q)'
  BY <1>1, CollectorStepFacts DEF ProcInv
<1>7. \A q : Accounted(q) => Accounted(q)'
  BY <1>1, <1>5, <1>6 DEF Accounted
<1>8. CollectorInv'
  BY <1>1, <1>3, <1>4 DEF ProcInv, CollectorInv
<1>9. cur'.stage = "idle"
  BY <1>1, IdleIsTyped
<1>10. Root \in stable' => Accounted(Root)'
  BY <1>6, <1>7 DEF ProcInv, TiedInv
<1>11. \A c \in stable' \ {Root} : parent'[c].parent \in Found' => Accounted(c)'
  BY <1>5, <1>6, <1>7 DEF ProcInv, TiedInv
<1>12. \A q \in seen' \intersect stable' : q \in {cur'.pid} \union Found' \/ Covered(q)'
  BY <1>1, <1>5, <1>6 DEF ProcInv, TiedInv
<1>13. TiedInv'
  BY <1>1, <1>9, <1>10, <1>11, <1>12 DEF TiedInv, Idle0
<1> QED
  BY <1>6, <1>8, <1>13 DEF ProcInv

-----------------------------------------------------------------------------
(* The walk. *)

LEMMA ProcInvInit == ProcInit => ProcInv
<1> SUFFICES ASSUME ProcInit
             PROVE  ProcInv
  OBVIOUS
<1>1. PICK D : D = DOMAIN Threads
  OBVIOUS
<1>2. /\ D \subseteq Pids /\ Root \in D /\ D = {Root} \union DOMAIN Tree /\ DOMAIN Tree \subseteq Pids \ {Root}
      /\ live = D /\ stable = D
      /\ tids = [p \in Pids |-> IF p \in D THEN Threads[p] ELSE {}]
      /\ parent = [p \in Pids |-> IF p \in DOMAIN Tree THEN Tree[p] ELSE [parent |-> 0, by |-> 0]]
      /\ queue = <<Root>> /\ seen = {} /\ cur = Idle0 /\ collected = <<>> /\ walking
  BY <1>1, TreeAssumption DEF ProcInit
<1>3. Tree \in [DOMAIN Tree -> [parent : D, by : Nat]] /\ 0 \notin Pids
  BY <1>1, TreeAssumption
<1>4. tids \in [Pids -> SUBSET Nat] /\ \A p \in Pids : IsFiniteSet(tids[p])
  BY <1>1, <1>2, FS_EmptySet, TreeAssumption
<1>5. parent \in [Pids -> [parent : Pids \union {0}, by : Nat]]
  <2>1. \A c \in DOMAIN Tree : Tree[c] \in [parent : Pids \union {0}, by : Nat]
    BY <1>2, <1>3
  <2>2. [parent |-> 0, by |-> 0] \in [parent : Pids \union {0}, by : Nat]
    OBVIOUS
  <2> QED
    BY <1>2, <2>1, <2>2
<1>6. stable \subseteq Below(Root)
  <2> SUFFICES ASSUME NEW S \in SUBSET (Pids \union {0}), Root \in S, Closed(S)
               PROVE  D \subseteq S
    BY <1>2 DEF Below
  <2>1. \A c \in DOMAIN Tree : Tree[c].parent \in S => c \in S
    BY <1>2 DEF Closed
  <2>2. \A c \in DOMAIN Tree : Tree[c].parent \in D
    BY <1>3
  <2>3. PICK T : T = S \intersect D
    OBVIOUS
  <2>4. T \in SUBSET D /\ Root \in T /\ \A c \in DOMAIN Tree : Tree[c].parent \in T => c \in T
    BY <1>2, <2>1, <2>3
  <2>5. T = D
    BY <1>1, <2>4, TreeAssumption
  <2> QED
    BY <2>3, <2>5
<1>7. \A x \in stable \ {Root} : parent[x].parent \in stable /\ parent[x].by \in tids[parent[x].parent]
  <2> SUFFICES ASSUME NEW x \in DOMAIN Tree
               PROVE  parent[x].parent \in stable /\ parent[x].by \in tids[parent[x].parent]
    BY <1>2
  <2>1. parent[x] = Tree[x] /\ Tree[x].parent \in D
    BY <1>2, <1>3
  <2>2. Tree[x].by \in Threads[Tree[x].parent]
    BY TreeAssumption
  <2> QED
    BY <1>2, <2>1, <2>2
<1>8. KernelInv
  BY <1>2, <1>4, <1>5, <1>6, <1>7 DEF KernelInv
<1>9. CollectorInv
  BY <1>2, IdleIsTyped DEF CollectorInv
<1>10. Found = {} /\ cur.stage = "idle" /\ Root \in ToSet(queue)
  BY <1>2, IdleIsTyped DEF Found, ToSet
<1>11. TiedInv
  BY <1>2, <1>10 DEF TiedInv, Accounted
<1> QED
  BY <1>8, <1>9, <1>11 DEF ProcInv

LEMMA ProcInvNext == ProcInv /\ [ProcNext]_proc_vars => ProcInv'
<1> SUFFICES ASSUME ProcInv, [ProcNext]_proc_vars
             PROVE  ProcInv'
  OBVIOUS
<1>1. ASSUME NEW p \in Pids, Exits(p) PROVE ProcInv'
  BY <1>1, ExitsTied, KernelKeeps DEF ProcInv, Exits, KernelSteps
<1>2. ASSUME NEW p \in Pids, NEW t \in tids[p], ThreadExits(p, t) PROVE ProcInv'
  BY <1>2, ThreadExitsTied, KernelKeeps DEF ProcInv, ThreadExits, KernelSteps
<1>3. ASSUME NEW p \in Pids \union {0}, NEW c \in Pids, Forks(p, c) PROVE ProcInv'
  BY <1>3, ForksTied, KernelKeeps DEF ProcInv, Forks, KernelSteps
<1>4. CASE UNCHANGED proc_vars
  <2>1. UNCHANGED kernel_vars /\ UNCHANGED collector_vars
    BY <1>4 DEF proc_vars
  <2>2. diagnostics \subseteq diagnostics'
    BY <2>1 DEF collector_vars
  <2>3. stable' = stable /\ parent' = parent /\ tids' = tids /\ (\A d : Below(d)' = Below(d)) /\ KernelInv'
    BY <2>1, <2>2, CollectorStepFacts DEF ProcInv
  <2>4. StaysTied
    BY <2>3 DEF StaysTied
  <2> QED
    BY <2>1, <2>3, <2>4, KernelKeeps
<1> QED
  BY <1>1, <1>2, <1>3, <1>4, NextProcessKeeps, ReadStatusKeeps, NumericDirectoryKeeps,
     CollectThreadsKeeps, CollectChildrenKeeps, CollectFilesKeeps, EndsProcessKeeps, EndsWalkKeeps
     DEF ProcNext

\* Every process is found, or to be visited, or accounted for by a report, in every
\* reachable state.
LEMMA ProcInvariance == ProcSpec => []ProcInv
BY ProcInvInit, ProcInvNext, PTL DEF ProcSpec

\* The collector leaves nothing out in silence: at the end of its walk every process
\* whose chain of parents to the root held all the while is in the manifest, or a
\* diagnostic about that chain says why not, whatever forked, exited or handed its
\* children to another thread between two reads.
THEOREM ManifestIsCompleteOrSaid == ProcSpec => []CompleteOrSaid
<1>1. ProcInv => CompleteOrSaid
  <2> SUFFICES ASSUME ProcInv, ~walking, NEW p \in stable, p \notin Found
               PROVE  Covered(p)
    BY DEF CompleteOrSaid, Covered, Says
  <2>1. CASE \E d \in diagnostics : d.section = "process_tree"
    BY <2>1 DEF Covered, Says
  <2>2. CASE cur = Idle0 /\ queue = <<>>
    <3> DEFINE S == {x \in Pids \union {0} : x \in stable => x \in Found \/ Covered(x)}
    <3>1. stable \subseteq live /\ live \subseteq Pids /\ 0 \notin Pids /\ Root \in Pids
      BY TreeAssumption DEF ProcInv, KernelInv
    <3>2. \A q \in stable : Accounted(q) => q \in Found \/ Covered(q)
      BY <2>2, <3>1, IdleIsTyped DEF Accounted, ToSet
    <3>3. Root \in S
      BY <3>1, <3>2 DEF ProcInv, TiedInv
    <3>4. ASSUME NEW c \in live, parent[c].parent \in S PROVE c \in S
      <4> SUFFICES ASSUME c \in stable, c # Root
                   PROVE  c \in Found \/ Covered(c)
        BY <3>1, <3>3
      <4>1. PICK x : x = parent[c].parent
        OBVIOUS
      <4>2. x \in stable /\ (x \in Found \/ Covered(x))
        BY <3>4, <4>1 DEF ProcInv, KernelInv
      <4>3. CASE x \in Found
        BY <3>2, <4>1, <4>3 DEF ProcInv, TiedInv
      <4>4. CASE Covered(x)
        <5>1. PICK d \in diagnostics : Says(d, x)
          BY <4>4 DEF Covered
        <5>2. x \in Below(d.pid) => c \in Below(d.pid)
          BY <4>1, BelowIsClosed
        <5> QED
          BY <5>1, <5>2 DEF Covered, Says
      <4> QED
        BY <4>2, <4>3, <4>4
    <3>5. S \in SUBSET (Pids \union {0}) /\ Closed(S)
      BY <3>4 DEF Closed
    <3>6. p \in Below(Root)
      BY DEF ProcInv, KernelInv
    <3>7. p \in S
      BY <3>3, <3>5, <3>6 DEF Below
    <3> QED
      BY <3>7
  <2> QED
    BY <2>1, <2>2 DEF ProcInv, TiedInv
<1> QED
  BY <1>1, ProcInvariance, PTL

(***************************************************************************)
(* SemanticDiff: the diff of two application checkpoints.                  *)
(***************************************************************************)

-----------------------------------------------------------------------------
(* Escaping: no two identifiers have the same token, and no token a slash. *)

\* Where a part comes to stand: right behind the one before it.
LEMMA MovedStep ==
  ASSUME NEW s, IsSeq(s), NEW c, NEW i \in 1..Len(s)
  PROVE  /\ Moved(s, c, i) \in Nat /\ Moved(s, c, i) >= i
         /\ Moved(s, c, i + 1) = Moved(s, c, i) + (IF s[i] = c THEN 2 ELSE 1)
<1>1. Len(s) \in Nat /\ i \in Nat
  BY AppendAny
<1> DEFINE A == {j \in 1..(i - 1) : s[j] = c}
           B == {j \in 1..((i + 1) - 1) : s[j] = c}
<1>2. IsFiniteSet(A) /\ Cardinality(A) \in Nat
  <2>1. IsFiniteSet(1..(i - 1))
    BY <1>1, FS_Interval
  <2> QED
    BY <2>1, FS_Subset, FS_CardinalityType
<1>3. PICK m : m = Cardinality(A)
  OBVIOUS
<1>4. Cardinality(B) = m + (IF s[i] = c THEN 1 ELSE 0)
  <2>1. CASE s[i] = c
    <3>1. B = A \cup {i} /\ i \notin A
      BY <1>1, <2>1
    <3>2. Cardinality(A \cup {i}) = Cardinality(A) + 1
      BY <1>2, <3>1, FS_AddElement
    <3> QED
      BY <1>3, <2>1, <3>1, <3>2
  <2>2. CASE s[i] # c
    <3>1. B = A
      BY <1>1, <2>2
    <3>2. m \in Nat /\ Cardinality(B) = m
      BY <1>2, <1>3, <3>1
    <3> HIDE DEF B
    <3> QED
      BY <2>2, <3>2
  <2> QED
    BY <2>1, <2>2
<1>5. Moved(s, c, i) = i + m /\ Moved(s, c, i + 1) = i + 1 + Cardinality(B)
  BY <1>3 DEF Moved
<1> HIDE DEF A, B
<1> QED
  BY <1>1, <1>2, <1>3, <1>4, <1>5

LEMMA MovedStarts ==
  ASSUME NEW s, NEW c
  PROVE  Moved(s, c, 1) = 1
<1>1. {j \in 1..(1 - 1) : s[j] = c} = {}
  OBVIOUS
<1> QED
  BY <1>1, FS_EmptySet DEF Moved

\* Later parts stand further to the right.
LEMMA MovedRises ==
  ASSUME NEW s, IsSeq(s), NEW c, NEW i \in 1..(Len(s) + 1), NEW j \in 1..(Len(s) + 1), i <= j
  PROVE  /\ Moved(s, c, i) \in Nat /\ Moved(s, c, j) \in Nat
         /\ Moved(s, c, i) + (j - i) <= Moved(s, c, j)
<1>1. Len(s) \in Nat /\ i \in Nat /\ j \in Nat
  BY AppendAny
<1> DEFINE A == {k \in 1..(i - 1) : s[k] = c}
           B == {k \in 1..(j - 1) : s[k] = c}
<1>2. IsFiniteSet(B) /\ Cardinality(B) \in Nat
  <2>1. IsFiniteSet(1..(j - 1))
    BY <1>1, FS_Interval
  <2> QED
    BY <2>1, FS_Subset, FS_CardinalityType
<1>3. A \in SUBSET B
  BY <1>1
<1>4. Cardinality(A) \in Nat /\ Cardinality(A) <= Cardinality(B)
  <2> HIDE DEF A, B
  <2> QED
    BY <1>2, <1>3, FS_Subset, FS_CardinalityType
<1>5. Moved(s, c, i) = i + Cardinality(A) /\ Moved(s, c, j) = j + Cardinality(B)
  BY DEF Moved
<1> HIDE DEF A, B
<1> QED
  BY <1>1, <1>2, <1>4, <1>5

\* What comes to stand where part i begins, and behind it if the part is a c.
LEMMA ReplacedAt ==
  ASSUME NEW s, IsSeq(s), NEW c, NEW by, NEW i \in 1..Len(s), NEW t, t = Replace(s, c, by),
         NEW p, p = Moved(s, c, i)
  PROVE  /\ p \in DOMAIN t /\ t[p] = IF s[i] = c THEN by[1] ELSE s[i]
         /\ s[i] = c => p + 1 \in DOMAIN t /\ t[p + 1] = by[2]
<1>1. PICK n : n = Len(s)
  OBVIOUS
<1>2. n \in Nat /\ i \in Nat /\ i <= n /\ DOMAIN s = 1..n /\ i + 1 \in 1..(n + 1)
  BY <1>1, AppendAny
<1>3. PICK last : last = Moved(s, c, n + 1)
  OBVIOUS
<1>4. /\ p \in Nat /\ p >= i /\ Moved(s, c, i + 1) = p + (IF s[i] = c THEN 2 ELSE 1)
  BY <1>1, MovedStep
<1>5. last \in Nat /\ Moved(s, c, i + 1) <= last
  <2>1. n + 1 \in 1..(n + 1) /\ i + 1 <= n + 1 /\ (n + 1) - (i + 1) >= 0
    BY <1>2
  <2> QED
    BY <1>1, <1>2, <1>3, <1>4, <2>1, MovedRises
<1>6. /\ DOMAIN t = 1..(last - 1)
      /\ \A k \in 1..(last - 1) :
            t[k] = LET m == Max({j \in 1..n : Moved(s, c, j) <= k})
                   IN  IF s[m] = c THEN by[k + 1 - Moved(s, c, m)] ELSE s[m]
  BY <1>1, <1>2, <1>3 DEF Replace
<1>7. ASSUME NEW k \in Nat, p <= k, k < Moved(s, c, i + 1)
      PROVE  Max({j \in 1..n : Moved(s, c, j) <= k}) = i
  <2> DEFINE S == {j \in 1..n : Moved(s, c, j) <= k}
  <2>1. i \in S
    BY <1>2, <1>7
  <2>2. ASSUME NEW j \in S PROVE i >= j
    <3>1. CASE j > i
      <4>1. PICK l : l = i + 1
        OBVIOUS
      <4>2. l \in 1..(n + 1) /\ l <= j /\ j \in 1..(n + 1) /\ j - l \in Nat /\ Moved(s, c, j) <= k
        BY <1>2, <2>2, <3>1, <4>1
      <4>3. /\ Moved(s, c, l) \in Nat /\ Moved(s, c, j) \in Nat
            /\ Moved(s, c, l) + (j - l) <= Moved(s, c, j)
        BY <1>1, <4>2, MovedRises
      <4>4. k < Moved(s, c, l)
        BY <1>7, <4>1
      <4> QED
        BY <1>7, <4>2, <4>3, <4>4
    <3> QED
      BY <1>2, <2>2, <3>1
  <2>3. S \subseteq Nat
    BY <1>2
  <2> HIDE DEF S
  <2>4. Max(S) \in S /\ \A y \in S : Max(S) >= y
    BY <2>1, <2>2 DEF Max
  <2>5. PICK m : m = Max(S)
    OBVIOUS
  <2>6. m \in S /\ m >= i /\ i >= m /\ m \in Nat
    BY <2>1, <2>2, <2>3, <2>4, <2>5
  <2>7. Max(S) = i
    BY <1>2, <2>5, <2>6
  <2> QED
    BY <2>7 DEF S
<1>8. p \in DOMAIN t /\ t[p] = IF s[i] = c THEN by[1] ELSE s[i]
  <2>1. p < Moved(s, c, i + 1) /\ p \in 1..(last - 1) /\ p + 1 - p = 1
    BY <1>2, <1>4, <1>5
  <2>2. p \in Nat /\ p <= p
    BY <1>4
  <2>3. Max({j \in 1..n : Moved(s, c, j) <= p}) = i
    BY <1>7, <2>1, <2>2
  <2> QED
    BY <1>6, <2>1, <2>3
<1>9. ASSUME s[i] = c
      PROVE  p + 1 \in DOMAIN t /\ t[p + 1] = by[2]
  <2>1. PICK k : k = p + 1
    OBVIOUS
  <2>2. k \in Nat /\ p <= k /\ k < Moved(s, c, i + 1) /\ k \in 1..(last - 1) /\ k + 1 - p = 2
    BY <1>2, <1>4, <1>5, <1>9, <2>1
  <2>3. Max({j \in 1..n : Moved(s, c, j) <= k}) = i
    BY <1>7, <2>2
  <2> QED
    BY <1>6, <1>9, <2>1, <2>2, <2>3
<1> QED
  BY <1>8, <1>9

\* Everything that comes to stand somewhere is from some part.
LEMMA ReplacedFrom ==
  ASSUME NEW s, IsSeq(s), NEW c, NEW by, NEW t, t = Replace(s, c, by), NEW k \in DOMAIN t
  PROVE  \E i \in 1..Len(s) : \/ k = Moved(s, c, i)
                              \/ s[i] = c /\ k = Moved(s, c, i) + 1
<1>1. PICK n : n = Len(s)
  OBVIOUS
<1>2. n \in Nat
  BY <1>1, AppendAny
<1>3. PICK last : last = Moved(s, c, n + 1)
  OBVIOUS
<1>4. last \in Nat /\ (n = 0 => last = 1)
  <2>1. n + 1 \in 1..(n + 1)
    BY <1>2
  <2> QED
    BY <1>1, <1>3, <2>1, MovedRises, MovedStarts
<1>5. k \in Nat /\ 1 <= k /\ k < last
  BY <1>1, <1>3, <1>4 DEF Replace
<1> DEFINE S == {j \in 1..n : Moved(s, c, j) <= k}
<1>6. 1 \in S /\ IsFiniteSet(S) /\ S \subseteq Nat
  <2>1. n >= 1
    BY <1>2, <1>4, <1>5
  <2>2. IsFiniteSet(1..n)
    BY <1>2, FS_Interval
  <2> QED
    BY <1>2, <1>5, <2>1, <2>2, MovedStarts, FS_Subset
<1>7. PICK i \in S : \A j \in S : j <= i
  <2> DEFINE f == [j \in S |-> j]
  <2>1. f \in [S -> Nat]
    BY <1>6
  <2> HIDE DEF S
  <2>2. \E i \in S : \A j \in S : f[j] <= f[i]
    BY <1>6, <2>1, GreatestExists
  <2> QED
    BY <2>2
<1>8. i \in 1..n /\ Moved(s, c, i) <= k
  BY <1>7
<1>9. k < Moved(s, c, i + 1)
  <2>1. CASE i = n
    BY <1>3, <1>5, <2>1
  <2>2. CASE i # n
    <3>1. i + 1 \in 1..n /\ ~(i + 1 <= i)
      BY <1>2, <1>8, <2>2
    <3>2. ~(Moved(s, c, i + 1) <= k)
      BY <1>7, <3>1
    <3>3. Moved(s, c, i + 1) \in Nat
      BY <1>1, <3>1, MovedStep
    <3> QED
      BY <1>5, <3>2, <3>3
  <2> QED
    BY <2>1, <2>2
<1>10. Moved(s, c, i) \in Nat /\ Moved(s, c, i + 1) = Moved(s, c, i) + (IF s[i] = c THEN 2 ELSE 1)
  BY <1>1, <1>8, MovedStep
<1>11. PICK p : p = Moved(s, c, i)
  OBVIOUS
<1>12. k = p \/ (s[i] = c /\ k = p + 1)
  BY <1>5, <1>8, <1>9, <1>10, <1>11
<1> QED
  BY <1>1, <1>8, <1>11, <1>12

\* The result is a sequence, and how long.
LEMMA ReplaceIsSeq ==
  ASSUME NEW s, IsSeq(s), NEW c, NEW by
  PROVE  /\ IsSeq(Replace(s, c, by))
         /\ Len(Replace(s, c, by)) = Moved(s, c, Len(s) + 1) - 1
<1>1. PICK t, n : t = Replace(s, c, by) /\ n = Moved(s, c, Len(s) + 1) - 1
  OBVIOUS
<1>2. n \in Nat
  <2>1. Len(s) \in Nat
    BY AppendAny
  <2>2. PICK m : m = Len(s) + 1
    OBVIOUS
  <2>3. 1 \in 1..(Len(s) + 1) /\ m \in 1..(Len(s) + 1) /\ 1 <= m /\ m - 1 \in Nat
    BY <2>1, <2>2
  <2>4. Moved(s, c, m) \in Nat /\ Moved(s, c, 1) + (m - 1) <= Moved(s, c, m)
    BY <2>3, MovedRises
  <2> QED
    BY <1>1, <2>2, <2>3, <2>4, MovedStarts
<1>3. t = [k \in 1..n |-> t[k]]
  BY <1>1 DEF Replace
<1> DEFINE S == {t[k] : k \in 1..n}
<1>4. t \in [1..n -> S]
  BY <1>3
<1>5. t \in Seq(S) /\ Len(t) = n
  <2> HIDE DEF S
  <2> QED
    BY <1>2, <1>4
<1> QED
  BY <1>1, <1>5 DEF IsSeq

\* Sequences are equal part by part.
LEMMA SameSeq ==
  ASSUME NEW s, IsSeq(s), NEW t, IsSeq(t), Len(s) = Len(t), \A i \in 1..Len(s) : s[i] = t[i]
  PROVE  s = t
<1>1. PICK S, T : s \in Seq(S) /\ t \in Seq(T)
  BY DEF IsSeq
<1>2. PICK n : n = Len(s)
  OBVIOUS
<1>3. n \in Nat /\ s \in [1..n -> S] /\ t \in [1..n -> T]
  BY <1>1, <1>2
<1> QED
  BY <1>2, <1>3

\* Where two sequences part first.
LEMMA FirstDifference ==
  ASSUME NEW s, IsSeq(s), NEW t, IsSeq(t), s # t
  PROVE  \E i \in Nat \ {0} :
            /\ \A j \in 1..(i - 1) : s[j] = t[j]
            /\ \/ i \in 1..Len(s) /\ i \in 1..Len(t) /\ s[i] # t[i]
               \/ i = Len(s) + 1 /\ i \in 1..Len(t)
               \/ i = Len(t) + 1 /\ i \in 1..Len(s)
<1>1. PICK m, n : m = Len(s) /\ n = Len(t)
  OBVIOUS
<1>2. m \in Nat /\ n \in Nat
  BY <1>1, AppendAny
<1> DEFINE D == {i \in Nat \ {0} : \/ i \in 1..m /\ i \in 1..n /\ s[i] # t[i]
                                   \/ i = m + 1 /\ i \in 1..n
                                   \/ i = n + 1 /\ i \in 1..m}
<1>3. D # {}
  <2>1. CASE m < n
    <3>1. m + 1 \in D
      BY <1>2, <2>1
    <3> QED
      BY <3>1
  <2>2. CASE n < m
    <3>1. n + 1 \in D
      BY <1>2, <2>2
    <3> QED
      BY <3>1
  <2>3. CASE m = n
    <3>1. PICK i \in 1..m : s[i] # t[i]
      BY <1>1, <2>3, SameSeq
    <3>2. i \in D
      BY <1>2, <2>3, <3>1
    <3> QED
      BY <3>2
  <2> QED
    BY <1>2, <2>1, <2>2, <2>3
<1>4. PICK i : i = Min(D)
  OBVIOUS
<1>5. i \in D /\ \A j \in D : i <= j
  <2>1. D \in SUBSET Nat
    OBVIOUS
  <2> HIDE DEF D
  <2> QED
    BY <1>3, <1>4, <2>1, SmallestExists
<1>6. ASSUME NEW j \in 1..(i - 1) PROVE s[j] = t[j]
  <2>1. i \in Nat /\ j \in Nat /\ j # 0 /\ j < i /\ i <= m + 1 /\ i <= n + 1
    BY <1>2, <1>5
  <2>2. j \notin D
    <3> HIDE DEF D
    <3> QED
      BY <1>5, <2>1
  <2>3. j \in 1..m /\ j \in 1..n
    BY <1>2, <2>1
  <2> QED
    BY <2>1, <2>2, <2>3
<1>7. /\ i \in Nat \ {0}
      /\ \/ i \in 1..m /\ i \in 1..n /\ s[i] # t[i]
         \/ i = m + 1 /\ i \in 1..n
         \/ i = n + 1 /\ i \in 1..m
  BY <1>5
<1> QED
  BY <1>1, <1>6, <1>7

\* Replacing can be undone if no other part may be taken for a replaced one: one
\* that looks as by begins is followed by something by does not go on with.
LEMMA ReplaceUndone ==
  ASSUME NEW c, NEW by, NEW s, IsSeq(s), NEW t, IsSeq(t),
         \A r \in {s, t} : \A i \in 1..Len(r) :
            r[i] # c /\ r[i] = by[1] => i + 1 \in 1..Len(r) /\ r[i + 1] # c /\ r[i + 1] # by[2],
         Replace(s, c, by) = Replace(t, c, by)
  PROVE  s = t
<1>1. SUFFICES ASSUME s # t PROVE FALSE
  OBVIOUS
<1>2. PICK i \in Nat \ {0} :
            /\ \A j \in 1..(i - 1) : s[j] = t[j]
            /\ \/ i \in 1..Len(s) /\ i \in 1..Len(t) /\ s[i] # t[i]
               \/ i = Len(s) + 1 /\ i \in 1..Len(t)
               \/ i = Len(t) + 1 /\ i \in 1..Len(s)
  BY <1>1, FirstDifference
<1>3. PICK u : u = Replace(s, c, by)
  OBVIOUS
<1>4. PICK p : p = Moved(s, c, i)
  OBVIOUS
<1>5. Moved(t, c, i) = p
  <2>1. {j \in 1..(i - 1) : s[j] = c} = {j \in 1..(i - 1) : t[j] = c}
    BY <1>2
  <2> QED
    BY <1>4, <2>1 DEF Moved
<1>6. ASSUME NEW x, NEW y, IsSeq(x), IsSeq(y), Replace(x, c, by) = u, Replace(y, c, by) = u,
             Moved(x, c, i) = p, Moved(y, c, i) = p, i = Len(x) + 1, i \in 1..Len(y)
      PROVE  FALSE
  <2>1. IsSeq(u) /\ Len(u) = p - 1
    BY <1>6, ReplaceIsSeq
  <2>2. p \in DOMAIN u
    BY <1>6, ReplacedAt
  <2>3. DOMAIN u = 1..Len(u)
    BY <2>1, AppendAny
  <2>4. p \in Nat
    BY <1>6, MovedStep
  <2>5. p <= p - 1
    BY <2>1, <2>2, <2>3, <2>4
  <2> QED
    BY <2>4, <2>5
<1>7. ASSUME NEW x \in {s, t}, NEW y \in {s, t}, IsSeq(x), IsSeq(y),
             Replace(x, c, by) = u, Replace(y, c, by) = u,
             Moved(x, c, i) = p, Moved(y, c, i) = p, i \in 1..Len(x), i \in 1..Len(y),
             x[i] # c, y[i] = c
      PROVE  FALSE
  <2>1. u[p] = x[i]
    BY <1>7, ReplacedAt
  <2>2. u[p] = by[1] /\ u[p + 1] = by[2]
    BY <1>7, ReplacedAt
  <2>3. i + 1 \in 1..Len(x) /\ x[i + 1] # c /\ x[i + 1] # by[2]
    BY <1>7, <2>1, <2>2
  <2>4. Moved(x, c, i + 1) = p + 1
    BY <1>7, MovedStep
  <2>5. u[p + 1] = x[i + 1]
    BY <1>7, <2>3, <2>4, ReplacedAt
  <2> QED
    BY <2>2, <2>3, <2>5
<1>8. CASE i \in 1..Len(s) /\ i \in 1..Len(t) /\ s[i] # t[i]
  <2>1. CASE s[i] = c
    BY <1>3, <1>4, <1>5, <1>7, <1>8, <2>1
  <2>2. CASE t[i] = c
    BY <1>3, <1>4, <1>5, <1>7, <1>8, <2>2
  <2>3. CASE s[i] # c /\ t[i] # c
    <3>1. u[p] = s[i]
      BY <1>3, <1>4, <1>8, <2>3, ReplacedAt
    <3>2. u[p] = t[i]
      BY <1>3, <1>5, <1>8, <2>3, ReplacedAt
    <3> QED
      BY <1>8, <3>1, <3>2
  <2> QED
    BY <2>1, <2>2, <2>3
<1>9. CASE i = Len(s) + 1 /\ i \in 1..Len(t)
  BY <1>3, <1>4, <1>5, <1>6, <1>9
<1>10. CASE i = Len(t) + 1 /\ i \in 1..Len(s)
  BY <1>3, <1>4, <1>5, <1>6, <1>10
<1> QED
  BY <1>2, <1>8, <1>9, <1>10

\* The token with its tildes escaped has a "0" behind each.
LEMMA TildeZero ==
  ASSUME NEW s, IsSeq(s), NEW t, t = Replace(s, "~", <<"~", "0">>)
  PROVE  /\ IsSeq(t)
         /\ \A k \in 1..Len(t) : t[k] = "~" => k + 1 \in 1..Len(t) /\ t[k + 1] = "0"
<1>1. IsSeq(t)
  BY ReplaceIsSeq
<1>2. DOMAIN t = 1..Len(t)
  BY <1>1, AppendAny
<1>3. PICK by : by = <<"~", "0">>
  OBVIOUS
<1>4. by[1] = "~" /\ by[2] = "0"
  BY <1>3
<1>5. ASSUME NEW k \in DOMAIN t, t[k] = "~"
      PROVE  k + 1 \in DOMAIN t /\ t[k + 1] = "0"
  <2>1. PICK i \in 1..Len(s) : \/ k = Moved(s, "~", i)
                               \/ s[i] = "~" /\ k = Moved(s, "~", i) + 1
    BY <1>3, ReplacedFrom
  <2>2. PICK p : p = Moved(s, "~", i)
    OBVIOUS
  <2>3. /\ t[p] = IF s[i] = "~" THEN "~" ELSE s[i]
        /\ s[i] = "~" => p + 1 \in DOMAIN t /\ t[p + 1] = "0"
    BY <1>3, <1>4, <2>2, ReplacedAt
  <2>4. CASE k = p
    BY <1>5, <2>3, <2>4
  <2>5. CASE s[i] = "~" /\ k = p + 1
    BY <1>5, <2>3, <2>5
  <2> QED
    BY <2>1, <2>2, <2>4, <2>5
<1> QED
  BY <1>1, <1>2, <1>5

\* A token has no slash, and no two identifiers have the same.
LEMMA TokenHasNoSlash ==
  ASSUME NEW id \in DOMAIN Spelling, NEW t, t = json_pointer_token(id)
  PROVE  IsSeq(t) /\ \A k \in 1..Len(t) : t[k] # "/"
<1>1. IsSeq(Spelling[id])
  BY SpellingAssumption DEF IsSeq
<1>2. PICK s : s = Replace(Spelling[id], "~", <<"~", "0">>)
  OBVIOUS
<1>3. IsSeq(s)
  BY <1>1, <1>2, ReplaceIsSeq
<1>4. PICK by : by = <<"~", "1">>
  OBVIOUS
<1>5. by[1] = "~" /\ by[2] = "1"
  BY <1>4
<1>6. t = Replace(s, "/", by)
  BY <1>2, <1>4 DEF json_pointer_token
<1>7. IsSeq(t)
  BY <1>3, <1>6, ReplaceIsSeq
<1>8. DOMAIN t = 1..Len(t)
  BY <1>7, AppendAny
<1>9. ASSUME NEW k \in DOMAIN t PROVE t[k] # "/"
  <2>1. PICK i \in 1..Len(s) : \/ k = Moved(s, "/", i)
                               \/ s[i] = "/" /\ k = Moved(s, "/", i) + 1
    BY <1>3, <1>6, ReplacedFrom
  <2>2. PICK p : p = Moved(s, "/", i)
    OBVIOUS
  <2>3. /\ t[p] = IF s[i] = "/" THEN "~" ELSE s[i]
        /\ s[i] = "/" => t[p + 1] = "1"
    BY <1>3, <1>5, <1>6, <2>2, ReplacedAt
  <2> QED
    BY <2>1, <2>2, <2>3
<1> QED
  BY <1>7, <1>8, <1>9

LEMMA TokensDiffer ==
  ASSUME NEW id \in DOMAIN Spelling, NEW other \in DOMAIN Spelling,
         json_pointer_token(id) = json_pointer_token(other)
  PROVE  id = other
<1>1. IsSeq(Spelling[id]) /\ IsSeq(Spelling[other])
  BY SpellingAssumption DEF IsSeq
<1>2. PICK zero, one : zero = <<"~", "0">> /\ one = <<"~", "1">>
  OBVIOUS
<1>3. zero[1] = "~" /\ zero[2] = "0" /\ one[1] = "~" /\ one[2] = "1"
  BY <1>2
<1>4. PICK s, t : s = Replace(Spelling[id], "~", zero) /\ t = Replace(Spelling[other], "~", zero)
  OBVIOUS
<1>5. /\ IsSeq(s) /\ \A k \in 1..Len(s) : s[k] = "~" => k + 1 \in 1..Len(s) /\ s[k + 1] = "0"
      /\ IsSeq(t) /\ \A k \in 1..Len(t) : t[k] = "~" => k + 1 \in 1..Len(t) /\ t[k + 1] = "0"
  BY <1>1, <1>2, <1>4, TildeZero
<1>6. Replace(s, "/", one) = Replace(t, "/", one)
  BY <1>2, <1>4 DEF json_pointer_token
<1>7. s = t
  <2>1. \A r \in {s, t} : \A i \in 1..Len(r) :
            r[i] # "/" /\ r[i] = one[1]
              => i + 1 \in 1..Len(r) /\ r[i + 1] # "/" /\ r[i + 1] # one[2]
    BY <1>3, <1>5
  <2> QED
    BY <1>5, <1>6, <2>1, ReplaceUndone
<1>8. Spelling[id] = Spelling[other]
  <2>1. \A r \in {Spelling[id], Spelling[other]} : \A i \in 1..Len(r) :
            r[i] # "~" /\ r[i] = zero[1]
              => i + 1 \in 1..Len(r) /\ r[i + 1] # "~" /\ r[i + 1] # zero[2]
    BY <1>3
  <2> QED
    BY <1>1, <1>4, <1>7, <2>1, ReplaceUndone
<1> QED
  BY <1>8, SpellingAssumption DEF IsInjective

-----------------------------------------------------------------------------
(* Paths: entities, their fields, the order of a list and the scalars are   *)
(* never at the same one, but that an entity may be called "order".         *)

\* The path of an entity: its root, a slash, and a token without one.
LEMMA EntityAt ==
  ASSUME NEW id \in DOMAIN Spelling, NEW root, NEW t, t = json_pointer_token(id),
         NEW e, e = entity_path(root, id)
  PROVE  /\ IsSeq(t) /\ IsSeq(e) /\ Len(t) \in Nat /\ Len(e) = 2 + Len(t) /\ e[1] = root
         /\ \A i \in 1..Len(t) : e[2 + i] = t[i] /\ t[i] # "/"
<1>1. PICK h : h = <<root, "/">>
  OBVIOUS
<1>2. IsSeq(h)
  <2>1. h \in Seq({root, "/"})
    BY <1>1
  <2> QED
    BY <2>1 DEF IsSeq
<1>3. h[1] = root /\ Len(h) = 2
  BY <1>1
<1>4. IsSeq(t) /\ \A k \in 1..Len(t) : t[k] # "/"
  BY TokenHasNoSlash
<1>5. PICK two, n : two = Len(h) /\ n = Len(t)
  OBVIOUS
<1>6. e = h \o t
  BY <1>1 DEF entity_path
<1>7. /\ IsSeq(e) /\ n \in Nat /\ Len(e) = two + n
      /\ (\A i \in 1..two : e[i] = h[i]) /\ \A i \in 1..n : e[two + i] = t[i]
  BY <1>2, <1>4, <1>5, <1>6, ConcatAny
<1>8. two = 2
  BY <1>3, <1>5
<1>9. e[1] = root
  <2>1. 1 \in 1..two /\ h[1] = root
    BY <1>3, <1>8
  <2> QED
    BY <1>7, <2>1
<1> QED
  BY <1>4, <1>5, <1>7, <1>8, <1>9

\* What is put behind it for a field.
LEMMA TwoParts ==
  ASSUME NEW x, NEW y, NEW h, h = <<x, y>>
  PROVE  IsSeq(h) /\ Len(h) = 2 /\ h[1] = x /\ h[2] = y
<1>1. h \in Seq({x, y})
  OBVIOUS
<1>2. IsSeq(h)
  BY <1>1 DEF IsSeq
<1> QED
  BY <1>2

\* The path of a field: that of its entity goes on.
LEMMA FieldAt ==
  ASSUME NEW id \in DOMAIN Spelling, NEW root, NEW e, e = entity_path(root, id),
         NEW h, IsSeq(h), NEW two, two = Len(h), NEW p, p = e \o h, NEW n, n = Len(e)
  PROVE  /\ IsSeq(e) /\ n \in Nat /\ n >= 2 /\ e[1] = root
         /\ IsSeq(p) /\ Len(p) = n + two
         /\ (\A i \in 1..n : p[i] = e[i]) /\ \A i \in 1..two : p[n + i] = h[i]
<1>1. PICK t, m : t = json_pointer_token(id) /\ m = Len(t)
  OBVIOUS
<1>2. IsSeq(e) /\ m \in Nat /\ n = 2 + m /\ e[1] = root
  BY <1>1, EntityAt
<1>3. IsSeq(e)
  BY <1>2
<1>4. /\ IsSeq(p) /\ Len(p) = n + two
      /\ (\A i \in 1..n : p[i] = e[i]) /\ \A i \in 1..two : p[n + i] = h[i]
  BY <1>3, ConcatAny
<1> QED
  BY <1>2, <1>4

\* No two entities of a section share a path.
LEMMA EntitiesApart ==
  ASSUME NEW id \in DOMAIN Spelling, NEW other \in DOMAIN Spelling, NEW root,
         entity_path(root, id) = entity_path(root, other)
  PROVE  id = other
<1>1. PICK s, t, e : /\ s = json_pointer_token(id) /\ t = json_pointer_token(other)
                     /\ e = entity_path(root, id)
  OBVIOUS
<1>2. /\ IsSeq(s) /\ Len(s) \in Nat /\ Len(e) = 2 + Len(s)
      /\ \A i \in 1..Len(s) : e[2 + i] = s[i]
  BY <1>1, EntityAt
<1>3. /\ IsSeq(t) /\ Len(t) \in Nat /\ Len(e) = 2 + Len(t)
      /\ \A i \in 1..Len(t) : e[2 + i] = t[i]
  BY <1>1, EntityAt
<1>4. Len(s) = Len(t)
  BY <1>2, <1>3
<1>5. s = t
  BY <1>2, <1>3, <1>4, SameSeq
<1> QED
  BY <1>1, <1>5, TokensDiffer

\* Nor do two fields.
LEMMA FieldsApart ==
  ASSUME NEW id \in DOMAIN Spelling, NEW other \in DOMAIN Spelling, NEW root, NEW f, NEW g
  PROVE  entity_path(root, id) \o <<"/", f>> = entity_path(root, other) \o <<"/", g>>
            => id = other /\ f = g
<1>0. SUFFICES ASSUME entity_path(root, id) \o <<"/", f>> = entity_path(root, other) \o <<"/", g>>
               PROVE  id = other /\ f = g
  OBVIOUS
<1>1. PICK d, e, h, k, p, m, n, two :
            /\ d = entity_path(root, id) /\ h = <<"/", f>> /\ p = d \o h /\ m = Len(d)
            /\ e = entity_path(root, other) /\ k = <<"/", g>> /\ p = e \o k /\ n = Len(e)
            /\ two = 2
  BY <1>0
<1>2. d = entity_path(root, id) /\ IsSeq(h) /\ two = Len(h) /\ p = d \o h /\ m = Len(d)
  BY <1>1, TwoParts
<1>3. e = entity_path(root, other) /\ IsSeq(k) /\ two = Len(k) /\ p = e \o k /\ n = Len(e)
  BY <1>1, TwoParts
<1>4. /\ IsSeq(d) /\ m \in Nat /\ Len(p) = m + two
      /\ (\A i \in 1..m : p[i] = d[i]) /\ \A i \in 1..two : p[m + i] = h[i]
  <2>1. m \in Nat
    BY <1>2, FieldAt
  <2>2. Len(p) = m + two
    BY <1>2, FieldAt
  <2>3. \A i \in 1..m : p[i] = d[i]
    BY <1>2, FieldAt
  <2>4. IsSeq(d)
    <3>1. PICK t : t = json_pointer_token(id) /\ d = entity_path(root, id)
      BY <1>2
    <3> QED
      BY <3>1, EntityAt
  <2>5. \A i \in 1..two : p[m + i] = h[i]
    BY <1>2, FieldAt
  <2> QED
    BY <2>1, <2>2, <2>3, <2>4, <2>5
<1>5. /\ IsSeq(e) /\ n \in Nat /\ Len(p) = n + two
      /\ (\A i \in 1..n : p[i] = e[i]) /\ \A i \in 1..two : p[n + i] = k[i]
  <2>1. n \in Nat
    BY <1>3, FieldAt
  <2>2. Len(p) = n + two
    BY <1>3, FieldAt
  <2>3. \A i \in 1..n : p[i] = e[i]
    BY <1>3, FieldAt
  <2>4. IsSeq(e)
    <3>1. PICK t : t = json_pointer_token(other) /\ e = entity_path(root, other)
      BY <1>3
    <3> QED
      BY <3>1, EntityAt
  <2>5. \A i \in 1..two : p[n + i] = k[i]
    BY <1>3, FieldAt
  <2> QED
    BY <2>1, <2>2, <2>3, <2>4, <2>5
<1>6. two = 2 /\ 2 \in 1..two
  BY <1>1
<1>7. m = n /\ m = Len(d) /\ n = Len(e)
  BY <1>1, <1>4, <1>5, <1>6
<1>8. d = e
  BY <1>4, <1>5, <1>7, SameSeq
<1>9. h[2] = k[2]
  BY <1>4, <1>5, <1>6, <1>7
<1>10. h[2] = f /\ k[2] = g
  BY <1>1, TwoParts
<1> QED
  BY <1>2, <1>3, <1>8, <1>9, <1>10, EntitiesApart

\* A field path has a slash where the token of an entity has none.
LEMMA EntityIsNoField ==
  ASSUME NEW id \in DOMAIN Spelling, NEW other \in DOMAIN Spelling, NEW root, NEW f
  PROVE  entity_path(root, id) # entity_path(root, other) \o <<"/", f>>
<1>1. PICK s, d, e, h, p, m, n, two :
            /\ s = json_pointer_token(id) /\ d = entity_path(root, id) /\ n = Len(s)
            /\ e = entity_path(root, other) /\ h = <<"/", f>> /\ p = e \o h /\ m = Len(e)
            /\ two = 2
  OBVIOUS
<1>2. e = entity_path(root, other) /\ IsSeq(h) /\ two = Len(h) /\ p = e \o h /\ m = Len(e)
  BY <1>1, TwoParts
<1>3. m \in Nat /\ m >= 2 /\ Len(p) = m + two /\ \A i \in 1..two : p[m + i] = h[i]
  BY <1>2, FieldAt
<1>4. n \in Nat /\ Len(d) = 2 + n /\ \A i \in 1..n : d[2 + i] = s[i] /\ s[i] # "/"
  BY <1>1, EntityAt
<1>5. SUFFICES ASSUME d = p PROVE FALSE
  BY <1>1
<1>6. PICK k : k = m - 1
  OBVIOUS
<1>7. two = 2 /\ 1 \in 1..two
  BY <1>1
<1>8. k \in 1..n /\ 2 + k = m + 1
  BY <1>3, <1>4, <1>5, <1>6, <1>7
<1>9. d[2 + k] # "/"
  BY <1>4, <1>8
<1>10. p[m + 1] = h[1]
  BY <1>3, <1>7
<1>11. h[1] = "/"
  BY <1>1, TwoParts
<1> QED
  BY <1>5, <1>8, <1>9, <1>10, <1>11

\* The path of the order is shorter than that of any field.
LEMMA OrderIsNoField ==
  ASSUME NEW id \in DOMAIN Spelling, NEW root, NEW f
  PROVE  <<root, "/", "order">> # entity_path(root, id) \o <<"/", f>>
<1>1. PICK e, h, p, m, two : /\ e = entity_path(root, id) /\ h = <<"/", f>> /\ p = e \o h
                             /\ m = Len(e) /\ two = 2
  OBVIOUS
<1>2. e = entity_path(root, id) /\ IsSeq(h) /\ two = Len(h) /\ p = e \o h /\ m = Len(e)
  BY <1>1, TwoParts
<1>3. m \in Nat /\ m >= 2 /\ Len(p) = m + two
  BY <1>2, FieldAt
<1>4. Len(<<root, "/", "order">>) = 3
  OBVIOUS
<1>5. p = entity_path(root, id) \o <<"/", f>> /\ two = 2
  BY <1>1
<1>6. Len(p) # 3
  BY <1>3, <1>5
<1> QED
  BY <1>4, <1>5, <1>6

-----------------------------------------------------------------------------
(* What one section contributes at a path.                                  *)

AtPath(changes, path) == {c \in changes : c.path = path}
Once(changes) == \A c, d \in changes : c.path = d.path => c = d

\* A path of one part, and one that goes on below a root.
Alone(path) == Len(path) = 1
Within(path, root) == Len(path) >= 2 /\ path[1] = root
Beneath(changes, root) == \A c \in changes : Within(c.path, root)

\* A path is below one root at most, and none if it has one part.
LEMMA BelowApart ==
  ASSUME NEW p, NEW r
  PROVE  /\ Within(p, r) => ~Alone(p)
         /\ \A s : Within(p, r) /\ Within(p, s) => r = s
<1>1. PICK n : n = Len(p)
  OBVIOUS
<1>2. n >= 2 => n # 1
  OBVIOUS
<1> QED
  BY <1>1, <1>2 DEF Alone, Within

\* All the paths of a section begin with its root and have more than that one part.
LEMMA PathsUnder ==
  ASSUME NEW root, NEW p
  PROVE  \/ p = <<root, "/", "order">>
         \/ \E id \in DOMAIN Spelling : p = entity_path(root, id)
         \/ \E id \in DOMAIN Spelling : \E f : p = entity_path(root, id) \o <<"/", f>>
         => Within(p, root)
<1>1. ASSUME p = <<root, "/", "order">> PROVE Len(p) >= 2 /\ p[1] = root
  BY <1>1
<1>2. ASSUME NEW id \in DOMAIN Spelling, p = entity_path(root, id) PROVE Len(p) >= 2 /\ p[1] = root
  <2>1. PICK t : t = json_pointer_token(id)
    OBVIOUS
  <2>2. Len(t) \in Nat /\ Len(p) = 2 + Len(t) /\ p[1] = root
    BY <1>2, <2>1, EntityAt
  <2> QED
    BY <2>2
<1>3. ASSUME NEW id \in DOMAIN Spelling, NEW f, p = entity_path(root, id) \o <<"/", f>>
      PROVE  Len(p) >= 2 /\ p[1] = root
  <2>1. PICK e, h, m, two : /\ e = entity_path(root, id) /\ h = <<"/", f>> /\ p = e \o h
                            /\ m = Len(e) /\ two = 2
    BY <1>3
  <2>2. e = entity_path(root, id) /\ IsSeq(h) /\ two = Len(h) /\ p = e \o h /\ m = Len(e)
    BY <2>1, TwoParts
  <2>3. m \in Nat /\ m >= 2 /\ Len(p) = m + two
    BY <2>2, FieldAt
  <2>4. e[1] = root
    <3>1. PICK t : t = json_pointer_token(id) /\ e = entity_path(root, id)
      BY <2>1
    <3> QED
      BY <3>1, EntityAt
  <2>5. \A i \in 1..m : p[i] = e[i]
    BY <2>2, FieldAt
  <2>6. two = 2 /\ 1 \in 1..m
    BY <2>1, <2>3
  <2>7. p[1] = root
    BY <2>4, <2>5, <2>6
  <2> QED
    BY <2>3, <2>6, <2>7
<1> QED
  BY <1>1, <1>2, <1>3 DEF Within

\* What a change, an addition and a removal say.
LEMMA ChangedOnce ==
  ASSUME NEW section, NEW path, NEW former, NEW latter, NEW c,
         c \in changed_value(section, path, former, latter)
  PROVE  /\ c = Change(section, path, "changed", former, latter) /\ former # latter
         /\ c.path = path /\ c.class = "changed" /\ c.after = latter
BY DEF changed_value, Change

LEMMA AddedRemoved ==
  ASSUME NEW section, NEW path, NEW value
  PROVE  /\ added(section, path, value).path = path /\ added(section, path, value).class = "added"
         /\ added(section, path, value).after = value
         /\ removed(section, path, value).path = path /\ removed(section, path, value).class = "removed"
BY DEF added, removed, Change

\* What became of an entry of a map, a member of a set, an entity of a list.
EntryOf(section, root, former, latter, id) ==
    IF id \in DOMAIN former \cap DOMAIN latter
    THEN changed_value(section, entity_path(root, id), <<"text", former[id]>>, <<"text", latter[id]>>)
    ELSE IF id \in DOMAIN former
    THEN {removed(section, entity_path(root, id), <<"text", former[id]>>)}
    ELSE IF id \in DOMAIN latter
    THEN {added(section, entity_path(root, id), <<"text", latter[id]>>)}
    ELSE {}
MemberOf(section, root, former, latter, id) ==
    IF id \in ToSet(former) \ ToSet(latter)
    THEN {removed(section, entity_path(root, id), <<"text", id>>)}
    ELSE IF id \in ToSet(latter) \ ToSet(former)
    THEN {added(section, entity_path(root, id), <<"text", id>>)}
    ELSE {}
EntityOf(section, root, former, latter, id, changes) ==
    /\ id \in Ids(latter) \ Ids(former) =>
          changes = {added(section, entity_path(root, id), <<section, ById(latter, id)>>)}
    /\ id \in Ids(former) \ Ids(latter) =>
          changes = {removed(section, entity_path(root, id), <<section, ById(former, id)>>)}
    /\ id \notin Ids(latter) \ Ids(former) /\ id \notin Ids(former) \ Ids(latter) =>
          \A c \in changes : c.class = "changed"
FieldOf(section, root, former, latter, id, f) ==
    changed_value(section, entity_path(root, id) \o <<"/", f>>,
                  <<"text", ById(former, id)[f]>>, <<"text", ById(latter, id)[f]>>)
FieldsOf(section, root, fields, former, latter, changes) ==
    \A id \in Ids(former) \cap Ids(latter), f \in fields :
       AtPath(changes, entity_path(root, id) \o <<"/", f>>) = FieldOf(section, root, former, latter, id, f)
OrderOf(section, root, former, latter) ==
    changed_value(section, <<root, "/", "order">>, <<"order", Order(former)>>, <<"order", Order(latter)>>)

\* A map: at the path of an entry stands what became of it, and nowhere else anything.
LEMMA MapTells ==
  ASSUME NEW section, NEW root, NEW former, NEW latter,
         DOMAIN former \cup DOMAIN latter \subseteq DOMAIN Spelling,
         NEW changes, changes = compare_string_map(section, root, former, latter)
  PROVE  /\ Once(changes)
         /\ \A c \in changes : \E id \in DOMAIN Spelling : c.path = entity_path(root, id)
         /\ \A id \in DOMAIN Spelling :
               AtPath(changes, entity_path(root, id)) = EntryOf(section, root, former, latter, id)
<1> DEFINE E(id) == entity_path(root, id)
           Both(id) == changed_value(section, E(id), <<"text", former[id]>>, <<"text", latter[id]>>)
           Gone(id) == removed(section, E(id), <<"text", former[id]>>)
           Come(id) == added(section, E(id), <<"text", latter[id]>>)
           Of(id) == IF id \in DOMAIN former \cap DOMAIN latter THEN Both(id)
                     ELSE IF id \in DOMAIN former THEN {Gone(id)}
                     ELSE IF id \in DOMAIN latter THEN {Come(id)} ELSE {}
<1>1. \A c : c \in changes <=> \/ \E id \in DOMAIN former \cap DOMAIN latter : c \in Both(id)
                               \/ \E id \in DOMAIN former \ DOMAIN latter : c = Gone(id)
                               \/ \E id \in DOMAIN latter \ DOMAIN former : c = Come(id)
  <2> DEFINE stayed == UNION {Both(id) : id \in DOMAIN former \cap DOMAIN latter}
  <2>1. changes = stayed \cup {Gone(id) : id \in DOMAIN former \ DOMAIN latter}
                   \cup {Come(id) : id \in DOMAIN latter \ DOMAIN former}
    BY DEF compare_string_map
  <2> HIDE DEF E, Both, Gone, Come
  <2>2. \A c : c \in stayed <=> \E id \in DOMAIN former \cap DOMAIN latter : c \in Both(id)
    BY Zenon
  <2> HIDE DEF stayed
  <2> QED
    BY <2>1, <2>2
<1>2. \A id \in DOMAIN Spelling, other \in DOMAIN Spelling : E(id) = E(other) => id = other
  BY EntitiesApart
<1>3. \A id, c : c \in Of(id) => c.path = E(id)
  BY ChangedOnce, AddedRemoved
<1>4. \A id, c, d : c \in Of(id) /\ d \in Of(id) => c = d
  BY ChangedOnce
<1> HIDE DEF E, Both, Gone, Come
<1>5. \A c : c \in changes <=> \E id \in DOMAIN Spelling : c \in Of(id)
  BY <1>1
<1> HIDE DEF Of
<1>6. \A id \in DOMAIN Spelling : AtPath(changes, E(id)) = Of(id)
  BY <1>2, <1>3, <1>5 DEF AtPath
<1>7. Once(changes)
  BY <1>2, <1>3, <1>4, <1>5 DEF Once
<1>8. \A c \in changes : \E id \in DOMAIN Spelling : c.path = E(id)
  BY <1>3, <1>5
<1> QED
  BY <1>6, <1>7, <1>8 DEF E, Of, Both, Gone, Come, EntryOf

\* A set of identifiers: likewise.
LEMMA SetTells ==
  ASSUME NEW section, NEW root, NEW former, NEW latter,
         ToSet(former) \cup ToSet(latter) \subseteq DOMAIN Spelling,
         NEW changes, changes = compare_id_collection(section, root, former, latter)
  PROVE  /\ Once(changes)
         /\ \A c \in changes : \E id \in DOMAIN Spelling : c.path = entity_path(root, id)
         /\ \A id \in DOMAIN Spelling :
               AtPath(changes, entity_path(root, id)) = MemberOf(section, root, former, latter, id)
<1> DEFINE E(id) == entity_path(root, id)
           Gone(id) == removed(section, E(id), <<"text", id>>)
           Come(id) == added(section, E(id), <<"text", id>>)
           Of(id) == IF id \in ToSet(former) \ ToSet(latter) THEN {Gone(id)}
                     ELSE IF id \in ToSet(latter) \ ToSet(former) THEN {Come(id)} ELSE {}
<1>1. \A c : c \in changes <=> \/ \E id \in ToSet(former) \ ToSet(latter) : c = Gone(id)
                               \/ \E id \in ToSet(latter) \ ToSet(former) : c = Come(id)
  BY DEF compare_id_collection
<1>2. \A id \in DOMAIN Spelling, other \in DOMAIN Spelling : E(id) = E(other) => id = other
  BY EntitiesApart
<1>3. \A id, c : c \in Of(id) => c.path = E(id)
  BY AddedRemoved
<1> HIDE DEF E, Gone, Come
<1>4. \A id, c, d : c \in Of(id) /\ d \in Of(id) => c = d
  OBVIOUS
<1>5. \A c : c \in changes <=> \E id \in DOMAIN Spelling : c \in Of(id)
  BY <1>1
<1> HIDE DEF Of
<1>6. \A id \in DOMAIN Spelling : AtPath(changes, E(id)) = Of(id)
  BY <1>2, <1>3, <1>5 DEF AtPath
<1>7. Once(changes)
  BY <1>2, <1>3, <1>4, <1>5 DEF Once
<1>8. \A c \in changes : \E id \in DOMAIN Spelling : c.path = E(id)
  BY <1>3, <1>5
<1> QED
  BY <1>6, <1>7, <1>8 DEF E, Of, Gone, Come, MemberOf

\* A list of entities: at the path of one stands whether it came or went, at the path
\* of a field of one that stayed what became of it, and at the path of the order --
\* which may also be that of an entity -- how it changed if all of them stayed.
LEMMA ListTells ==
  ASSUME NEW section, NEW root, NEW fields, NEW former, NEW latter,
         Ids(former) \cup Ids(latter) \subseteq DOMAIN Spelling,
         NEW changes, changes = compare_entities(section, root, fields, former, latter)
  PROVE  /\ Once(changes) /\ Beneath(changes, root)
         /\ \A id \in DOMAIN Spelling :
               EntityOf(section, root, former, latter, id, AtPath(changes, entity_path(root, id)))
         /\ FieldsOf(section, root, fields, former, latter, changes)
         /\ Ids(former) = Ids(latter) =>
               AtPath(changes, <<root, "/", "order">>) = OrderOf(section, root, former, latter)
<1> DEFINE E(id) == entity_path(root, id)
           F(id, f) == entity_path(root, id) \o <<"/", f>>
           O == <<root, "/", "order">>
           Both(id, f) == changed_value(section, F(id, f), <<"text", ById(former, id)[f]>>,
                                        <<"text", ById(latter, id)[f]>>)
           Gone(id) == removed(section, E(id), <<section, ById(former, id)>>)
           Come(id) == added(section, E(id), <<section, ById(latter, id)>>)
           Sorted == changed_value(section, O, <<"order", Order(former)>>, <<"order", Order(latter)>>)
           B == Ids(former)
           A == Ids(latter)
<1>1. \A c : c \in changes <=> \/ B = A /\ c \in Sorted
                               \/ \E id \in B \cap A, f \in fields : c \in Both(id, f)
                               \/ \E id \in B \ A : c = Gone(id)
                               \/ \E id \in A \ B : c = Come(id)
  <2> DEFINE each == {Both(id, f) : id \in B \cap A, f \in fields}
             stayed == UNION each
             moved == IF B = A THEN Sorted ELSE {}
  <2>1. changes = moved \cup stayed \cup {Gone(id) : id \in B \ A} \cup {Come(id) : id \in A \ B}
    BY DEF compare_entities, compare_stable_id_order
  <2> HIDE DEF E, F, O, Both, Gone, Come, Sorted, A, B
  <2>2. \A s : s \in each <=> \E id \in B \cap A, f \in fields : s = Both(id, f)
    OBVIOUS
  <2> HIDE DEF each
  <2>3. \A c : c \in stayed <=> \E id \in B \cap A, f \in fields : c \in Both(id, f)
    <3>1. \A c : c \in stayed <=> \E s \in each : c \in s
      OBVIOUS
    <3> HIDE DEF stayed
    <3> QED
      BY <2>2, <3>1
  <2>4. \A c : c \in moved <=> B = A /\ c \in Sorted
    OBVIOUS
  <2> HIDE DEF stayed, moved
  <2> QED
    BY <2>1, <2>3, <2>4
<1>2. \A id \in DOMAIN Spelling, other \in DOMAIN Spelling : E(id) = E(other) => id = other
  BY EntitiesApart
<1>3. \A id \in DOMAIN Spelling, other \in DOMAIN Spelling : \A f, g :
         F(id, f) = F(other, g) => id = other /\ f = g
  BY FieldsApart
<1>4. \A id \in DOMAIN Spelling, other \in DOMAIN Spelling : \A f : E(id) # F(other, f)
  BY EntityIsNoField
<1>5. \A id \in DOMAIN Spelling : \A f : O # F(id, f)
  BY OrderIsNoField
<1> HIDE DEF E, F, O, A, B
<1>6. /\ \A c \in Sorted : c.path = O /\ c.class = "changed"
      /\ \A c \in Sorted, d \in Sorted : c = d
  BY ChangedOnce
<1>7. /\ \A id, f, c : c \in Both(id, f) => c.path = F(id, f)
      /\ \A id, f, c, d : c \in Both(id, f) /\ d \in Both(id, f) => c = d
  BY ChangedOnce
<1>8. \A id : Gone(id).path = E(id) /\ Come(id).path = E(id)
  BY AddedRemoved
<1>9. A \cup B \subseteq DOMAIN Spelling
  BY DEF A, B
<1> HIDE DEF Both, Gone, Come, Sorted
<1>10. Once(changes)
  <2> SUFFICES ASSUME NEW c \in changes, NEW d \in changes, c.path = d.path PROVE c = d
    BY DEF Once
  <2>1. CASE B = A /\ c \in Sorted
    <3>1. c.path = O /\ d \in Sorted
      BY <1>1, <1>5, <1>6, <1>7, <1>9, <2>1
    <3> QED
      BY <1>6, <2>1, <3>1
  <2>2. ASSUME NEW id \in B \cap A, NEW f \in fields, c \in Both(id, f) PROVE c = d
    <3>1. c.path = F(id, f) /\ id \in DOMAIN Spelling
      BY <1>7, <1>9, <2>2
    <3>2. PICK other \in B \cap A, g \in fields : d \in Both(other, g)
      <4>1. d.path = F(id, f) /\ d.path # O
        BY <1>5, <3>1
      <4>2. \A other \in B \cup A : d.path # E(other)
        BY <1>4, <1>9, <3>1, <4>1
      <4>3. d \notin Sorted /\ \A other \in B \cup A : d # Gone(other) /\ d # Come(other)
        BY <1>6, <1>8, <4>1, <4>2
      <4> QED
        BY <1>1, <4>3
    <3>3. F(id, f) = F(other, g) /\ other \in DOMAIN Spelling
      BY <1>7, <1>9, <3>1, <3>2
    <3>4. other = id /\ g = f
      BY <1>3, <3>1, <3>3
    <3> QED
      BY <1>7, <2>2, <3>2, <3>4
  <2>3. ASSUME NEW id \in B \ A, c = Gone(id) PROVE c = d
    <3>1. c.path = E(id) /\ id \in DOMAIN Spelling /\ B # A
      BY <1>8, <1>9, <2>3
    <3> QED
      BY <1>1, <1>2, <1>4, <1>7, <1>8, <1>9, <2>3, <3>1
  <2>4. ASSUME NEW id \in A \ B, c = Come(id) PROVE c = d
    <3>1. c.path = E(id) /\ id \in DOMAIN Spelling /\ B # A
      BY <1>8, <1>9, <2>4
    <3> QED
      BY <1>1, <1>2, <1>4, <1>7, <1>8, <1>9, <2>4, <3>1
  <2> QED
    BY <1>1, <2>1, <2>2, <2>3, <2>4
<1>11. Beneath(changes, root)
  <2> SUFFICES ASSUME NEW c \in changes PROVE Within(c.path, root)
    BY DEF Beneath
  <2>1. PICK p : p = c.path
    OBVIOUS
  <2>2. \/ p = O
        \/ \E id \in DOMAIN Spelling : p = E(id)
        \/ \E id \in DOMAIN Spelling : \E f : p = F(id, f)
    BY <1>1, <1>6, <1>7, <1>8, <1>9, <2>1
  <2>3. Within(p, root)
    BY <2>2, PathsUnder DEF O, E, F
  <2> QED
    BY <2>1, <2>3
<1>12. ASSUME NEW id \in A \ B PROVE AtPath(changes, E(id)) = {Come(id)}
  <2>1. id \in DOMAIN Spelling /\ A # B
    BY <1>9, <1>12
  <2>2. Come(id) \in AtPath(changes, E(id))
    BY <1>1, <1>8 DEF AtPath
  <2>3. \A c \in AtPath(changes, E(id)) : c = Come(id)
    BY <1>10, <2>2 DEF Once, AtPath
  <2> QED
    BY <2>2, <2>3
<1>13. ASSUME NEW id \in B \ A PROVE AtPath(changes, E(id)) = {Gone(id)}
  <2>1. Gone(id) \in AtPath(changes, E(id))
    BY <1>1, <1>8 DEF AtPath
  <2>2. \A c \in AtPath(changes, E(id)) : c = Gone(id)
    BY <1>10, <2>1 DEF Once, AtPath
  <2> QED
    BY <2>1, <2>2
<1>14. ASSUME NEW id \in DOMAIN Spelling, id \notin A \ B, id \notin B \ A,
              NEW c \in AtPath(changes, E(id))
       PROVE  c.class = "changed"
  <2>1. c \in changes /\ c.path = E(id)
    BY DEF AtPath
  <2>2. c \in Sorted
    BY <1>1, <1>2, <1>4, <1>7, <1>8, <1>9, <1>14, <2>1
  <2> QED
    BY <1>6, <2>2
<1>15. ASSUME NEW id \in B \cap A, NEW f \in fields PROVE AtPath(changes, F(id, f)) = Both(id, f)
  <2>1. id \in DOMAIN Spelling
    BY <1>9
  <2>2. ASSUME NEW c \in AtPath(changes, F(id, f)) PROVE c \in Both(id, f)
    <3>1. c \in changes /\ c.path = F(id, f)
      BY <2>2 DEF AtPath
    <3>2. PICK other \in B \cap A, g \in fields : c \in Both(other, g)
      BY <1>1, <1>4, <1>5, <1>6, <1>8, <1>9, <2>1, <3>1
    <3>3. other = id /\ g = f
      BY <1>3, <1>7, <1>9, <2>1, <3>1, <3>2
    <3> QED
      BY <3>2, <3>3
  <2>3. ASSUME NEW c \in Both(id, f) PROVE c \in AtPath(changes, F(id, f))
    BY <1>1, <1>7, <2>3 DEF AtPath
  <2> QED
    BY <2>2, <2>3
<1>16. ASSUME B = A PROVE AtPath(changes, O) = Sorted
  <2>1. ASSUME NEW c \in AtPath(changes, O) PROVE c \in Sorted
    <3>1. c \in changes /\ c.path = O
      BY <2>1 DEF AtPath
    <3> QED
      BY <1>1, <1>5, <1>7, <1>9, <1>16, <3>1
  <2>2. ASSUME NEW c \in Sorted PROVE c \in AtPath(changes, O)
    BY <1>1, <1>6, <1>16, <2>2 DEF AtPath
  <2> QED
    BY <2>1, <2>2
<1>17. \A id \in DOMAIN Spelling : EntityOf(section, root, former, latter, id, AtPath(changes, E(id)))
  BY <1>12, <1>13, <1>14 DEF EntityOf, A, B, E, Come, Gone
<1>18. FieldsOf(section, root, fields, former, latter, changes)
  BY <1>15 DEF FieldsOf, FieldOf, Both, F, A, B
<1>19. B = A => AtPath(changes, O) = OrderOf(section, root, former, latter)
  BY <1>16 DEF OrderOf, Sorted, O
<1> QED
  BY <1>10, <1>11, <1>17, <1>18, <1>19 DEF E, F, O, A, B

-----------------------------------------------------------------------------
(* The diff of two contexts is the union of what its sections contribute,   *)
(* and no two of them contribute at the same path.                          *)

\* Sections below different roots share no path.
LEMMA SectionsApart ==
  ASSUME NEW Roots, NEW sec, NEW scalars, NEW all,
         \A c : c \in all <=> c \in scalars \/ \E r \in Roots : c \in sec[r],
         Once(scalars), \A c \in scalars : Alone(c.path),
         \A r \in Roots : Once(sec[r]) /\ Beneath(sec[r], r)
  PROVE  /\ Once(all)
         /\ \A p : Alone(p) => AtPath(all, p) = AtPath(scalars, p)
<1>1. Once(all)
  <2> SUFFICES ASSUME NEW c \in all, NEW d \in all, c.path = d.path PROVE c = d
    BY DEF Once
  <2>1. CASE c \in scalars
    <3>1. d \in scalars
      BY <2>1, BelowApart DEF Beneath
    <3> QED
      BY <2>1, <3>1 DEF Once
  <2>2. ASSUME NEW r \in Roots, c \in sec[r] PROVE c = d
    <3>1. Within(d.path, r)
      BY <2>2 DEF Beneath
    <3>2. d \in sec[r]
      BY <3>1, BelowApart DEF Beneath
    <3> QED
      BY <2>2, <3>2 DEF Once
  <2> QED
    BY <2>1, <2>2
<1>2. ASSUME NEW p, Alone(p) PROVE AtPath(all, p) = AtPath(scalars, p)
  <2>1. \A c : c \in all /\ c.path = p <=> c \in scalars /\ c.path = p
    BY <1>2, BelowApart DEF Beneath
  <2> QED
    BY <2>1 DEF AtPath
<1> QED
  BY <1>1, <1>2

Scalars(b, a) ==
    UNION {changed_value(SectionOf(f), <<f>>, <<Tag(f), b[f]>>, <<Tag(f), a[f]>>) :
              f \in Texts \cup Numbers}

\* The fields of a context: each has a path of its own.
LEMMA ScalarsTell ==
  ASSUME NEW b, NEW a, NEW changes, changes = Scalars(b, a)
  PROVE  /\ Once(changes) /\ \A c \in changes : Alone(c.path)
         /\ \A f \in Texts \cup Numbers :
               AtPath(changes, <<f>>) =
                  changed_value(SectionOf(f), <<f>>, <<Tag(f), b[f]>>, <<Tag(f), a[f]>>)
<1> DEFINE N == Texts \cup Numbers
           F(f) == <<f>>
           Of(f) == changed_value(SectionOf(f), F(f), <<Tag(f), b[f]>>, <<Tag(f), a[f]>>)
<1>1. \A c : c \in changes <=> \E f \in N : c \in Of(f)
  BY Zenon DEF Scalars
<1>2. \A f, g : F(f) = F(g) => f = g
  OBVIOUS
<1>3. \A f : Alone(F(f))
  BY DEF Alone
<1> HIDE DEF F, N
<1>4. /\ \A f, c : c \in Of(f) => c.path = F(f)
      /\ \A f, c, d : c \in Of(f) /\ d \in Of(f) => c = d
  BY ChangedOnce
<1> HIDE DEF Of
<1>5. Once(changes) /\ \A c \in changes : Alone(c.path)
  BY <1>1, <1>2, <1>3, <1>4 DEF Once
<1>6. \A f \in N : AtPath(changes, F(f)) = Of(f)
  BY <1>1, <1>2, <1>4 DEF AtPath
<1> QED
  BY <1>5, <1>6 DEF F, N, Of

-----------------------------------------------------------------------------
Listable(ctx) == "" \notin Ids(ctx.messages) /\ "" \notin Ids(ctx.tasks)

\* Two contexts that restore: what stands at each path of their diff.
LEMMA ContextsTell ==
  ASSUME NEW b \in Contexts, NEW a \in Contexts, Listable(b), Listable(a),
         NEW all, all = compare_contexts(b, a), NEW map, NEW messages, NEW tasks, NEW requests, NEW calls,
         map = compare_string_map("tool_registry", "/tool_registry", b.registry, a.registry),
         messages = compare_messages(b.messages, a.messages),
         tasks = compare_tasks(b.tasks, a.tasks),
         requests = compare_id_collection("pending_model_requests", "/pending_model_request_ids",
                                          b.model_requests, a.model_requests),
         calls = compare_id_collection("pending_tool_calls", "/pending_tool_call_ids",
                                       b.tool_calls, a.tool_calls)
  PROVE  /\ Once(all)
         /\ \A f \in Texts \cup Numbers :
               AtPath(all, <<f>>) =
                  changed_value(SectionOf(f), <<f>>, <<Tag(f), b[f]>>, <<Tag(f), a[f]>>)
         /\ \A p : Within(p, "/tool_registry") => AtPath(all, p) = AtPath(map, p)
         /\ \A p : Within(p, "/messages") => AtPath(all, p) = AtPath(messages, p)
         /\ \A p : Within(p, "/pending_tasks") => AtPath(all, p) = AtPath(tasks, p)
         /\ \A p : Within(p, "/pending_model_request_ids") => AtPath(all, p) = AtPath(requests, p)
         /\ \A p : Within(p, "/pending_tool_call_ids") => AtPath(all, p) = AtPath(calls, p)
<1> DEFINE Roots == {"/tool_registry", "/messages", "/pending_tasks", "/pending_model_request_ids",
                     "/pending_tool_call_ids"}
           sec == [r \in Roots |-> IF r = "/tool_registry" THEN map
                                   ELSE IF r = "/messages" THEN messages
                                   ELSE IF r = "/pending_tasks" THEN tasks
                                   ELSE IF r = "/pending_model_request_ids" THEN requests ELSE calls]
<1>1. PICK scalars : scalars = Scalars(b, a)
  OBVIOUS
<1>2. all = scalars \cup map \cup messages \cup tasks \cup requests \cup calls
  BY <1>1 DEF compare_contexts, Scalars
<1>3. /\ sec["/tool_registry"] = map /\ sec["/messages"] = messages /\ sec["/pending_tasks"] = tasks
      /\ sec["/pending_model_request_ids"] = requests /\ sec["/pending_tool_call_ids"] = calls
  OBVIOUS
<1>4. \A c : c \in all <=> c \in scalars \/ \E r \in Roots : c \in sec[r]
  BY <1>2, <1>3
<1>5. Once(scalars) /\ \A c \in scalars : Alone(c.path)
  BY <1>1, ScalarsTell
<1>6. /\ DOMAIN b.registry \cup DOMAIN a.registry \subseteq DOMAIN Spelling
      /\ ToSet(b.model_requests) \cup ToSet(a.model_requests) \subseteq DOMAIN Spelling
      /\ ToSet(b.tool_calls) \cup ToSet(a.tool_calls) \subseteq DOMAIN Spelling
      /\ Ids(b.messages) \cup Ids(a.messages) \subseteq DOMAIN Spelling
      /\ Ids(b.tasks) \cup Ids(a.tasks) \subseteq DOMAIN Spelling
  BY SpellingAssumption DEF Listable
<1>7. Once(map) /\ Beneath(map, "/tool_registry")
  <2>1. Once(map) /\ \A c \in map : \E id \in DOMAIN Spelling : c.path = entity_path("/tool_registry", id)
    BY <1>6, MapTells
  <2> QED
    BY <2>1, PathsUnder DEF Beneath
<1>8. Once(messages) /\ Beneath(messages, "/messages")
  <2>1. PICK fields : fields = {"role", "hash"}
    OBVIOUS
  <2>2. messages = compare_entities("messages", "/messages", fields, b.messages, a.messages)
    BY <2>1 DEF compare_messages
  <2> QED
    BY <1>6, <2>2, ListTells
<1>9. Once(tasks) /\ Beneath(tasks, "/pending_tasks")
  <2>1. PICK fields : fields = {"type", "hash"}
    OBVIOUS
  <2>2. tasks = compare_entities("pending_tasks", "/pending_tasks", fields, b.tasks, a.tasks)
    BY <2>1 DEF compare_tasks
  <2> QED
    BY <1>6, <2>2, ListTells
<1>10. Once(requests) /\ Beneath(requests, "/pending_model_request_ids")
  <2>1. Once(requests) /\ \A c \in requests :
           \E id \in DOMAIN Spelling : c.path = entity_path("/pending_model_request_ids", id)
    BY <1>6, SetTells
  <2> QED
    BY <2>1, PathsUnder DEF Beneath
<1>11. Once(calls) /\ Beneath(calls, "/pending_tool_call_ids")
  <2>1. Once(calls) /\ \A c \in calls :
           \E id \in DOMAIN Spelling : c.path = entity_path("/pending_tool_call_ids", id)
    BY <1>6, SetTells
  <2> QED
    BY <2>1, PathsUnder DEF Beneath
<1>12. \A r \in Roots : Once(sec[r]) /\ Beneath(sec[r], r)
  BY <1>3, <1>7, <1>8, <1>9, <1>10, <1>11
<1> HIDE DEF sec
<1>13. /\ Once(all)
       /\ \A p : Alone(p) => AtPath(all, p) = AtPath(scalars, p)
       /\ \A r \in Roots : \A p : Within(p, r) => AtPath(all, p) = AtPath(sec[r], p)
  <2> HIDE DEF Roots
  <2>1. Once(all)
    BY <1>4, <1>5, <1>12, SectionsApart
  <2>2. \A p : Alone(p) => AtPath(all, p) = AtPath(scalars, p)
    BY <1>4, <1>5, <1>12, SectionsApart
  <2>3. \A r \in Roots : \A p : Within(p, r) => AtPath(all, p) = AtPath(sec[r], p)
    <3> SUFFICES ASSUME NEW r \in Roots, NEW p, Within(p, r) PROVE AtPath(all, p) = AtPath(sec[r], p)
      OBVIOUS
    <3>1. \A c : c \in all /\ c.path = p <=> c \in sec[r] /\ c.path = p
      BY <1>4, <1>5, <1>12, BelowApart DEF Beneath
    <3> QED
      BY <3>1 DEF AtPath
  <2> QED
    BY <2>1, <2>2, <2>3
<1>14. ASSUME NEW f \in Texts \cup Numbers
       PROVE  AtPath(all, <<f>>) =
                 changed_value(SectionOf(f), <<f>>, <<Tag(f), b[f]>>, <<Tag(f), a[f]>>)
  <2>1. PICK p : p = <<f>>
    OBVIOUS
  <2>2. Alone(p)
    BY <2>1 DEF Alone
  <2>3. AtPath(all, p) = AtPath(scalars, p)
    BY <1>13, <2>2
  <2>4. AtPath(scalars, <<f>>) =
           changed_value(SectionOf(f), <<f>>, <<Tag(f), b[f]>>, <<Tag(f), a[f]>>)
    BY <1>1, ScalarsTell
  <2> QED
    BY <2>1, <2>3, <2>4
<1>15. /\ \A p : Within(p, "/tool_registry") => AtPath(all, p) = AtPath(map, p)
       /\ \A p : Within(p, "/messages") => AtPath(all, p) = AtPath(messages, p)
       /\ \A p : Within(p, "/pending_tasks") => AtPath(all, p) = AtPath(tasks, p)
       /\ \A p : Within(p, "/pending_model_request_ids") => AtPath(all, p) = AtPath(requests, p)
       /\ \A p : Within(p, "/pending_tool_call_ids") => AtPath(all, p) = AtPath(calls, p)
  BY <1>3, <1>13
<1> QED
  BY <1>13, <1>14, <1>15

-----------------------------------------------------------------------------
(* What a reader makes of it.                                               *)

\* A value is read from the change at its path, or is the old one.
LEMMA ValueRead ==
  ASSUME NEW section, NEW path, NEW tag, NEW v, NEW latter,
         ChangesAt(path) = changed_value(section, path, <<tag, v>>, latter)
  PROVE  ValueAfter(path, tag, v) = latter
<1>1. CASE <<tag, v>> = latter
  BY <1>1 DEF ValueAfter, changed_value
<1>2. CASE <<tag, v>> # latter
  <2>1. ChangesAt(path) = {Change(section, path, "changed", <<tag, v>>, latter)}
    BY <1>2 DEF changed_value
  <2>2. Change(section, path, "changed", <<tag, v>>, latter).after = latter
    BY DEF Change
  <2> QED
    BY <2>1, <2>2 DEF ValueAfter
<1> QED
  BY <1>1, <1>2

LEMMA AddedRead ==
  ASSUME NEW section, NEW path, NEW value, ChangesAt(path) = {added(section, path, value)}
  PROVE  /\ \A there : ThereAfter(path, there)
         /\ \A tag, v : ValueAfter(path, tag, v) = value
<1>1. added(section, path, value).after = value /\ added(section, path, value).class = "added"
  BY AddedRemoved
<1> QED
  BY <1>1 DEF ThereAfter, ValueAfter

LEMMA RemovedRead ==
  ASSUME NEW section, NEW path, NEW value, ChangesAt(path) = {removed(section, path, value)}
  PROVE  \A there : ~ThereAfter(path, there)
<1>1. removed(section, path, value).class = "removed"
  BY AddedRemoved
<1> QED
  BY <1>1 DEF ThereAfter

\* Each section, read by path, gives the one after.
EntryFollows(path, id, former, latter) ==
    /\ ThereAfter(path, id \in DOMAIN former) <=> id \in DOMAIN latter
    /\ id \in DOMAIN latter =>
          ValueAfter(path, "text", IF id \in DOMAIN former THEN former[id] ELSE "")
            = <<"text", latter[id]>>

LEMMA MapRead ==
  ASSUME NEW section, NEW root, NEW former, NEW latter,
         DOMAIN former \cup DOMAIN latter \subseteq DOMAIN Spelling,
         NEW changes, changes = compare_string_map(section, root, former, latter),
         \A p : Within(p, root) => ChangesAt(p) = AtPath(changes, p),
         NEW id \in DOMAIN Spelling, NEW path, path = entity_path(root, id)
  PROVE  EntryFollows(path, id, former, latter)
<1>1. ChangesAt(path) = EntryOf(section, root, former, latter, id)
  <2>1. Within(path, root)
    BY PathsUnder
  <2>2. AtPath(changes, entity_path(root, id)) = EntryOf(section, root, former, latter, id)
    BY MapTells
  <2> QED
    BY <2>1, <2>2
<1>2. CASE id \in DOMAIN former \cap DOMAIN latter
  <2>1. ChangesAt(path) = changed_value(section, path, <<"text", former[id]>>, <<"text", latter[id]>>)
    BY <1>1, <1>2 DEF EntryOf
  <2>2. \A c \in ChangesAt(path) : c.class = "changed"
    BY <2>1, ChangedOnce
  <2>3. ThereAfter(path, id \in DOMAIN former) <=> id \in DOMAIN former
    BY <2>2 DEF ThereAfter
  <2>4. ValueAfter(path, "text", former[id]) = <<"text", latter[id]>>
    BY <2>1, ValueRead
  <2> QED
    BY <1>2, <2>3, <2>4 DEF EntryFollows
<1>3. CASE id \in DOMAIN former \ DOMAIN latter
  <2>1. ChangesAt(path) = {removed(section, path, <<"text", former[id]>>)}
    BY <1>1, <1>3 DEF EntryOf
  <2>2. ~ThereAfter(path, id \in DOMAIN former)
    BY <2>1, RemovedRead
  <2> QED
    BY <1>3, <2>2 DEF EntryFollows
<1>4. CASE id \in DOMAIN latter \ DOMAIN former
  <2>1. ChangesAt(path) = {added(section, path, <<"text", latter[id]>>)}
    BY <1>1, <1>4 DEF EntryOf
  <2>2. /\ ThereAfter(path, id \in DOMAIN former)
        /\ ValueAfter(path, "text", "") = <<"text", latter[id]>>
    BY <2>1, AddedRead
  <2> QED
    BY <1>4, <2>2 DEF EntryFollows
<1>5. CASE id \notin DOMAIN former \cup DOMAIN latter
  <2>1. ChangesAt(path) = {}
    BY <1>1, <1>5 DEF EntryOf
  <2>2. ThereAfter(path, id \in DOMAIN former) <=> id \in DOMAIN former
    BY <2>1 DEF ThereAfter
  <2> QED
    BY <1>5, <2>2 DEF EntryFollows
<1> QED
  BY <1>2, <1>3, <1>4, <1>5

LEMMA SetRead ==
  ASSUME NEW section, NEW root, NEW former, NEW latter,
         ToSet(former) \cup ToSet(latter) \subseteq DOMAIN Spelling,
         NEW changes, changes = compare_id_collection(section, root, former, latter),
         \A p : Within(p, root) => ChangesAt(p) = AtPath(changes, p)
  PROVE  SetFollows(root, former, latter)
<1> SUFFICES ASSUME NEW id \in DOMAIN Spelling
             PROVE  ThereAfter(entity_path(root, id), id \in ToSet(former)) <=> id \in ToSet(latter)
  BY DEF SetFollows
<1>1. PICK path : path = entity_path(root, id)
  OBVIOUS
<1>2. ChangesAt(path) = MemberOf(section, root, former, latter, id)
  <2>1. Within(path, root)
    BY <1>1, PathsUnder
  <2>2. AtPath(changes, entity_path(root, id)) = MemberOf(section, root, former, latter, id)
    BY SetTells
  <2> QED
    BY <1>1, <2>1, <2>2
<1>3. CASE id \in ToSet(former) \ ToSet(latter)
  <2>1. ChangesAt(path) = {removed(section, path, <<"text", id>>)}
    BY <1>1, <1>2, <1>3 DEF MemberOf
  <2>2. ~ThereAfter(path, id \in ToSet(former))
    BY <2>1, RemovedRead
  <2> QED
    BY <1>1, <1>3, <2>2
<1>4. CASE id \in ToSet(latter) \ ToSet(former)
  <2>1. ChangesAt(path) = {added(section, path, <<"text", id>>)}
    BY <1>1, <1>2, <1>4 DEF MemberOf
  <2>2. ThereAfter(path, id \in ToSet(former))
    BY <2>1, AddedRead
  <2> QED
    BY <1>1, <1>4, <2>2
<1>5. CASE id \in ToSet(former) <=> id \in ToSet(latter)
  <2>1. ChangesAt(path) = {}
    BY <1>2, <1>5 DEF MemberOf
  <2>2. ThereAfter(path, id \in ToSet(former)) <=> id \in ToSet(former)
    BY <2>1 DEF ThereAfter
  <2> QED
    BY <1>1, <1>5, <2>2
<1> QED
  BY <1>3, <1>4, <1>5

LEMMA ListRead ==
  ASSUME NEW section, NEW root, NEW fields, NEW former, NEW latter,
         Ids(former) \cup Ids(latter) \subseteq DOMAIN Spelling,
         NEW changes, changes = compare_entities(section, root, fields, former, latter),
         \A p : Within(p, root) => ChangesAt(p) = AtPath(changes, p)
  PROVE  ListFollows(section, root, fields, former, latter)
<1>1. ASSUME NEW id \in DOMAIN Spelling
      PROVE  /\ ThereAfter(entity_path(root, id), id \in Ids(former)) <=> id \in Ids(latter)
             /\ id \in Ids(latter) \ Ids(former) =>
                   ValueAfter(entity_path(root, id), section, <<>>) = <<section, ById(latter, id)>>
  <2>1. PICK path : path = entity_path(root, id)
    OBVIOUS
  <2>2. EntityOf(section, root, former, latter, id, ChangesAt(path))
    <3>1. Within(path, root)
      BY <2>1, PathsUnder
    <3>2. EntityOf(section, root, former, latter, id, AtPath(changes, entity_path(root, id)))
      BY ListTells
    <3>3. ChangesAt(path) = AtPath(changes, entity_path(root, id))
      BY <2>1, <3>1
    <3> QED
      BY <3>2, <3>3
  <2>3. CASE id \in Ids(latter) \ Ids(former)
    <3>1. ChangesAt(path) = {added(section, path, <<section, ById(latter, id)>>)}
      BY <2>1, <2>2, <2>3 DEF EntityOf
    <3>2. /\ ThereAfter(path, id \in Ids(former))
          /\ ValueAfter(path, section, <<>>) = <<section, ById(latter, id)>>
      BY <3>1, AddedRead
    <3> QED
      BY <2>1, <2>3, <3>2
  <2>4. CASE id \in Ids(former) \ Ids(latter)
    <3>1. ChangesAt(path) = {removed(section, path, <<section, ById(former, id)>>)}
      BY <2>1, <2>2, <2>4 DEF EntityOf
    <3>2. ~ThereAfter(path, id \in Ids(former))
      BY <3>1, RemovedRead
    <3> QED
      BY <2>1, <2>4, <3>2
  <2>5. CASE id \in Ids(former) <=> id \in Ids(latter)
    <3>1. \A c \in ChangesAt(path) : c.class = "changed"
      BY <2>2, <2>5 DEF EntityOf
    <3>2. ThereAfter(path, id \in Ids(former)) <=> id \in Ids(former)
      BY <3>1 DEF ThereAfter
    <3> QED
      BY <2>1, <2>5, <3>2
  <2> QED
    BY <2>3, <2>4, <2>5
<1>2. ASSUME NEW id \in Ids(latter) \cap Ids(former), NEW f \in fields
      PROVE  ValueAfter(entity_path(root, id) \o <<"/", f>>, "text", ById(former, id)[f])
               = <<"text", ById(latter, id)[f]>>
  <2>1. Within(entity_path(root, id) \o <<"/", f>>, root)
    BY PathsUnder
  <2>2. AtPath(changes, entity_path(root, id) \o <<"/", f>>)
           = FieldOf(section, root, former, latter, id, f)
    <3>1. FieldsOf(section, root, fields, former, latter, changes)
      BY ListTells
    <3> QED
      BY <1>2, <3>1 DEF FieldsOf
  <2>3. PICK path : path = entity_path(root, id) \o <<"/", f>>
    OBVIOUS
  <2>4. ChangesAt(path) = changed_value(section, path, <<"text", ById(former, id)[f]>>,
                                        <<"text", ById(latter, id)[f]>>)
    BY <2>1, <2>2, <2>3 DEF FieldOf
  <2> QED
    BY <2>3, <2>4, ValueRead
<1>3. ASSUME Ids(latter) = Ids(former)
      PROVE  ValueAfter(<<root, "/", "order">>, "order", Order(former)) = <<"order", Order(latter)>>
  <2>1. Within(<<root, "/", "order">>, root)
    BY PathsUnder
  <2>2. AtPath(changes, <<root, "/", "order">>) = OrderOf(section, root, former, latter)
    BY <1>3, ListTells
  <2> QED
    BY <2>1, <2>2, ValueRead DEF OrderOf
<1> QED
  BY <1>1, <1>2, <1>3 DEF ListFollows

-----------------------------------------------------------------------------
(* The call.                                                                *)

\* Only contexts without blank identifiers restore.
LEMMA RestoredIsListable ==
  ASSUME NEW disk, NEW art, restore(disk, art) = "ok"
  PROVE  Listable(art.blob[2])
<1>1. PICK ctx : ctx = art.blob[2]
  OBVIOUS
<1>2. ContextCode(disk, ctx) = "ok"
  BY <1>1 DEF restore
<1>3. validate_context_shape(ctx)
  BY <1>2 DEF ContextCode
<1> QED
  BY <1>1, <1>3 DEF validate_context_shape, Listable

DiffInv ==
    /\ \E b, a \in Contexts : sides = [before |-> ArtifactOf(b), after |-> ArtifactOf(a)]
    /\ at \in {"before", "after", "done"}
    /\ at = "after" => Listable(sides.before.blob[2])
    /\ at = "done" /\ outcome.refused = {} =>
          /\ Listable(sides.before.blob[2]) /\ Listable(sides.after.blob[2])
          /\ outcome.changes = compare_contexts(sides.before.blob[2], sides.after.blob[2])

\* Once a diff is done, both contexts restored and its changes are those between them.
LEMMA DiffInvHolds == DiffSpec => []DiffInv
<1>1. DiffInit => DiffInv
  BY DEF DiffInit, DiffInv
<1>2. DiffInv /\ [DiffNext]_diff_vars => DiffInv'
  <2> SUFFICES ASSUME DiffInv, [DiffNext]_diff_vars PROVE DiffInv'
    OBVIOUS
  <2>1. ASSUME NEW blob, Damage(blob) PROVE DiffInv'
    BY <2>1 DEF Damage, DiffInv
  <2>2. ASSUME NEW side \in {"before", "after"}, Refuse(side) PROVE DiffInv'
    <3>1. outcome'.refused # {}
      BY <2>2 DEF Refuse, NoOutcome
    <3> QED
      BY <2>2, <3>1 DEF Refuse, DiffInv
  <2>3. CASE LoadBefore
    <3>1. Listable(sides.before.blob[2])
      BY <2>3, RestoredIsListable DEF LoadBefore, validated_context
    <3> QED
      BY <2>3, <3>1 DEF LoadBefore, DiffInv
  <2>4. CASE diff_application_checkpoints
    <3>1. Listable(sides.after.blob[2])
      BY <2>4, RestoredIsListable DEF diff_application_checkpoints, validated_context
    <3>2. outcome'.changes = compare_contexts(sides.before.blob[2], sides.after.blob[2])
      BY <2>4 DEF diff_application_checkpoints
    <3> QED
      BY <2>4, <3>1, <3>2 DEF diff_application_checkpoints, DiffInv
  <2>5. CASE UNCHANGED diff_vars
    BY <2>5 DEF diff_vars, DiffInv
  <2> QED
    BY <2>1, <2>2, <2>3, <2>4, <2>5 DEF DiffNext
<1> QED
  BY <1>1, <1>2, PTL DEF DiffSpec

\* A diff tells all of it, for any contexts and any spelling of their identifiers:
\* every path occurs once, and the context before with the changes looked up by path
\* gives the context after.
THEOREM DiffTellsAll == DiffSpec => []DiffDeterminesAfter
<1>1. DiffInv => DiffDeterminesAfter
  <2> SUFFICES ASSUME DiffInv, at = "done", outcome.refused = {} PROVE DiffDeterminesAfter
    BY DEF DiffDeterminesAfter
  <2>1. PICK b \in Contexts, a \in Contexts : sides = [before |-> ArtifactOf(b), after |-> ArtifactOf(a)]
    BY DEF DiffInv
  <2>2. sides.before.blob[2] = b /\ sides.after.blob[2] = a
    BY <2>1 DEF ArtifactOf, ContextBlob
  <2>3. Listable(b) /\ Listable(a) /\ outcome.changes = compare_contexts(b, a)
    BY <2>2 DEF DiffInv
  <2>4. PICK all : all = compare_contexts(b, a)
    OBVIOUS
  <2>5. all = outcome.changes /\ \A p : ChangesAt(p) = AtPath(all, p)
    BY <2>3, <2>4 DEF ChangesAt, AtPath
  <2>6. PICK map, messages, tasks, requests, calls :
          /\ map = compare_string_map("tool_registry", "/tool_registry", b.registry, a.registry)
          /\ messages = compare_messages(b.messages, a.messages)
          /\ tasks = compare_tasks(b.tasks, a.tasks)
          /\ requests = compare_id_collection("pending_model_requests", "/pending_model_request_ids",
                                              b.model_requests, a.model_requests)
          /\ calls = compare_id_collection("pending_tool_calls", "/pending_tool_call_ids",
                                           b.tool_calls, a.tool_calls)
    OBVIOUS
  <2>7. /\ Once(all)
        /\ \A f \in Texts \cup Numbers :
              AtPath(all, <<f>>) =
                 changed_value(SectionOf(f), <<f>>, <<Tag(f), b[f]>>, <<Tag(f), a[f]>>)
        /\ \A p : Within(p, "/tool_registry") => AtPath(all, p) = AtPath(map, p)
        /\ \A p : Within(p, "/messages") => AtPath(all, p) = AtPath(messages, p)
        /\ \A p : Within(p, "/pending_tasks") => AtPath(all, p) = AtPath(tasks, p)
        /\ \A p : Within(p, "/pending_model_request_ids") => AtPath(all, p) = AtPath(requests, p)
        /\ \A p : Within(p, "/pending_tool_call_ids") => AtPath(all, p) = AtPath(calls, p)
    BY <2>3, <2>4, <2>6, ContextsTell
  <2>8. /\ DOMAIN b.registry \cup DOMAIN a.registry \subseteq DOMAIN Spelling
        /\ ToSet(b.model_requests) \cup ToSet(a.model_requests) \subseteq DOMAIN Spelling
        /\ ToSet(b.tool_calls) \cup ToSet(a.tool_calls) \subseteq DOMAIN Spelling
        /\ Ids(b.messages) \cup Ids(a.messages) \subseteq DOMAIN Spelling
        /\ Ids(b.tasks) \cup Ids(a.tasks) \subseteq DOMAIN Spelling
    BY <2>3, SpellingAssumption DEF Listable
  <2>9. \A c, d \in outcome.changes : c.path = d.path => c = d
    BY <2>5, <2>7 DEF Once
  <2>10. ASSUME NEW f \in Texts \cup Numbers PROVE ValueAfter(<<f>>, Tag(f), b[f]) = <<Tag(f), a[f]>>
    <3>1. PICK path : path = <<f>>
      OBVIOUS
    <3>2. ChangesAt(path) = changed_value(SectionOf(f), path, <<Tag(f), b[f]>>, <<Tag(f), a[f]>>)
      BY <2>5, <2>7, <3>1
    <3> QED
      BY <3>1, <3>2, ValueRead
  <2>11. ASSUME NEW id \in DOMAIN Spelling, NEW path, path = entity_path("/tool_registry", id)
         PROVE  /\ ThereAfter(path, id \in DOMAIN b.registry) <=> id \in DOMAIN a.registry
                /\ id \in DOMAIN a.registry =>
                      ValueAfter(path, "text", IF id \in DOMAIN b.registry THEN b.registry[id] ELSE "")
                        = <<"text", a.registry[id]>>
    <3>1. \A p : Within(p, "/tool_registry") => ChangesAt(p) = AtPath(map, p)
      BY <2>5, <2>7
    <3>2. PICK r, s : r = b.registry /\ s = a.registry
      OBVIOUS
    <3>3. map = compare_string_map("tool_registry", "/tool_registry", r, s)
      BY <2>6, <3>2
    <3>4. DOMAIN r \cup DOMAIN s \subseteq DOMAIN Spelling
      BY <2>8, <3>2
    <3>5. EntryFollows(path, id, r, s)
      BY <2>11, <3>1, <3>3, <3>4, MapRead
    <3> QED
      BY <3>2, <3>5 DEF EntryFollows
  <2>12. ListFollows("messages", "/messages", {"role", "hash"}, b.messages, a.messages)
    <3>1. \A p : Within(p, "/messages") => ChangesAt(p) = AtPath(messages, p)
      BY <2>5, <2>7
    <3>2. messages = compare_entities("messages", "/messages", {"role", "hash"}, b.messages, a.messages)
      BY <2>6 DEF compare_messages
    <3> QED
      BY <2>8, <3>1, <3>2, ListRead
  <2>13. ListFollows("pending_tasks", "/pending_tasks", {"type", "hash"}, b.tasks, a.tasks)
    <3>1. \A p : Within(p, "/pending_tasks") => ChangesAt(p) = AtPath(tasks, p)
      BY <2>5, <2>7
    <3>2. tasks = compare_entities("pending_tasks", "/pending_tasks", {"type", "hash"}, b.tasks, a.tasks)
      BY <2>6 DEF compare_tasks
    <3> QED
      BY <2>8, <3>1, <3>2, ListRead
  <2>14. SetFollows("/pending_model_request_ids", b.model_requests, a.model_requests)
    <3>1. \A p : Within(p, "/pending_model_request_ids") => ChangesAt(p) = AtPath(requests, p)
      BY <2>5, <2>7
    <3> QED
      BY <2>6, <2>8, <3>1, SetRead
  <2>15. SetFollows("/pending_tool_call_ids", b.tool_calls, a.tool_calls)
    <3>1. \A p : Within(p, "/pending_tool_call_ids") => ChangesAt(p) = AtPath(calls, p)
      BY <2>5, <2>7
    <3> QED
      BY <2>6, <2>8, <3>1, SetRead
  <2> QED
    BY <2>2, <2>9, <2>10, <2>11, <2>12, <2>13, <2>14, <2>15 DEF DiffDeterminesAfter
<1> QED
  BY <1>1, DiffInvHolds, PTL

(***************************************************************************)
(* TrajectoryExport: the timeline of a branch, written once.               *)
(***************************************************************************)

-----------------------------------------------------------------------------
(* The session. *)

Labelled == {"promoted", "completed", "failed", "abandoned"}

\* What the journal says of the outcome: nothing before it is known, then, unless
\* that event was lost with the run, first a row that tells it.
JournalInv ==
    /\ IsSeq(journal_events)
    /\ \A i \in 1..Len(journal_events) : journal_events[i].sequence = i - 1
    /\ outcome_at \in Nat /\ outcome_at <= Len(journal_events) + 1
    /\ \A i \in 1..Len(journal_events) : outcome_at = 0 \/ i < outcome_at =>
          /\ ~is_terminal_outcome_kind(journal_events[i].kind)
          /\ journal_events[i].monotonic_ns = i - 1
    /\ outcome_at # 0 /\ outcome_at <= Len(journal_events) =>
          is_terminal_outcome_kind(journal_events[outcome_at].kind)

RunInv ==
    /\ run \in [at : {"new", "running", "stderr", "exited", "failed", "ended"},
                complete : BOOLEAN, ok : SUBSET BOOLEAN]
    /\ run.at = "new" => ~run.complete
    /\ run.at \in {"new", "running"} => run.ok = {}
    /\ outcome_at = 0 <=> run.at = "new" \/ (run.at = "running" /\ ~run.complete)
    /\ TRUE \in run.ok => run.at \in {"stderr", "exited", "ended"}
    /\ outcome_at # 0 /\ (run.at \notin {"failed", "ended"} \/ TRUE \in run.ok) =>
          outcome_at <= Len(journal_events)

BranchRow == [id : {RootId} \cup ForkIds, parent : {{}, {RootId}}, epoch : {NoEpoch} \cup ForkEpochs,
              state : {"created", "running", "suspended", "completed", "failed"}, created : 0..1]
ParentOK(b) == b.parent = IF b.id = RootId THEN {} ELSE {RootId}

\* A root with a label has an outcome.
LabelsTold(b) == b.id = RootId /\ b.state \in Labelled => outcome_at # 0

BranchInv ==
    /\ IsFiniteSet(DOMAIN branch_rows) /\ RootId \in DOMAIN branch_rows
    /\ branch_rows = [b \in DOMAIN branch_rows |-> branch_rows[b]]
    /\ \A b \in DOMAIN branch_rows :
          /\ branch_rows[b] \in BranchRow /\ branch_rows[b].id = b
          /\ ParentOK(branch_rows[b]) /\ LabelsTold(branch_rows[b])

SessionInv == JournalInv /\ RunInv /\ BranchInv

\* The first row that tells the outcome is where the outcome is.
LEMMA OutcomeIsFirst ==
  ASSUME JournalInv
  PROVE  RowsBeforeOutcome(journal_events) =
            IF outcome_at = 0 THEN Len(journal_events) ELSE outcome_at - 1
<1>1. PICK n : n = Len(journal_events)
  OBVIOUS
<1>2. n \in Nat /\ DOMAIN journal_events = 1..n
  BY <1>1, AppendAny DEF JournalInv
<1> DEFINE outcomes == {i \in DOMAIN journal_events : is_terminal_outcome_kind(journal_events[i].kind)}
<1>3. outcomes \subseteq Nat
  BY <1>2
<1>4. \A i \in outcomes : outcome_at # 0 /\ i >= outcome_at /\ i \in 1..n
  BY <1>1, <1>2 DEF JournalInv
<1>5. outcome_at # 0 /\ outcome_at <= n => outcome_at \in outcomes
  BY <1>1, <1>2 DEF JournalInv
<1>6. outcome_at \in Nat /\ outcome_at <= n + 1
  BY <1>1 DEF JournalInv
<1>7. RowsBeforeOutcome(journal_events) = IF outcomes = {} THEN n ELSE Min(outcomes) - 1
  BY <1>1 DEF RowsBeforeOutcome
<1> HIDE DEF outcomes
<1>8. CASE outcomes = {}
  BY <1>1, <1>2, <1>5, <1>6, <1>7, <1>8
<1>9. CASE outcomes # {}
  <2>1. Min(outcomes) \in outcomes /\ \A y \in outcomes : Min(outcomes) <= y
    BY <1>3, <1>9, SmallestExists
  <2>2. PICK m : m = Min(outcomes)
    OBVIOUS
  <2>3. m \in 1..n /\ m >= outcome_at /\ outcome_at # 0 /\ m <= outcome_at
    <3>1. m \in 1..n /\ m >= outcome_at /\ outcome_at # 0
      BY <1>4, <2>1, <2>2
    <3>2. outcome_at \in outcomes
      BY <1>2, <1>5, <1>6, <3>1
    <3> QED
      BY <2>1, <2>2, <3>1, <3>2
  <2>4. m = outcome_at
    BY <1>2, <1>6, <2>3
  <2> QED
    BY <1>7, <1>9, <2>2, <2>3, <2>4
<1> QED
  BY <1>8, <1>9

\* Reading the journal finds it in order, up to the outcome.
LEMMA ReadIsClean ==
  ASSUME JournalInv, NEW limit
  PROVE  /\ read_events(journal_events, limit).code \in {"ok", "event_limit"}
         /\ Len(read_events(journal_events, limit).events) =
               IF outcome_at = 0 THEN Len(journal_events) ELSE outcome_at - 1
<1>1. PICK m, n : m = Len(journal_events) /\ n = IF outcome_at = 0 THEN m ELSE outcome_at - 1
  OBVIOUS
<1>2. m \in Nat /\ DOMAIN journal_events = 1..m /\ n \in Nat /\ n <= m
  <2>1. m \in Nat /\ DOMAIN journal_events = 1..m
    BY <1>1, AppendAny DEF JournalInv
  <2> QED
    BY <1>1, <2>1 DEF JournalInv
<1> DEFINE gaps == {i \in DOMAIN journal_events : i <= n + 1 /\ journal_events[i].sequence # i - 1}
           regressions == {i \in 2 .. n : journal_events[i].monotonic_ns < journal_events[i - 1].monotonic_ns}
           wrong == gaps \cup regressions
           code == CASE Len(journal_events) > limit -> "event_limit"
                     [] ~(Len(journal_events) > limit) /\ wrong = {} -> "ok"
                     [] OTHER -> IF Min(wrong) \in gaps THEN "non_contiguous" ELSE "clock_regression"
           evts == [i \in 1 .. n |->
             [position |-> i - 1,
              delta |-> IF i = 1 THEN 0 ELSE journal_events[i].monotonic_ns - journal_events[i - 1].monotonic_ns,
              kind |-> normalized_event_kind(journal_events[i].kind), status |-> journal_events[i].status]]
<1>3. read_events(journal_events, limit) = [code |-> code, events |-> evts]
  BY <1>1, OutcomeIsFirst DEF read_events, ReadRows
<1>4. gaps = {}
  BY <1>1, <1>2 DEF JournalInv
<1>5. regressions = {}
  <2>1. \A i \in 1..n : journal_events[i].monotonic_ns = i - 1
    BY <1>1, <1>2 DEF JournalInv
  <2>2. \A i \in 2..n : i \in 1..n /\ i - 1 \in 1..n
    BY <1>2
  <2> QED
    BY <1>2, <2>1, <2>2
<1>6. Len(evts) = n
  BY <1>2
<1>7. code \in {"ok", "event_limit"}
  BY <1>4, <1>5
<1> HIDE DEF code, evts
<1> QED
  BY <1>1, <1>3, <1>6, <1>7

\* What is known of the outcome stays so.
Steady ==
    /\ Len(journal_events) \in Nat /\ Len(journal_events') \in Nat
    /\ outcome_at # 0 => UNCHANGED outcome_at
    /\ outcome_at = 0 => outcome_at' \in {0, Len(journal_events) + 1}
    /\ Len(journal_events') >= Len(journal_events)

\* A row that fits what is known of the outcome keeps the journal.
LEMMA RowKeeps ==
  ASSUME JournalInv, NEW row, row.sequence = Len(journal_events),
         journal_events' = Append(journal_events, row),
         \/ /\ outcome_at = 0 /\ outcome_at' = 0
            /\ ~is_terminal_outcome_kind(row.kind) /\ row.monotonic_ns = Len(journal_events)
         \/ /\ outcome_at = 0 /\ outcome_at' = Len(journal_events) + 1
            /\ is_terminal_outcome_kind(row.kind)
         \/ outcome_at # 0 /\ outcome_at <= Len(journal_events) /\ UNCHANGED outcome_at
  PROVE  /\ JournalInv' /\ Steady
         /\ Len(journal_events) \in Nat /\ Len(journal_events') = Len(journal_events) + 1
<1>1. PICK n, s, t : n = Len(journal_events) /\ s = journal_events /\ t = journal_events'
  OBVIOUS
<1>2. /\ IsSeq(t) /\ n \in Nat /\ Len(t) = n + 1
      /\ (\A i \in 1..n : t[i] = s[i]) /\ t[n + 1] = row
  BY <1>1, AppendAny DEF JournalInv
<1>3. \A i \in 1..(n + 1) : i \in 1..n \/ i = n + 1
  BY <1>2
<1>4. \A i \in 1..(n + 1) : t[i].sequence = i - 1
  BY <1>1, <1>2, <1>3 DEF JournalInv
<1>5. outcome_at' \in Nat /\ outcome_at' <= n + 2
  BY <1>1, <1>2 DEF JournalInv
<1>6. \A i \in 1..n : outcome_at' = 0 \/ i < outcome_at' =>
          ~is_terminal_outcome_kind(s[i].kind) /\ s[i].monotonic_ns = i - 1
  <2>1. \A i \in 1..n : outcome_at = 0 \/ i < outcome_at =>
          ~is_terminal_outcome_kind(s[i].kind) /\ s[i].monotonic_ns = i - 1
    BY <1>1 DEF JournalInv
  <2> QED
    BY <1>2, <2>1
<1>7. outcome_at' = 0 \/ n + 1 < outcome_at' =>
          ~is_terminal_outcome_kind(row.kind) /\ row.monotonic_ns = n
  BY <1>1, <1>2 DEF JournalInv
<1>8. outcome_at' # 0 /\ outcome_at' <= n + 1 => is_terminal_outcome_kind(t[outcome_at'].kind)
  <2>1. CASE outcome_at = 0
    BY <1>1, <1>2, <2>1
  <2>2. CASE outcome_at # 0
    <3>1. outcome_at \in 1..n /\ outcome_at' = outcome_at
      BY <1>1, <1>2, <2>2 DEF JournalInv
    <3> QED
      BY <1>1, <1>2, <3>1 DEF JournalInv
  <2> QED
    BY <2>1, <2>2
<1>9. \A i \in 1..(n + 1) : outcome_at' = 0 \/ i < outcome_at' =>
          ~is_terminal_outcome_kind(t[i].kind) /\ t[i].monotonic_ns = i - 1
  <2> SUFFICES ASSUME NEW i \in 1..(n + 1), outcome_at' = 0 \/ i < outcome_at'
               PROVE  ~is_terminal_outcome_kind(t[i].kind) /\ t[i].monotonic_ns = i - 1
    OBVIOUS
  <2>1. CASE i \in 1..n
    BY <1>2, <1>6, <2>1
  <2>2. CASE i = n + 1
    BY <1>2, <1>7, <2>2
  <2> QED
    BY <1>3, <2>1, <2>2
<1>10. \A i \in 1..Len(t) : t[i].sequence = i - 1
  BY <1>2, <1>4
<1>11. outcome_at' <= Len(t) + 1
  BY <1>2, <1>5
<1>12. JournalInv'
  BY <1>1, <1>2, <1>5, <1>8, <1>9, <1>10, <1>11 DEF JournalInv
<1>13. PICK m : m = Len(t)
  OBVIOUS
<1>14. m \in Nat /\ n <= m
  BY <1>2, <1>13
<1>15. /\ outcome_at # 0 => UNCHANGED outcome_at
       /\ outcome_at = 0 => outcome_at' \in {0, n + 1}
  BY <1>1
<1>16. Steady
  BY <1>1, <1>2, <1>13, <1>14, <1>15 DEF Steady
<1> QED
  BY <1>1, <1>2, <1>12, <1>16

\* A step that records nothing.
LEMMA NothingTold ==
  ASSUME JournalInv, UNCHANGED <<journal_events, outcome_at>>
  PROVE  JournalInv' /\ Steady
<1>1. PICK n : n = Len(journal_events)
  OBVIOUS
<1>2. n \in Nat /\ n = Len(journal_events') /\ n <= n
  BY <1>1, AppendAny DEF JournalInv
<1>3. Steady
  BY <1>1, <1>2 DEF Steady
<1>4. JournalInv'
  BY DEF JournalInv
<1> QED
  BY <1>3, <1>4

Tells(row, which) ==
    row.sequence = Len(journal_events) /\ row.kind = which /\ journal_events' = Append(journal_events, row)

\* A step of the run that records an event.
LEMMA RecordsTold ==
  ASSUME NEW event, NEW status, Records(event, status)
  PROVE  /\ UNCHANGED branch_rows
         /\ \E row : Tells(row, event) /\ row.monotonic_ns = Len(journal_events)
<1>1. Tells(EventOf(event, status, Len(journal_events)), event)
  BY DEF Records, Tells, EventOf
<1> QED
  BY <1>1 DEF Records, EventOf

LEMMA TerminalKinds ==
  /\ is_terminal_outcome_kind("agent.completion") /\ is_terminal_outcome_kind("process.stderr")
  /\ is_terminal_outcome_kind("process.exited") /\ is_terminal_outcome_kind("supervisor.failure")
  /\ ~is_terminal_outcome_kind("supervisor.run_started")
BY DEF is_terminal_outcome_kind

LEMMA JournalNext ==
  ASSUME JournalInv, RunInv, ExportNext
  PROVE  JournalInv' /\ RunInv' /\ Steady
<1>0. Len(journal_events) \in Nat /\ outcome_at \in Nat /\ outcome_at <= Len(journal_events) + 1
  BY AppendAny DEF JournalInv
<1> USE DEF RunAt, Reach, Knows, RunInv, Tells
<1>1. ASSUME RunStarts PROVE JournalInv' /\ RunInv' /\ Steady
  <2>1. PICK row : Tells(row, "supervisor.run_started") /\ row.monotonic_ns = Len(journal_events)
    BY <1>1, RecordsTold DEF RunStarts
  <2>2. outcome_at = 0 /\ outcome_at' = 0
    BY <1>1 DEF RunStarts
  <2>3. JournalInv' /\ Steady
    BY <2>1, <2>2, RowKeeps, TerminalKinds
  <2>4. RunInv'
    BY <1>0, <1>1, <2>2 DEF RunStarts
  <2> QED
    BY <2>3, <2>4
<1>2. ASSUME NEW which \in Kinds, AgentRecords(which) PROVE JournalInv' /\ RunInv' /\ Steady
  <2>1. PICK row : Tells(row, which) /\ row.monotonic_ns = Len(journal_events)
    BY <1>2, RecordsTold DEF AgentRecords
  <2>2. outcome_at = 0 /\ outcome_at' = 0 /\ UNCHANGED run
    BY <1>2 DEF AgentRecords
  <2>3. JournalInv' /\ Steady
    BY <2>1, <2>2, RowKeeps, KindsAssumption
  <2>4. RunInv'
    BY <2>2
  <2> QED
    BY <2>3, <2>4
<1>3. ASSUME NEW row, Tells(row, "agent.completion") \/ Tells(row, "process.stderr")
                      \/ Tells(row, "process.exited") \/ Tells(row, "supervisor.failure"),
             Knows, outcome_at # 0 => outcome_at <= Len(journal_events)
      PROVE  JournalInv' /\ Steady /\ outcome_at' # 0 /\ outcome_at' <= Len(journal_events')
             /\ Len(journal_events') = Len(journal_events) + 1
  <2>1. is_terminal_outcome_kind(row.kind)
    BY <1>3, TerminalKinds
  <2>2. /\ outcome_at = 0 => outcome_at' = Len(journal_events) + 1
        /\ outcome_at # 0 => UNCHANGED outcome_at
    BY <1>3
  <2>3. JournalInv' /\ Steady /\ Len(journal_events') = Len(journal_events) + 1
    BY <1>3, <2>1, <2>2, RowKeeps
  <2>4. outcome_at' # 0 /\ outcome_at' <= Len(journal_events) + 1
    BY <1>0, <2>2
  <2> QED
    BY <2>3, <2>4
<1>4. ASSUME AgentCompletes PROVE JournalInv' /\ RunInv' /\ Steady
  <2>1. PICK row : Tells(row, "agent.completion")
    BY <1>4, RecordsTold DEF AgentCompletes
  <2>2. /\ JournalInv' /\ Steady /\ outcome_at' # 0 /\ outcome_at' <= Len(journal_events')
    BY <1>3, <1>4, <2>1 DEF AgentCompletes
  <2>3. RunInv'
    BY <1>4, <2>2 DEF AgentCompletes
  <2> QED
    BY <2>2, <2>3
<1>5. ASSUME NEW ok \in BOOLEAN, ProcessStderr(ok) PROVE JournalInv' /\ RunInv' /\ Steady
  <2>1. PICK row : Tells(row, "process.stderr")
    BY <1>5, RecordsTold DEF ProcessStderr
  <2>2. /\ JournalInv' /\ Steady /\ outcome_at' # 0 /\ outcome_at' <= Len(journal_events')
    BY <1>3, <1>5, <2>1 DEF ProcessStderr
  <2>3. RunInv'
    BY <1>5, <2>2 DEF ProcessStderr
  <2> QED
    BY <2>2, <2>3
<1>6. ASSUME NEW ok \in BOOLEAN, ProcessExited(ok) PROVE JournalInv' /\ RunInv' /\ Steady
  <2>1. PICK row : Tells(row, "process.exited")
    BY <1>6, RecordsTold DEF ProcessExited
  <2>2. /\ JournalInv' /\ Steady /\ outcome_at' # 0 /\ outcome_at' <= Len(journal_events')
    BY <1>3, <1>6, <2>1 DEF ProcessExited
  <2>3. RunInv'
    BY <1>6, <2>2 DEF ProcessExited
  <2> QED
    BY <2>2, <2>3
<1>7. ASSUME SupervisionFails PROVE JournalInv' /\ RunInv' /\ Steady
  <2>1. run' = [run EXCEPT !.at = "failed", !.ok = {FALSE}] /\ Knows
        /\ run.at \in {"new", "running", "stderr", "exited"}
    BY <1>7 DEF SupervisionFails
  <2>2. CASE Records("supervisor.failure", "failed")
    <3>1. PICK row : Tells(row, "supervisor.failure")
      BY <2>2, RecordsTold
    <3>2. JournalInv' /\ Steady /\ outcome_at' # 0
      BY <1>3, <2>1, <3>1
    <3> QED
      BY <2>1, <3>2
  <2>3. CASE UNCHANGED journal_events
    <3>4. /\ outcome_at = 0 => outcome_at' = Len(journal_events) + 1
          /\ outcome_at # 0 => UNCHANGED outcome_at
      BY <2>1
    <3>5. outcome_at' \in Nat /\ outcome_at' # 0 /\ outcome_at' <= Len(journal_events) + 1
      BY <1>0, <3>4
    <3>6. Len(journal_events') \in Nat /\ Len(journal_events') >= Len(journal_events)
      BY <1>0, <2>3
    <3>7. Steady
      BY <1>0, <3>4, <3>6 DEF Steady
    <3>1. outcome_at' \in Nat /\ outcome_at' # 0 /\ outcome_at' <= Len(journal_events) + 1 /\ Steady
      BY <3>5, <3>7
    <3>2. RunInv'
      BY <2>1, <3>1
    <3>3. JournalInv'
      BY <1>0, <2>1, <2>3, <3>1 DEF JournalInv
    <3> QED
      BY <3>1, <3>2, <3>3
  <2> QED
    BY <1>7, <2>2, <2>3 DEF SupervisionFails
<1>8. ASSUME mark_terminal PROVE JournalInv' /\ RunInv' /\ Steady
  <2>1. UNCHANGED <<journal_events, outcome_at>>
    BY <1>8 DEF mark_terminal
  <2>2. RunInv'
    BY <1>8 DEF mark_terminal
  <2> QED
    BY <2>1, <2>2, NothingTold
<1>9. ASSUME record_activation PROVE JournalInv' /\ RunInv' /\ Steady
  <2>1. PICK row : Tells(row, "application.context_restored")
    <3>1. Tells(EventOf("application.context_restored", "succeeded", 0), "application.context_restored")
      BY <1>9 DEF record_activation, EventOf
    <3> QED
      BY <3>1
  <2>2. outcome_at # 0 /\ outcome_at <= Len(journal_events) /\ UNCHANGED <<outcome_at, run>>
    BY <1>9 DEF record_activation, Restorable
  <2>3. JournalInv' /\ Steady /\ Len(journal_events) \in Nat /\ Len(journal_events') = Len(journal_events) + 1
    BY <2>1, <2>2, RowKeeps
  <2>4. outcome_at' <= Len(journal_events')
    BY <1>0, <2>2, <2>3
  <2>5. RunInv'
    BY <1>9, <2>2, <2>4 DEF record_activation
  <2> QED
    BY <2>3, <2>5
<1>10. ASSUME UNCHANGED <<journal_events, run, outcome_at>> PROVE JournalInv' /\ RunInv' /\ Steady
  <2>1. RunInv'
    BY <1>10
  <2> QED
    BY <1>10, <2>1, NothingTold
<1>11. ASSUME NEW b, Suspend(b) PROVE UNCHANGED <<journal_events, run, outcome_at>>
  BY <1>11 DEF Suspend
<1>12. ASSUME NEW b, NEW epoch, NEW created, Fork(b, epoch, created)
       PROVE  UNCHANGED <<journal_events, run, outcome_at>>
  BY <1>12 DEF Fork
<1>13. ASSUME UNCHANGED store_vars PROVE UNCHANGED <<journal_events, run, outcome_at>>
  BY <1>13 DEF store_vars
<1>14. ASSUME NEW x, NEW ask, ExportBegins(x, ask) PROVE UNCHANGED store_vars
  BY <1>14 DEF ExportBegins
<1>15. ASSUME NEW x, \/ read_branches(x) \/ ExportBranch(x) \/ OutputExists(x) \/ CreateOutput(x)
                       \/ WriteLines(x) \/ WriteFails(x) \/ ExporterDies(x) \/ RemoveOutput
       PROVE  UNCHANGED store_vars
  BY <1>15 DEF read_branches, ExportBranch, OutputExists, CreateOutput, WriteLines, WriteFails,
               ExporterDies, RemoveOutput
<1> QED
  BY <1>1, <1>2, <1>4, <1>5, <1>6, <1>7, <1>8, <1>9, <1>10, <1>11, <1>12, <1>13, <1>14, <1>15
     DEF ExportNext

\* The branches keep their parents, and a root that gets a label has an outcome.
LEMMA BranchNext ==
  ASSUME RunInv, BranchInv, Steady, ExportNext
  PROVE  BranchInv'
<1> USE DEF BranchInv, ParentOK, LabelsTold, BranchRow, Labelled, RootId, NoEpoch
<1>0. outcome_at # 0 => outcome_at' # 0
  BY DEF Steady
<1>1. ASSUME UNCHANGED branch_rows PROVE BranchInv'
  BY <1>0, <1>1
<1>2. ASSUME NEW b \in DOMAIN branch_rows, NEW state,
             state = "suspended" \/ (state \in {"completed", "failed"} /\ outcome_at # 0),
             branch_rows' = [branch_rows EXCEPT ![b].state = state]
      PROVE  BranchInv'
  <2>1. /\ DOMAIN branch_rows' = DOMAIN branch_rows
        /\ \A c \in DOMAIN branch_rows : branch_rows'[c] =
              IF c = b THEN [branch_rows[c] EXCEPT !.state = state] ELSE branch_rows[c]
    BY <1>2
  <2>2. branch_rows' = [c \in DOMAIN branch_rows' |-> branch_rows'[c]]
    BY <1>2
  <2> QED
    BY <1>0, <1>2, <2>1, <2>2
<1>3. ASSUME mark_terminal PROVE BranchInv'
  <2>1. TerminalState \in {"completed", "failed"} /\ outcome_at # 0
    BY <1>3 DEF TerminalState, mark_terminal, RunInv, RunAt
  <2> QED
    BY <1>2, <1>3, <2>1 DEF mark_terminal
<1>4. ASSUME NEW b \in DOMAIN branch_rows, Suspend(b) PROVE BranchInv'
  BY <1>2, <1>4, ZenonT(60) DEF Suspend
<1>5. ASSUME NEW b \in ForkIds, NEW epoch \in ForkEpochs, NEW created \in 0 .. 1, Fork(b, epoch, created)
      PROVE  BranchInv'
  <2> DEFINE row == [id |-> b, parent |-> {RootId}, epoch |-> epoch, state |-> "created", created |-> created]
  <2>1. b \notin DOMAIN branch_rows /\ b # RootId
    BY <1>5 DEF Fork
  <2>2. branch_rows' = [x \in DOMAIN branch_rows \cup {b} |-> IF x = b THEN row ELSE branch_rows[x]]
    BY <1>5 DEF Fork
  <2>3. IsFiniteSet(DOMAIN branch_rows')
    BY <2>2, FS_AddElement
  <2>4. row \in BranchRow /\ row.id = b /\ row.parent = {RootId}
    OBVIOUS
  <2> HIDE DEF row
  <2> QED
    BY <1>0, <2>1, <2>2, <2>3, <2>4
<1>6. ASSUME UNCHANGED store_vars PROVE BranchInv'
  BY <1>1, <1>6 DEF store_vars
<1>7. ASSUME NEW which, NEW status, Records(which, status) PROVE BranchInv'
  BY <1>1, <1>7 DEF Records
<1>8. ASSUME NEW which, \/ RunStarts \/ AgentRecords(which) \/ AgentCompletes \/ SupervisionFails \/ record_activation
      PROVE  BranchInv'
  BY <1>1, <1>7, <1>8 DEF RunStarts, AgentRecords, AgentCompletes, SupervisionFails, record_activation
<1>9. ASSUME NEW ok, ProcessStderr(ok) \/ ProcessExited(ok) PROVE BranchInv'
  BY <1>7, <1>9 DEF ProcessStderr, ProcessExited
<1>14. ASSUME NEW x, NEW ask, ExportBegins(x, ask) PROVE BranchInv'
  BY <1>6, <1>14 DEF ExportBegins
<1>15. ASSUME NEW x, \/ read_branches(x) \/ ExportBranch(x) \/ OutputExists(x) \/ CreateOutput(x)
                       \/ WriteLines(x) \/ WriteFails(x) \/ ExporterDies(x) \/ RemoveOutput
       PROVE  BranchInv'
  BY <1>6, <1>15 DEF read_branches, ExportBranch, OutputExists, CreateOutput, WriteLines, WriteFails,
               ExporterDies, RemoveOutput
<1> QED
  BY <1>3, <1>4, <1>5, <1>8, <1>9, <1>14, <1>15 DEF ExportNext

-----------------------------------------------------------------------------
(* The calls. *)

CallFields == {"pc", "ask", "branches", "records", "code"}

BranchesOK(branches) ==
    /\ branches \in Seq(BranchRow)
    /\ \A i \in 1..Len(branches) : ParentOK(branches[i]) /\ LabelsTold(branches[i])
    /\ Len(branches) > 0 => \E i \in 1..Len(branches) : branches[i].id = RootId

RecordOK(r) ==
    /\ Len(r.events) \in Nat
    /\ r.branch.id = RootId =>
        /\ outcome_at = 0 => Len(r.events) <= Len(journal_events)
        /\ outcome_at # 0 => Len(r.events) < outcome_at
        /\ r.label # <<>> => outcome_at # 0 /\ Len(r.events) = outcome_at - 1
RecordsOK(records) == IsSeq(records) /\ \A i \in 1..Len(records) : RecordOK(records[i])

CallOK(e) ==
    /\ DOMAIN e = CallFields
    /\ BranchesOK(e.branches)
    /\ RecordsOK(e.records) /\ Len(e.records) <= Len(e.branches)
    /\ e.pc \in {"idle", "branches"} => e.records = <<>>
    /\ e.pc = "returned" => ExitCode(e.code) # 125

Callers == Exporters \cup Rivals
CallsInv ==
    /\ DOMAIN exporter = Callers
    /\ \A x \in Callers : CallOK(exporter[x])

\* What is learned of the outcome spoils no record that was made.
LEMMA CallStays ==
  ASSUME Steady, NEW e, CallOK(e)
  PROVE  CallOK(e)'
<1>1. \A b : LabelsTold(b) => LabelsTold(b)'
  BY DEF LabelsTold, Steady
<1>2. BranchesOK(e.branches)'
  BY <1>1 DEF CallOK, BranchesOK, ParentOK
<1>3. ASSUME NEW r, RecordOK(r) PROVE RecordOK(r)'
  <2>1. PICK n, m, k : n = Len(journal_events) /\ m = Len(journal_events') /\ k = Len(r.events)
    OBVIOUS
  <2>2. n \in Nat /\ m \in Nat /\ k \in Nat /\ m >= n
    BY <1>3, <2>1 DEF Steady, RecordOK
  <2>3. CASE outcome_at # 0
    BY <1>3, <2>3 DEF RecordOK, Steady
  <2>4. CASE outcome_at = 0
    <3>1. r.branch.id = RootId => k <= n /\ r.label = <<>>
      BY <1>3, <2>1, <2>4 DEF RecordOK
    <3>2. outcome_at' = 0 \/ outcome_at' = n + 1
      BY <2>1, <2>4 DEF Steady
    <3>3. r.branch.id = RootId =>
            /\ outcome_at' = 0 => k <= m
            /\ outcome_at' # 0 => k < outcome_at'
            /\ r.label = <<>>
      BY <2>2, <3>1, <3>2
    <3> QED
      BY <2>1, <2>2, <3>3 DEF RecordOK
  <2> QED
    BY <2>3, <2>4
<1> QED
  BY <1>2, <1>3 DEF CallOK, RecordsOK

\* The lineage of every branch is found.
LEMMA LineageFound ==
  ASSUME NEW branches, BranchesOK(branches), NEW i \in 1..Len(branches)
  PROVE  branch_depth(branches[i], BranchMap(branches), Len(branches)) # {}
<1> DEFINE b == branches[i]
           map == BranchMap(branches)
           met == ToSet(branches)
<1>1. PICK n : n = Len(branches)
  OBVIOUS
<1>2. n \in Nat /\ n >= 1 /\ DOMAIN branches = 1..n /\ i \in 1..n
  BY <1>1, LenProperties DEF BranchesOK
<1>3. met = {branches[k] : k \in 1..n}
  BY <1>2 DEF ToSet
<1>4. \A r \in met : ParentOK(r)
  BY <1>1, <1>3 DEF BranchesOK
<1>5. PICK root \in met : root.id = RootId
  BY <1>1, <1>2, <1>3 DEF BranchesOK
<1>6. /\ DOMAIN map = {r.id : r \in met}
      /\ \A id \in DOMAIN map : map[id] = CHOOSE r \in met : r.id = id
  BY DEF BranchMap
<1> HIDE DEF met, map
<1>7. RootId \in DOMAIN map /\ map[RootId].id = RootId /\ map[RootId].parent = {}
  <2>1. RootId \in DOMAIN map
    BY <1>5, <1>6
  <2>2. map[RootId] \in met /\ map[RootId].id = RootId
    BY <1>5, <1>6, <2>1
  <2> QED
    BY <1>4, <2>1, <2>2 DEF ParentOK
<1>8. b \in met /\ ParentOK(b)
  BY <1>2, <1>3, <1>4
<1> HIDE DEF b
<1>9. CASE b.id = RootId
  <2> DEFINE path == [k \in 0..0 |-> b]
  <2>1. b.parent = {}
    BY <1>8, <1>9 DEF ParentOK
  <2>2. path \in Lineages(b, map, 0)
    BY <2>1 DEF Lineages
  <2>3. 0 \in 0..n
    BY <1>2
  <2>4. 0 \in branch_depth(b, map, n)
    BY <2>2, <2>3 DEF branch_depth
  <2> QED
    BY <1>1, <2>4 DEF b, map
<1>10. CASE b.id # RootId
  <2> DEFINE path == [k \in 0..1 |-> IF k = 0 THEN b ELSE map[RootId]]
  <2>1. b.parent = {RootId}
    BY <1>8, <1>10 DEF ParentOK
  <2>2. path \in [0..1 -> {b} \cup {map[id] : id \in DOMAIN map}]
    BY <1>7
  <2>3. path[0] = b /\ path[1] = map[RootId]
    OBVIOUS
  <2>4. \A k \in 1..1 : \E p \in path[k - 1].parent : p \in DOMAIN map /\ path[k] = map[p]
    <3>1. \A k \in 1..1 : k = 1 /\ k - 1 = 0
      OBVIOUS
    <3>2. RootId \in path[0].parent
      BY <2>1, <2>3
    <3> HIDE DEF path
    <3> QED
      BY <1>7, <2>3, <3>1, <3>2
  <2>5. path[1].parent = {}
    BY <1>7, <2>3
  <2> HIDE DEF path
  <2>6. path \in Lineages(b, map, 1)
    BY <2>2, <2>3, <2>4, <2>5 DEF Lineages
  <2>7. 1 \in 0..n
    BY <1>2
  <2>8. 1 \in branch_depth(b, map, n)
    BY <2>6, <2>7 DEF branch_depth
  <2> QED
    BY <1>1, <2>8 DEF b, map
<1> QED
  BY <1>9, <1>10

\* A branch without events is read without an error.
LEMMA NothingIsClean ==
  ASSUME NEW limit
  PROVE  /\ read_events(<<>>, limit).code \in {"ok", "event_limit"}
         /\ Len(read_events(<<>>, limit).events) = 0
<1>1. RowsBeforeOutcome(<<>>) = 0
  BY DEF RowsBeforeOutcome
<1> DEFINE rws == <<>>
           gaps == {i \in DOMAIN rws : i <= 0 + 1 /\ rws[i].sequence # i - 1}
           regressions == {i \in 2 .. 0 : rws[i].monotonic_ns < rws[i - 1].monotonic_ns}
           wrong == gaps \cup regressions
           code == CASE Len(rws) > limit -> "event_limit"
                     [] ~(Len(rws) > limit) /\ wrong = {} -> "ok"
                     [] OTHER -> IF Min(wrong) \in gaps THEN "non_contiguous" ELSE "clock_regression"
           evts == [i \in 1 .. 0 |->
             [position |-> i - 1,
              delta |-> IF i = 1 THEN 0 ELSE rws[i].monotonic_ns - rws[i - 1].monotonic_ns,
              kind |-> normalized_event_kind(rws[i].kind), status |-> rws[i].status]]
<1>2. read_events(rws, limit) = [code |-> code, events |-> evts]
  BY <1>1 DEF read_events, ReadRows
<1>3. wrong = {}
  OBVIOUS
<1>4. code \in {"ok", "event_limit"} /\ Len(evts) = 0
  BY <1>3
<1> HIDE DEF code, evts
<1> QED
  BY <1>2, <1>4

\* One exporter moves on, and its call is still sound.
LEMMA OneCall ==
  ASSUME CallsInv, Steady, NEW x \in Callers, NEW e, CallOK(e)',
         exporter' = [exporter EXCEPT ![x] = e]
  PROVE  CallsInv'
<1>1. DOMAIN exporter' = Callers /\ exporter'[x] = e
      /\ \A y \in Callers : y # x => exporter'[y] = exporter[y]
  BY DEF CallsInv
<1>2. \A y \in Callers : y # x => CallOK(exporter[y])'
  <2> SUFFICES ASSUME NEW y \in Callers, y # x PROVE CallOK(exporter[y])'
    OBVIOUS
  <2>1. PICK f : f = exporter[y]
    OBVIOUS
  <2>2. CallOK(f)
    BY <2>1 DEF CallsInv
  <2>3. CallOK(f)'
    BY <2>2, CallStays
  <2>4. f = exporter'[y]
    BY <1>1, <2>1
  <2> QED
    BY <2>3, <2>4
<1> QED
  BY <1>1, <1>2 DEF CallsInv

LEMMA BlankIsOK ==
  ASSUME NEW e, DOMAIN e = CallFields, e.branches = <<>>, e.records = <<>>,
         e.pc = "returned" => ExitCode(e.code) # 125
  PROVE  CallOK(e)
<1>2. IsSeq(<<>>) /\ Len(<<>>) = 0 /\ <<>> \in Seq(BranchRow) /\ \A i \in 1..0 : FALSE
  BY DEF IsSeq
<1>3. BranchesOK(<<>>)
  BY <1>2 DEF BranchesOK
<1>4. RecordsOK(<<>>)
  BY <1>2 DEF RecordsOK
<1> QED
  BY <1>2, <1>3, <1>4 DEF CallOK

LEMMA ReturnedKeeps ==
  ASSUME CallsInv, Steady, NEW x \in Callers, NEW code, ExitCode(code) # 125, Returned(x, code)
  PROVE  CallsInv'
<1>1. PICK e : e = [NotAsked EXCEPT !.pc = "returned", !.code = code]
  OBVIOUS
<1>2. CallOK(e)
  <2>1. /\ DOMAIN e = CallFields /\ e.pc = "returned" /\ e.code = code
        /\ e.branches = <<>> /\ e.records = <<>>
    BY <1>1 DEF NotAsked, CallFields
  <2> QED
    BY <2>1, BlankIsOK
<1>3. CallOK(e)'
  BY <1>2, CallStays
<1>4. exporter' = [exporter EXCEPT ![x] = e]
  BY <1>1 DEF Returned
<1> QED
  BY <1>3, <1>4, OneCall

\* The codes of the errors that are the caller's.
LEMMA UserCodes ==
  /\ ExitCode("ok") # 125 /\ ExitCode("invalid_task_group") # 125 /\ ExitCode("invalid_limits") # 125
  /\ ExitCode("session_not_found") # 125 /\ ExitCode("branch_limit") # 125
  /\ ExitCode("event_limit") # 125 /\ ExitCode("output_exists") # 125
  /\ ExitCode("output") # 125 /\ ExitCode("io") # 125
BY DEF ExitCode, is_user_error

\* A call that goes on without reading.
LEMMA GoesOn ==
  ASSUME CallsInv, Steady, NEW x \in Callers, NEW pc, pc \notin {"idle", "branches", "returned"},
         exporter' = [exporter EXCEPT ![x].pc = pc]
  PROVE  CallsInv'
<1>1. PICK f, e : f = exporter[x] /\ e = [f EXCEPT !.pc = pc]
  OBVIOUS
<1>2. CallOK(f)
  BY <1>1 DEF CallsInv
<1>3. /\ DOMAIN e = CallFields /\ e.pc = pc /\ e.branches = f.branches /\ e.records = f.records
      /\ e.code = f.code
  BY <1>1, <1>2 DEF CallOK, CallFields
<1>4. CallOK(e)
  BY <1>2, <1>3 DEF CallOK
<1>5. CallOK(e)'
  BY <1>4, CallStays
<1>6. exporter' = [exporter EXCEPT ![x] = e]
  BY <1>1
<1> QED
  BY <1>5, <1>6, OneCall

LEMMA ExportBeginsKeeps ==
  ASSUME CallsInv, Steady, NEW x \in Callers, NEW ask, ExportBegins(x, ask)
  PROVE  CallsInv'
<1>1. CASE ask.group /\ validate_limits(ask) /\ ask.session
  <2>1. PICK f, e : f = exporter[x] /\ e = [f EXCEPT !.ask = {ask}, !.pc = "branches"]
    OBVIOUS
  <2>2. CallOK(f)
    BY <2>1 DEF CallsInv
  <2>3. /\ DOMAIN e = CallFields /\ e.pc = "branches" /\ e.branches = f.branches
        /\ e.records = f.records
    BY <2>1, <2>2 DEF CallOK, CallFields
  <2>4. CallOK(e)
    BY <2>1, <2>2, <2>3 DEF CallOK, ExportBegins
  <2>5. CallOK(e)'
    BY <2>4, CallStays
  <2>6. exporter' = [exporter EXCEPT ![x].ask = {ask}, ![x].pc = "branches"]
    BY <1>1 DEF ExportBegins
  <2>7. exporter' = [exporter EXCEPT ![x] = e]
    BY <2>1, <2>6 DEF CallsInv
  <2> QED
    BY <2>5, <2>7, OneCall
<1>2. CASE ~(ask.group /\ validate_limits(ask) /\ ask.session)
  <2>1. \/ Returned(x, "invalid_task_group") \/ Returned(x, "invalid_limits")
        \/ Returned(x, "session_not_found")
    BY <1>2 DEF ExportBegins
  <2> QED
    BY <2>1, ReturnedKeeps, UserCodes
<1> QED
  BY <1>1, <1>2

\* The list of the branches that is read is sound, the root's in it.
LEMMA ListIsOK ==
  ASSUME BranchInv, NEW list \in InOrder({branch_rows[b] : b \in DOMAIN branch_rows})
  PROVE  BranchesOK(list)
<1> DEFINE rws == {branch_rows[b] : b \in DOMAIN branch_rows}
<1>1. IsFiniteSet(rws)
  <2>1. \A t \in rws : \E b \in DOMAIN branch_rows : branch_rows[b] = t
    OBVIOUS
  <2>2. branch_rows \in [DOMAIN branch_rows -> rws]
    BY DEF BranchInv
  <2> HIDE DEF rws
  <2>3. branch_rows \in Surjection(DOMAIN branch_rows, rws)
    BY <2>1, <2>2 DEF Surjection
  <2>4. IsFiniteSet(DOMAIN branch_rows)
    BY DEF BranchInv
  <2> QED
    BY ONLY <2>3, <2>4, FS_Surjection
<1>2. \A r \in rws : r \in BranchRow /\ ParentOK(r) /\ LabelsTold(r)
  BY DEF BranchInv
<1>3. branch_rows[RootId] \in rws /\ branch_rows[RootId].id = RootId
  BY DEF BranchInv
<1>4. PICK n : n = Cardinality(rws)
  OBVIOUS
<1>5. n \in Nat
  BY <1>1, <1>4, FS_CardinalityType
<1>6. list \in [1..n -> rws] /\ ToSet(list) = rws
  BY <1>4 DEF InOrder
<1> HIDE DEF rws
<1>7. list \in [1..n -> BranchRow]
  BY <1>2, <1>6
<1>8. list \in Seq(BranchRow) /\ Len(list) = n
  BY <1>5, <1>7
<1>9. \A i \in 1..n : ParentOK(list[i]) /\ LabelsTold(list[i])
  BY <1>2, <1>6
<1>10. \E i \in 1..n : list[i].id = RootId
  BY <1>3, <1>6 DEF ToSet
<1> QED
  BY <1>8, <1>9, <1>10 DEF BranchesOK

LEMMA read_branchesKeeps ==
  ASSUME BranchInv, CallsInv, Steady, NEW x \in Callers, read_branches(x)
  PROVE  CallsInv'
<1>1. CASE Returned(x, "branch_limit")
  BY <1>1, ReturnedKeeps, UserCodes
<1>2. CASE ~Returned(x, "branch_limit")
  <2>1. PICK list \in InOrder({branch_rows[b] : b \in DOMAIN branch_rows}) :
           exporter' = [exporter EXCEPT ![x].pc = "events", ![x].branches = list]
    BY <1>2 DEF read_branches
  <2>2. PICK f, e : f = exporter[x] /\ e = [f EXCEPT !.pc = "events", !.branches = list]
    OBVIOUS
  <2>3. CallOK(f) /\ f.pc = "branches"
    BY <2>2 DEF CallsInv, read_branches
  <2>4. /\ DOMAIN e = CallFields /\ e.pc = "events" /\ e.branches = list
        /\ e.records = <<>>
    BY <2>2, <2>3 DEF CallOK, CallFields
  <2>5. BranchesOK(list)
    BY ListIsOK
  <2>6. Len(list) \in Nat /\ Len(<<>>) = 0 /\ IsSeq(<<>>)
    BY <2>5, LenProperties DEF BranchesOK, IsSeq
  <2>7. RecordsOK(<<>>)
    BY <2>6 DEF RecordsOK
  <2>8. CallOK(e)
    BY <2>4, <2>5, <2>6, <2>7 DEF CallOK
  <2>9. CallOK(e)'
    BY <2>8, CallStays
  <2>10. exporter' = [exporter EXCEPT ![x] = e]
    BY <2>1, <2>2 DEF CallsInv
  <2> QED
    BY <2>9, <2>10, OneCall
<1> QED
  BY <1>1, <1>2

\* What is read of a branch is in order, and up to the outcome if it is the root's.
LEMMA BranchRead ==
  ASSUME JournalInv, NEW b, NEW limit
  PROVE  /\ read_events(RowsOf(b), limit).code \in {"ok", "event_limit"}
         /\ Len(read_events(RowsOf(b), limit).events) \in Nat
         /\ b = RootId => Len(read_events(RowsOf(b), limit).events) =
                             IF outcome_at = 0 THEN Len(journal_events) ELSE outcome_at - 1
<1>1. Len(journal_events) \in Nat /\ outcome_at \in Nat
  BY AppendAny DEF JournalInv
<1>2. CASE b = RootId
  <2>1. RowsOf(b) = journal_events
    BY <1>2 DEF RowsOf
  <2> QED
    BY <1>1, <2>1, ReadIsClean
<1>3. CASE b # RootId
  <2>1. RowsOf(b) = <<>>
    BY <1>3 DEF RowsOf
  <2> QED
    BY <1>3, <2>1, NothingIsClean
<1> QED
  BY <1>2, <1>3

LEMMA LabelsAre ==
  ASSUME NEW state, learning_labels(state) # <<>>
  PROVE  state \in Labelled
BY DEF learning_labels, Labelled

LEMMA ExportBranchKeeps ==
  ASSUME JournalInv, CallsInv, Steady, NEW x \in Callers, ExportBranch(x)
  PROVE  CallsInv'
<1>1. PICK f, k, m, n : /\ f = exporter[x] /\ k = Len(f.records) /\ m = Len(f.branches)
                        /\ n = Len(journal_events)
  OBVIOUS
<1>2. CallOK(f) /\ f.pc = "events"
  BY <1>1 DEF CallsInv, ExportBranch
<1>3. k \in Nat /\ m \in Nat /\ k < m /\ n \in Nat
  <2>1. k \in Nat /\ m \in Nat /\ k <= m
    BY <1>1, <1>2, AppendAny, LenProperties DEF CallOK, RecordsOK, BranchesOK
  <2>2. k # m
    BY <1>1 DEF ExportBranch, ReadAll
  <2> QED
    BY <1>1, <2>1, <2>2, AppendAny DEF JournalInv
<1>4. k + 1 \in 1..m
  BY <1>3
<1>5. PICK b : b = f.branches[k + 1]
  OBVIOUS
<1>6. ParentOK(b) /\ LabelsTold(b)
  BY <1>1, <1>2, <1>4, <1>5 DEF CallOK, BranchesOK
<1> DEFINE depth == branch_depth(b, BranchMap(f.branches), m)
           read == read_events(RowsOf(b.id), AskOf(x).events)
           record == [branch |-> b, group |-> candidate_group(b), depth |-> depth,
                      label |-> learning_labels(b.state), events |-> read.events,
                      summary |-> summarize(read.events)]
<1>7. depth # {}
  BY <1>1, <1>2, <1>4, <1>5, LineageFound DEF CallOK
<1>8. read.code \in {"ok", "event_limit"} /\ Len(read.events) \in Nat
      /\ (b.id = RootId => Len(read.events) = IF outcome_at = 0 THEN n ELSE outcome_at - 1)
  BY <1>1, BranchRead
<1>9. \/ read.code # "ok" /\ Returned(x, read.code)
      \/ exporter' = [exporter EXCEPT ![x].records = Append(@, record)]
  BY <1>1, <1>5, <1>7 DEF ExportBranch
<1>10. record.branch = b /\ record.events = read.events /\ record.label = learning_labels(b.state)
  OBVIOUS
<1> HIDE DEF depth, read, record
<1>11. RecordOK(record)
  <2>1. learning_labels(b.state) # <<>> /\ b.id = RootId => outcome_at # 0
    BY <1>6, LabelsAre DEF LabelsTold
  <2>2. outcome_at \in Nat
    BY DEF JournalInv
  <2> QED
    BY <1>1, <1>3, <1>8, <1>10, <2>1, <2>2 DEF RecordOK
<1>12. CASE read.code # "ok" /\ Returned(x, read.code)
  BY <1>8, <1>12, ReturnedKeeps, UserCodes
<1>13. CASE exporter' = [exporter EXCEPT ![x].records = Append(@, record)]
  <2>1. PICK recs, e : recs = Append(f.records, record) /\ e = [f EXCEPT !.records = recs]
    OBVIOUS
  <2>2. /\ DOMAIN e = CallFields /\ e.pc = f.pc /\ e.branches = f.branches /\ e.records = recs
    BY <1>2, <2>1 DEF CallOK, CallFields
  <2>3. /\ IsSeq(recs) /\ Len(recs) = k + 1
        /\ (\A i \in 1..k : recs[i] = f.records[i]) /\ recs[k + 1] = record
    BY <1>1, <1>2, <2>1, AppendAny DEF CallOK, RecordsOK
  <2>4. \A i \in 1..k : RecordOK(recs[i])
    BY <1>1, <1>2, <2>3 DEF CallOK, RecordsOK
  <2>5. \A i \in 1..(k + 1) : i \in 1..k \/ i = k + 1
    BY <1>3
  <2>6. RecordsOK(recs)
    <3>1. \A i \in 1..(k + 1) : RecordOK(recs[i])
      BY <1>11, <2>3, <2>4, <2>5
    <3> QED
      BY <2>3, <3>1 DEF RecordsOK
  <2>7. Len(recs) <= m
    BY <1>3, <2>3
  <2>8. CallOK(e)
    BY <1>1, <1>2, <2>2, <2>6, <2>7 DEF CallOK
  <2>9. CallOK(e)'
    BY <2>8, CallStays
  <2>10. exporter' = [exporter EXCEPT ![x] = e]
    BY <1>1, <1>13, <2>1
  <2> QED
    BY <2>9, <2>10, OneCall
<1> QED
  BY <1>9, <1>12, <1>13

\* A step that is no exporter's.
LEMMA NobodyCalls ==
  ASSUME CallsInv, Steady, UNCHANGED exporter
  PROVE  CallsInv'
<1>1. \A x \in Callers : CallOK(exporter[x])'
  <2> SUFFICES ASSUME NEW x \in Callers PROVE CallOK(exporter[x])'
    OBVIOUS
  <2>1. PICK f : f = exporter[x]
    OBVIOUS
  <2>2. CallOK(f)'
    BY <2>1, CallStays DEF CallsInv
  <2> QED
    BY <2>1, <2>2
<1> QED
  BY <1>1 DEF CallsInv

LEMMA OutputStepKeeps ==
  ASSUME CallsInv, Steady, NEW x \in Callers,
         OutputExists(x) \/ CreateOutput(x) \/ WriteLines(x) \/ WriteFails(x) \/ ExporterDies(x)
  PROVE  CallsInv'
<1>1. ASSUME NEW code \in {"output_exists", "output", "ok", "io"}, Returned(x, code) PROVE CallsInv'
  BY <1>1, ReturnedKeeps, UserCodes
<1>2. ASSUME NEW pc \in {"create", "write"}, exporter' = [exporter EXCEPT ![x].pc = pc] PROVE CallsInv'
  BY <1>2, GoesOn
<1>3. CASE OutputExists(x)
  BY <1>1, <1>2, <1>3 DEF OutputExists
<1>4. CASE CreateOutput(x)
  BY <1>1, <1>2, <1>4 DEF CreateOutput
<1>5. CASE WriteLines(x)
  BY <1>1, <1>5 DEF WriteLines
<1>6. CASE WriteFails(x)
  BY <1>1, <1>6 DEF WriteFails
<1>7. CASE ExporterDies(x)
  <2>1. PICK e : e = [NotAsked EXCEPT !.pc = "dead"]
    OBVIOUS
  <2>2. /\ DOMAIN e = CallFields /\ e.pc = "dead" /\ e.branches = <<>> /\ e.records = <<>>
    BY <2>1 DEF NotAsked, CallFields
  <2>3. CallOK(e)
    BY <2>2, BlankIsOK
  <2>4. CallOK(e)'
    BY <2>3, CallStays
  <2>5. exporter' = [exporter EXCEPT ![x] = e]
    BY <1>7, <2>1 DEF ExporterDies
  <2> QED
    BY <2>4, <2>5, OneCall
<1> QED
  BY <1>3, <1>4, <1>5, <1>6, <1>7

LEMMA CallsNext ==
  ASSUME JournalInv, BranchInv, CallsInv, Steady, ExportNext
  PROVE  CallsInv'
<1>1. ASSUME NEW which, NEW status, Records(which, status) PROVE UNCHANGED exporter
  BY <1>1 DEF Records
<1>2. ASSUME \/ RunStarts \/ AgentCompletes \/ SupervisionFails \/ mark_terminal \/ record_activation
             \/ RemoveOutput
      PROVE  UNCHANGED exporter
  BY <1>1, <1>2 DEF RunStarts, AgentCompletes, SupervisionFails, mark_terminal, record_activation,
                    RemoveOutput
<1>3. ASSUME NEW ok, ProcessStderr(ok) \/ ProcessExited(ok) PROVE UNCHANGED exporter
  BY <1>1, <1>3 DEF ProcessStderr, ProcessExited
<1>4. ASSUME NEW which, AgentRecords(which) PROVE UNCHANGED exporter
  BY <1>1, <1>4 DEF AgentRecords
<1>5. ASSUME NEW b, NEW epoch, NEW created, Suspend(b) \/ Fork(b, epoch, created)
      PROVE  UNCHANGED exporter
  BY <1>5 DEF Suspend, Fork
<1>6. ASSUME NEW x \in Exporters, NEW ask, ExportBegins(x, ask) \/ read_branches(x) \/ ExportBranch(x)
      PROVE  CallsInv'
  BY <1>6, ExportBeginsKeeps, read_branchesKeeps, ExportBranchKeeps DEF Callers
<1> QED
  BY <1>2, <1>3, <1>4, <1>5, <1>6, NobodyCalls, OutputStepKeeps DEF ExportNext, Callers

-----------------------------------------------------------------------------
ExportInv == JournalInv /\ RunInv /\ BranchInv /\ CallsInv

LEMMA ExportInvInit == ExportInit => ExportInv
<1> SUFFICES ASSUME ExportInit PROVE ExportInv
  OBVIOUS
<1>1. JournalInv
  <2>1. IsSeq(<<>>) /\ Len(<<>>) = 0
    BY DEF IsSeq
  <2> QED
    BY <2>1 DEF ExportInit, JournalInv
<1>2. RunInv
  BY DEF ExportInit, RunInv
<1>3. BranchInv
  <2> DEFINE row == [id |-> RootId, parent |-> {}, epoch |-> NoEpoch, state |-> "running", created |-> 1]
  <2>1. row \in BranchRow /\ row.id = RootId /\ row.parent = {} /\ row.state = "running"
    BY DEF BranchRow
  <2>2. branch_rows = [b \in {RootId} |-> row]
    BY DEF ExportInit
  <2> HIDE DEF row
  <2>3. IsFiniteSet({RootId})
    BY FS_Singleton
  <2>4. ParentOK(row) /\ LabelsTold(row)
    BY <2>1 DEF ParentOK, LabelsTold, Labelled
  <2> QED
    BY <2>1, <2>2, <2>3, <2>4 DEF BranchInv
<1>4. CallsInv
  <2>1. \A x \in Callers : /\ DOMAIN exporter[x] = CallFields /\ exporter[x].pc # "returned"
                              /\ exporter[x].branches = <<>> /\ exporter[x].records = <<>>
    <3> SUFFICES ASSUME NEW x \in Callers
                 PROVE  /\ DOMAIN exporter[x] = CallFields /\ exporter[x].pc # "returned"
                        /\ exporter[x].branches = <<>> /\ exporter[x].records = <<>>
      OBVIOUS
    <3>1. exporter[x] = IF x \in Rivals THEN [NotAsked EXCEPT !.pc = "events"] ELSE NotAsked
      BY DEF ExportInit, Callers
    <3> QED
      BY <3>1 DEF NotAsked, CallFields
  <2>2. \A x \in Callers : CallOK(exporter[x])
    BY <2>1, BlankIsOK
  <2>3. DOMAIN exporter = Callers
    BY DEF ExportInit, Callers
  <2> QED
    BY <2>2, <2>3 DEF CallsInv
<1> QED
  BY <1>1, <1>2, <1>3, <1>4 DEF ExportInv

LEMMA ExportInvNext == ExportInv /\ [ExportNext]_export_vars => ExportInv'
<1> SUFFICES ASSUME ExportInv, [ExportNext]_export_vars PROVE ExportInv'
  OBVIOUS
<1>1. CASE ExportNext
  <2>1. JournalInv' /\ RunInv' /\ Steady
    BY <1>1, JournalNext DEF ExportInv
  <2>2. BranchInv'
    BY <1>1, <2>1, BranchNext DEF ExportInv
  <2>3. CallsInv'
    BY <1>1, <2>1, CallsNext DEF ExportInv
  <2> QED
    BY <2>1, <2>2, <2>3 DEF ExportInv
<1>2. CASE UNCHANGED export_vars
  <2>1. UNCHANGED <<branch_rows, journal_events, run, outcome_at, exporter>>
    BY <1>2 DEF export_vars, store_vars
  <2>2. JournalInv' /\ Steady
    BY <2>1, NothingTold DEF ExportInv
  <2>3. RunInv' /\ BranchInv'
    BY <2>1 DEF ExportInv, RunInv, BranchInv, ParentOK, LabelsTold
  <2>4. CallsInv'
    BY <2>1, <2>2, NobodyCalls DEF ExportInv
  <2> QED
    BY <2>2, <2>3, <2>4 DEF ExportInv
<1> QED
  BY <1>1, <1>2

LEMMA ExportInvariance == ExportSpec => []ExportInv
<1> QED
  BY ExportInvInit, ExportInvNext, PTL DEF ExportSpec

\* No outcome leaks into a timeline: whatever a run records between the exporter's
\* read of the branch states and its read of the events, no exported event is of the
\* outcome or after it, and a labelled record has every event before it.
THEOREM ExportIsExact == ExportSpec => []TimelineIsExact
<1>1. ExportInv => TimelineIsExact
  <2> SUFFICES ASSUME ExportInv, NEW x \in Exporters, NEW i \in DOMAIN exporter[x].records,
                      exporter[x].records[i].branch.id = RootId
               PROVE  LET r == exporter[x].records[i] IN
                      /\ outcome_at # 0 => Len(r.events) < outcome_at
                      /\ r.label # <<>> => Len(r.events) = outcome_at - 1
    BY DEF TimelineIsExact
  <2>1. CallOK(exporter[x])
    BY DEF ExportInv, CallsInv, Callers
  <2>2. DOMAIN exporter[x].records = 1..Len(exporter[x].records)
    BY <2>1, AppendAny DEF CallOK, RecordsOK
  <2>3. RecordOK(exporter[x].records[i])
    BY <2>1, <2>2 DEF CallOK, RecordsOK
  <2> QED
    BY <2>3 DEF RecordOK
<1> QED
  BY <1>1, ExportInvariance, PTL

\* export_session never blames the trusted state: whatever forks, suspensions,
\* restores and failures a session has seen, a refusal names an argument, a limit or
\* the output.
THEOREM RefusalsAreTheRequests == ExportSpec => []RefusalIsOfTheRequest
<1>1. ExportInv => RefusalIsOfTheRequest
  BY DEF ExportInv, CallsInv, CallOK, RefusalIsOfTheRequest
<1> QED
  BY <1>1, ExportInvariance, PTL

-----------------------------------------------------------------------------
(* The output. *)

\* The file is of one exporter, which is writing it, died over it or has written
\* all of it.
FileInv ==
    /\ \A x \in Callers :
          /\ exporter[x].code = "ok" => exporter[x].pc = "returned" /\ file = {[by |-> x, whole |-> TRUE]}
          /\ exporter[x].pc = "write" => file = {[by |-> x, whole |-> FALSE]}
    /\ \A f \in file : /\ f.by \in Callers
                       /\ exporter[f.by].pc \in {"write", "dead"} \/ exporter[f.by].code = "ok"

CallFile == CallsInv /\ FileInv

\* An exporter moves on that has nothing to do with the file yet.
LEMMA FileNotTouched ==
  ASSUME CallFile, NEW x \in Callers, exporter[x].pc \notin {"write", "dead", "returned"},
         NEW e, e.pc # "write", e.code # "ok",
         exporter' = [exporter EXCEPT ![x] = e], UNCHANGED file
  PROVE  FileInv'
<1>1. /\ exporter'[x] = e
      /\ \A y \in Callers : y # x => exporter'[y] = exporter[y]
  BY DEF CallFile, CallsInv
<1>2. \A f \in file : f.by # x
  BY DEF CallFile, FileInv
<1> QED
  BY <1>1, <1>2 DEF CallFile, FileInv

LEMMA FileOfReturned ==
  ASSUME CallFile, NEW x \in Callers, exporter[x].pc \notin {"write", "dead", "returned"},
         NEW code, code # "ok", Returned(x, code), UNCHANGED file
  PROVE  FileInv'
<1>1. PICK e : e = [NotAsked EXCEPT !.pc = "returned", !.code = code]
  OBVIOUS
<1>2. e.pc = "returned" /\ e.code = code
  BY <1>1 DEF NotAsked
<1>3. exporter' = [exporter EXCEPT ![x] = e]
  BY <1>1 DEF Returned
<1> QED
  BY <1>2, <1>3, FileNotTouched

LEMMA FileOfReading ==
  ASSUME CallFile, NEW x \in Callers,
         \/ \E ask : ExportBegins(x, ask)
         \/ read_branches(x) \/ ExportBranch(x) \/ OutputExists(x)
  PROVE  FileInv'
<1>1. CallOK(exporter[x]) /\ (exporter[x].code = "ok" => exporter[x].pc = "returned")
  BY DEF CallFile, CallsInv, FileInv
<1>2. exporter[x].pc \in {"idle", "branches", "events"} /\ UNCHANGED file
  BY DEF ExportBegins, read_branches, ExportBranch, OutputExists
<1>3. exporter[x].code # "ok"
  BY <1>1, <1>2
<1>4. ASSUME NEW code, code # "ok", Returned(x, code) PROVE FileInv'
  BY <1>2, <1>4, FileOfReturned
<1>5. ASSUME NEW e, e.pc # "write", e.code # "ok", exporter' = [exporter EXCEPT ![x] = e] PROVE FileInv'
  BY <1>2, <1>5, FileNotTouched
<1>6. PICK e : e = exporter[x]
  OBVIOUS
<1>7. DOMAIN e = CallFields /\ e.code # "ok" /\ e.pc # "write"
  BY <1>1, <1>2, <1>3, <1>6 DEF CallOK
<1>8. ASSUME NEW ask, ExportBegins(x, ask) PROVE FileInv'
  <2>1. CASE \E code : code # "ok" /\ Returned(x, code)
    BY <1>4, <2>1
  <2>2. CASE exporter' = [exporter EXCEPT ![x].ask = {ask}, ![x].pc = "branches"]
    <3>1. PICK g : g = [e EXCEPT !.ask = {ask}, !.pc = "branches"]
      OBVIOUS
    <3>2. g.pc = "branches" /\ g.code = e.code
      BY <1>7, <3>1 DEF CallFields
    <3>3. exporter' = [exporter EXCEPT ![x] = g]
      BY <1>6, <2>2, <3>1 DEF CallFile, CallsInv
    <3> QED
      BY <1>5, <1>7, <3>2, <3>3
  <2> QED
    BY <1>8, <2>1, <2>2 DEF ExportBegins
<1>9. CASE read_branches(x)
  <2>1. CASE Returned(x, "branch_limit")
    BY <1>4, <2>1
  <2>2. ASSUME NEW list, exporter' = [exporter EXCEPT ![x].pc = "events", ![x].branches = list]
        PROVE  FileInv'
    <3>1. PICK g : g = [e EXCEPT !.pc = "events", !.branches = list]
      OBVIOUS
    <3>2. g.pc = "events" /\ g.code = e.code
      BY <1>7, <3>1 DEF CallFields
    <3>3. exporter' = [exporter EXCEPT ![x] = g]
      BY <1>6, <2>2, <3>1 DEF CallFile, CallsInv
    <3> QED
      BY <1>5, <1>7, <3>2, <3>3
  <2> QED
    BY <1>9, <2>1, <2>2 DEF read_branches
<1>10. CASE ExportBranch(x)
  <2>1. CASE \E code : code # "ok" /\ Returned(x, code)
    BY <1>4, <2>1
  <2>2. ASSUME NEW record, exporter' = [exporter EXCEPT ![x].records = Append(@, record)]
        PROVE  FileInv'
    <3>1. PICK recs : recs = Append(e.records, record)
      OBVIOUS
    <3>2. PICK g : g = [e EXCEPT !.records = recs]
      OBVIOUS
    <3>3. g.pc = e.pc /\ g.code = e.code
      BY <1>7, <3>2 DEF CallFields
    <3>4. exporter' = [exporter EXCEPT ![x] = g]
      BY <1>6, <2>2, <3>1, <3>2
    <3> QED
      BY <1>5, <1>7, <3>3, <3>4
  <2>3. \/ Returned(x, "invalid_lineage")
        \/ \E code : code # "ok" /\ Returned(x, code)
        \/ \E record : exporter' = [exporter EXCEPT ![x].records = Append(@, record)]
    BY <1>10 DEF ExportBranch
  <2> QED
    BY <1>4, <2>1, <2>2, <2>3
<1>11. CASE OutputExists(x)
  <2>1. CASE Returned(x, "output_exists")
    BY <1>4, <2>1
  <2>2. CASE exporter' = [exporter EXCEPT ![x].pc = "create"]
    <3>1. PICK g : g = [e EXCEPT !.pc = "create"]
      OBVIOUS
    <3>2. g.pc = "create" /\ g.code = e.code
      BY <1>7, <3>1 DEF CallFields
    <3>3. exporter' = [exporter EXCEPT ![x] = g]
      BY <1>6, <2>2, <3>1
    <3> QED
      BY <1>5, <1>7, <3>2, <3>3
  <2> QED
    BY <1>11, <2>1, <2>2 DEF OutputExists
<1> QED
  BY <1>8, <1>9, <1>10, <1>11

LEMMA FileOfWriting ==
  ASSUME CallFile, NEW x \in Callers,
         CreateOutput(x) \/ WriteLines(x) \/ WriteFails(x) \/ ExporterDies(x)
  PROVE  FileInv'
<1>1. DOMAIN exporter = Callers
      /\ DOMAIN exporter[x] = CallFields /\ (exporter[x].code = "ok" => exporter[x].pc = "returned")
  BY DEF CallFile, CallsInv, CallOK, FileInv
<1>2. CASE CreateOutput(x)
  <2>1. exporter[x].pc = "create" /\ exporter[x].code # "ok"
    BY <1>1, <1>2 DEF CreateOutput
  <2>2. CASE Returned(x, "output") /\ UNCHANGED file
    BY <2>1, <2>2, FileOfReturned
  <2>3. CASE /\ file = {} /\ file' = {[by |-> x, whole |-> FALSE]}
             /\ exporter' = [exporter EXCEPT ![x].pc = "write"]
    <3>1. \A y \in Callers : exporter[y].code # "ok" /\ exporter[y].pc # "write"
      BY <2>3 DEF CallFile, FileInv
    <3>2. /\ exporter'[x].pc = "write" /\ exporter'[x].code = exporter[x].code
          /\ \A y \in Callers : y # x => exporter'[y] = exporter[y]
      BY <1>1, <2>3 DEF CallFields
    <3>3. \A f \in file' : f.by = x
      BY <2>3
    <3> QED
      BY <2>1, <2>3, <3>1, <3>2, <3>3 DEF FileInv
  <2> QED
    BY <1>2, <2>2, <2>3 DEF CreateOutput
<1>3. ASSUME NEW e, exporter' = [exporter EXCEPT ![x] = e]
      PROVE  exporter'[x] = e /\ \A y \in Callers : y # x => exporter'[y] = exporter[y]
  BY <1>1, <1>3
<1>4. ASSUME exporter[x].pc = "write", NEW y \in Callers, y # x
      PROVE  exporter[y].code # "ok" /\ exporter[y].pc # "write"
  <2>1. file = {[by |-> x, whole |-> FALSE]}
    BY <1>4 DEF CallFile, FileInv
  <2>2. \A w \in BOOLEAN : file # {[by |-> y, whole |-> w]}
    <3> SUFFICES ASSUME NEW w \in BOOLEAN, file = {[by |-> y, whole |-> w]} PROVE FALSE
      OBVIOUS
    <3>1. [by |-> x, whole |-> FALSE] = [by |-> y, whole |-> w]
      BY <2>1
    <3>2. [by |-> x, whole |-> FALSE].by = [by |-> y, whole |-> w].by
      BY <3>1
    <3> QED
      BY <1>4, <3>2
  <2> QED
    BY <2>2 DEF CallFile, FileInv
<1>5. CASE WriteLines(x)
  <2>1. PICK e : e = [NotAsked EXCEPT !.pc = "returned", !.code = "ok"]
    OBVIOUS
  <2>2. e.pc = "returned" /\ e.code = "ok"
    BY <2>1 DEF NotAsked
  <2>3. exporter' = [exporter EXCEPT ![x] = e] /\ file' = {[by |-> x, whole |-> TRUE]}
    BY <1>5, <2>1 DEF WriteLines, Returned
  <2>4. \A f \in file' : f.by = x
    BY <2>3
  <2>5. exporter[x].pc = "write"
    BY <1>5 DEF WriteLines
  <2> QED
    BY <1>3, <1>4, <2>2, <2>3, <2>4, <2>5, ZenonT(60) DEF FileInv
<1>6. CASE WriteFails(x)
  <2>1. PICK e : e = [NotAsked EXCEPT !.pc = "returned", !.code = "io"]
    OBVIOUS
  <2>2. e.pc = "returned" /\ e.code = "io"
    BY <2>1 DEF NotAsked
  <2>3. exporter' = [exporter EXCEPT ![x] = e] /\ file' = {} /\ exporter[x].pc = "write"
    BY <1>6, <2>1 DEF WriteFails, Returned
  <2> QED
    BY <1>3, <1>4, <2>2, <2>3 DEF FileInv
<1>7. CASE ExporterDies(x)
  <2>1. PICK e : e = [NotAsked EXCEPT !.pc = "dead"]
    OBVIOUS
  <2>2. e.pc = "dead" /\ e.code = "none"
    BY <2>1 DEF NotAsked
  <2>3. exporter' = [exporter EXCEPT ![x] = e] /\ UNCHANGED file
    BY <1>7, <2>1 DEF ExporterDies
  <2>4. /\ exporter'[x] = e
        /\ \A y \in Callers : y # x => exporter'[y] = exporter[y]
    BY <1>3, <2>3
  <2> QED
    BY <2>2, <2>3, <2>4 DEF CallFile, FileInv
<1> QED
  BY <1>2, <1>5, <1>6, <1>7

\* Only the file of an exporter that died is taken away.
LEMMA FileRemoved ==
  ASSUME CallFile, RemoveOutput
  PROVE  FileInv'
<1>1. PICK f \in file : exporter[f.by].pc = "dead"
  BY DEF RemoveOutput
<1>2. file' = {} /\ exporter' = exporter
  BY DEF RemoveOutput
<1>3. \A x \in Callers : exporter[x].code # "ok" /\ exporter[x].pc # "write"
  <2> SUFFICES ASSUME NEW x \in Callers, exporter[x].code = "ok" \/ exporter[x].pc = "write" PROVE FALSE
    OBVIOUS
  <2>1. exporter[x].pc # "dead"
    BY DEF CallFile, FileInv
  <2>2. f.by = x
    BY <1>1 DEF CallFile, FileInv
  <2> QED
    BY <1>1, <2>1, <2>2
<1> QED
  BY <1>2, <1>3 DEF FileInv

LEMMA FileNext ==
  ASSUME CallFile, ExportNext
  PROVE  FileInv'
<1>0. ASSUME UNCHANGED <<file, exporter>> PROVE FileInv'
  BY <1>0 DEF CallFile, FileInv
<1>1. ASSUME NEW which, NEW status, Records(which, status) PROVE UNCHANGED <<file, exporter>>
  BY <1>1 DEF Records
<1>2. ASSUME RunStarts \/ AgentCompletes \/ SupervisionFails \/ mark_terminal \/ record_activation
      PROVE  UNCHANGED <<file, exporter>>
  BY <1>1, <1>2 DEF RunStarts, AgentCompletes, SupervisionFails, mark_terminal, record_activation
<1>3. ASSUME NEW ok, ProcessStderr(ok) \/ ProcessExited(ok) PROVE UNCHANGED <<file, exporter>>
  BY <1>1, <1>3 DEF ProcessStderr, ProcessExited
<1>4. ASSUME NEW which, AgentRecords(which) PROVE UNCHANGED <<file, exporter>>
  BY <1>1, <1>4 DEF AgentRecords
<1>5. ASSUME NEW b, NEW epoch, NEW created, Suspend(b) \/ Fork(b, epoch, created)
      PROVE  UNCHANGED <<file, exporter>>
  BY <1>5 DEF Suspend, Fork
<1>6. ASSUME NEW x \in Callers, NEW ask, ExportBegins(x, ask) \/ read_branches(x) \/ ExportBranch(x)
      PROVE  FileInv'
  BY <1>6, FileOfReading
<1>7. ASSUME NEW x \in Callers, \/ OutputExists(x) \/ CreateOutput(x)
                                 \/ WriteLines(x) \/ WriteFails(x) \/ ExporterDies(x)
      PROVE  FileInv'
  BY <1>7, FileOfReading, FileOfWriting
<1>8. Exporters \subseteq Callers
  BY DEF Callers
<1> QED
  BY <1>0, <1>2, <1>3, <1>4, <1>5, <1>6, <1>7, <1>8, FileRemoved DEF ExportNext, Callers

\* Of any exporters racing for one file, one that reports success finds its own whole
\* export there, because write_jsonl_new creates the file only if there is none.
THEOREM OutputSurvivesRaces == ExportSpec => []OutputIsWhole
<1>1. ExportInit => FileInv
  BY DEF ExportInit, FileInv, Callers, NotAsked
<1>2. ExportInv /\ FileInv /\ [ExportNext]_export_vars => FileInv'
  <2>1. ASSUME ExportInv, FileInv, UNCHANGED export_vars PROVE FileInv'
    BY <2>1 DEF export_vars, FileInv
  <2>2. ASSUME ExportInv, FileInv, ExportNext PROVE FileInv'
    BY <2>2, FileNext DEF ExportInv, CallFile
  <2> QED
    BY <2>1, <2>2
<1>3. ExportInv /\ FileInv => OutputIsWhole
  <2> SUFFICES ASSUME ExportInv, FileInv PROVE OutputIsWhole
    OBVIOUS
  <2>1. DOMAIN exporter = Callers
    BY DEF ExportInv, CallsInv
  <2> QED
    BY <2>1 DEF FileInv, OutputIsWhole
<1> QED
  BY <1>1, <1>2, <1>3, ExportInvariance, PTL DEF ExportSpec

=============================================================================
