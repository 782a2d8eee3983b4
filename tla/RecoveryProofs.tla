---------------------------- MODULE RecoveryProofs ----------------------------
(***************************************************************************)
(* Proofs about checkpoints, restores and forks (Recovery), for every      *)
(* number of calling processes, calls, forks and targets and every script  *)
(* of the run.                                                             *)
(*                                                                         *)
(* The argument: once the run has recorded its stderr nothing that a       *)
(* checkpoint or a replay reads is ever recorded again, so what one call   *)
(* read stays what every later call reads, whenever the calls overlap.     *)
(***************************************************************************)
EXTENDS Recovery, FiniteSetTheorems, WellFoundedInduction, TLAPS

Activation == "application.context_restored"

\* The stderr of the run is on record.
Sealed == OfKind(Root, {"process.stderr"}) # {}

\* The artifact of the context that the finished journal names.
Captured(art) ==
    /\ Sealed
    /\ validate_capture(Root, LastOf(Root, "process.stderr").data)
    /\ art = ArtifactOf(LastOf(Root, "process.stderr").data.ctx)

\* The journal of the root is a prefix of the run's script and activations
\* that took place; no other branch has a journal of its own.
JournalInv ==
    /\ script \in Scripts /\ DOMAIN tree = Targets /\ Root \in DOMAIN journal
    /\ DOMAIN branches = DOMAIN journal /\ DOMAIN caps = DOMAIN journal
    /\ DOMAIN effs = DOMAIN journal
    /\ \A b \in DOMAIN journal :
        /\ b # Root => journal[b] = <<>>
        /\ caps[b] \in Nat /\ effs[b] \in Nat
    /\ journal[Root] \in Seq(Range(journal[Root]))
    /\ \A i \in DOMAIN journal[Root] :
        \/ i \in DOMAIN script.events /\ journal[Root][i] = script.events[i]
        \/ /\ journal[Root][i].kind = Activation
           /\ journal[Root][i].data.epoch \in DOMAIN epochs
           /\ journal[Root][i].data.target \in Targets
           /\ tree[journal[Root][i].data.target] = {epochs[journal[Root][i].data.epoch].ws}

\* The media types that the blobs table has for an epoch's components.
Registered(row) ==
    /\ row.art.blob \in DOMAIN registry /\ registry[row.art.blob] = ContextMedia
    /\ WorkspaceBlob(row.ws) \in DOMAIN registry
    /\ registry[WorkspaceBlob(row.ws)] = ManifestMedia

\* The frontier f is one the branch had.
Passed(f) ==
    /\ f.cap \in Nat /\ f.eff \in Nat
    /\ f.cap <= caps[Root] /\ f.eff <= effs[Root]

\* The epochs are the root's, numbered in the order of their commits.
EpochInv ==
    /\ epochs \in Seq(Range(epochs))
    /\ epochs # <<>> => session = "completed"
    /\ \A e \in DOMAIN epochs :
        /\ epochs[e].branch = Root /\ epochs[e].seq = e - 1 /\ epochs[e].parent = e - 1
        /\ Captured(epochs[e].art) /\ Registered(epochs[e]) /\ Passed(epochs[e].frontier)
    /\ \A d, e \in DOMAIN epochs : d < e =>
        /\ epochs[d].frontier.cap <= epochs[e].frontier.cap
        /\ epochs[d].frontier.eff <= epochs[e].frontier.eff

Columns == {"state", "name", "parent", "epoch", "point", "component"}

\* A fork's row and the report its creator got agree with the epoch.
ForkInv ==
    \A b \in DOMAIN branches :
        /\ DOMAIN branches[b] = Columns
        /\ b = Root => branches[b].epoch = 0
        /\ b # Root => /\ branches[b].epoch \in DOMAIN epochs /\ LineageMatches(branches[b])
                       /\ b \in DOMAIN forked /\ forked[b] = replay_report(branches[b].epoch)

\* The locals of a call hold what the call read.
Local(l) ==
    /\ l.pc = "capture" => l.branch \in DOMAIN branches
    /\ l.pc \in {"snapshot", "persist"} => l.branch = Root /\ Captured(l.art)
    /\ l.pc \in {"publish", "record", "fork"} => l.epoch \in DOMAIN epochs
    /\ l.pc \in {"publish", "record"} =>
           l.target \in Targets /\ DOMAIN l = {"pc", "code", "epoch", "target"}
    /\ l.pc = "record" => tree[l.target] = {epochs[l.epoch].ws}
    /\ l.pc = "fork" => l.replay = replay_report(l.epoch)

ProcInv == DOMAIN proc = Procs /\ \A p \in Procs : Local(proc[p])

RecoveryInv == JournalInv /\ EpochInv /\ ForkInv /\ ProcInv

-----------------------------------------------------------------------------
(* What stays. *)

\* Once stderr is on record, nothing that is read later is recorded again.
ReadingStays ==
    Sealed => /\ \A k \in Reading : OfKind(Root, {k})' = OfKind(Root, {k})
              /\ \A i \in DOMAIN journal[Root] : journal'[Root][i] = journal[Root][i]

EpochsStay == \A e \in DOMAIN epochs : e \in DOMAIN epochs' /\ epochs'[e] = epochs[e]
TreesStay == \A t \in Targets : tree[t] # {} => tree'[t] = tree[t]

\* Appending to a sequence.
LEMMA AppendIsSequence ==
  ASSUME NEW s, s \in Seq(Range(s)), NEW x
  PROVE  /\ Append(s, x) \in Seq(Range(Append(s, x))) /\ Len(s) \in Nat
         /\ DOMAIN s = 1..Len(s) /\ DOMAIN Append(s, x) = 1..(Len(s) + 1)
         /\ \A i \in DOMAIN s : Append(s, x)[i] = s[i]
         /\ Append(s, x)[Len(s) + 1] = x
<1> DEFINE T == Range(s) \cup {x}
           t == Append(s, x)
<1>1. s \in Seq(T)
  OBVIOUS
<1>2. /\ t \in Seq(T) /\ Len(s) \in Nat /\ DOMAIN s = 1..Len(s) /\ DOMAIN t = 1..(Len(s) + 1)
      /\ \A i \in DOMAIN s : t[i] = s[i]
      /\ t[Len(s) + 1] = x
  BY <1>1
<1>3. \A i \in DOMAIN t : t[i] \in Range(t)
  BY DEF Range
<1>4. t \in Seq(Range(t))
  <2> HIDE DEF t
  <2> QED
    BY <1>2, <1>3
<1> QED
  BY <1>2, <1>4

\* A set of positions that is not empty has a last one.
LEMMA LastPosition ==
  ASSUME NEW n \in Nat, NEW S \in SUBSET (1..n), S # {}
  PROVE  Max(S) \in S
<1> DEFINE T == {n - x : x \in S}
           R == OpToRel(<, Nat)
<1>0. \A x \in S : x \in Nat /\ n - x \in Nat
  OBVIOUS
<1>1. T \subseteq Nat /\ T # {}
  BY <1>0, Zenon
<1>2. IsWellFoundedOn(R, Nat)
  BY NatLessThanWellFounded, Zenon
<1>3. PICK t \in T : \A u \in T : ~(<<u, t>> \in R)
  <2> HIDE DEF R, T
  <2> QED
    BY <1>1, <1>2, WFMin
<1>4. \A u \in T : ~(u < t)
  BY <1>1, <1>3 DEF OpToRel
<1>5. PICK x \in S : t = n - x
  OBVIOUS
<1>6. ASSUME NEW y \in S PROVE x >= y
  <2>1. n - y \in T /\ x \in Nat /\ y \in Nat
    BY <1>0, Zenon
  <2>2. ~(n - y < n - x)
    BY <1>4, <1>5, <2>1
  <2> QED
    BY <2>1, <2>2
<1> QED
  BY <1>5, <1>6 DEF Max

\* What a checkpoint captured is still what the journal names.
LEMMA CapturedStays ==
  ASSUME JournalInv, ReadingStays, NEW art, Captured(art)
  PROVE  Captured(art)'
<1>1. PICK err, safe, upd, n : /\ err = OfKind(Root, {"process.stderr"})
                               /\ safe = OfKind(Root, {"safe_point"})
                               /\ upd = OfKind(Root, {"context.update"})
                               /\ n = Len(journal[Root])
  OBVIOUS
<1>2. /\ OfKind(Root, {"process.stderr"})' = err
      /\ OfKind(Root, {"safe_point"})' = safe
      /\ OfKind(Root, {"context.update"})' = upd
      /\ \A i \in DOMAIN journal[Root] : journal'[Root][i] = journal[Root][i]
  BY <1>1 DEF ReadingStays, Captured, Reading
<1>3. n \in Nat /\ DOMAIN journal[Root] = 1..n
  BY <1>1 DEF JournalInv
<1>4. err \subseteq 1..n /\ safe \subseteq 1..n /\ upd \subseteq 1..n /\ err # {}
  BY <1>1, <1>3 DEF OfKind, Captured, Sealed
<1>5. safe # {} /\ upd # {}
  BY <1>1 DEF Captured, validate_capture, validate_boundary
<1>6. Max(err) \in 1..n /\ Max(safe) \in 1..n /\ Max(upd) \in 1..n
  BY <1>3, <1>4, <1>5, LastPosition
<1>7. PICK e, s, u : /\ e = LastOf(Root, "process.stderr") /\ s = LastOf(Root, "safe_point")
                     /\ u = LastOf(Root, "context.update")
  OBVIOUS
<1>8. /\ LastOf(Root, "process.stderr")' = e /\ LastOf(Root, "safe_point")' = s
      /\ LastOf(Root, "context.update")' = u
  BY <1>1, <1>2, <1>3, <1>6, <1>7 DEF LastOf
<1>9. PICK sum : sum = e.data
  OBVIOUS
<1>10. validate_boundary(Root, sum.state) => validate_boundary(Root, sum.state)'
  BY <1>1, <1>2, <1>7, <1>8 DEF validate_boundary
<1>11. validate_capture(Root, sum) /\ art = ArtifactOf(sum.ctx)
  BY <1>7, <1>9 DEF Captured
<1>12. validate_capture(Root, sum)'
  BY <1>7, <1>8, <1>10, <1>11 DEF validate_capture
<1>13. Sealed'
  BY <1>2, <1>4 DEF Sealed
<1> QED
  BY <1>8, <1>9, <1>11, <1>12, <1>13 DEF Captured

\* A replay reads what it read before.
LEMMA ReplayStays ==
  ASSUME JournalInv, EpochInv, ReadingStays, EpochsStay, NEW e \in DOMAIN epochs
  PROVE  replay_report(e)' = replay_report(e)
<1>1. epochs[e].branch = Root /\ epochs'[e] = epochs[e] /\ Sealed
  BY DEF EpochInv, EpochsStay, Captured
<1>2. PICK m, t, n : /\ m = OfKind(Root, {"model.response"}) /\ t = OfKind(Root, {"tool.result"})
                     /\ n = epochs[e].art.boundary
  OBVIOUS
<1>3. /\ OfKind(Root, {"model.response"})' = m /\ OfKind(Root, {"tool.result"})' = t
      /\ \A i \in DOMAIN journal[Root] : journal'[Root][i] = journal[Root][i]
  BY <1>1, <1>2 DEF ReadingStays, Reading
<1>4. m \subseteq DOMAIN journal[Root] /\ t \subseteq DOMAIN journal[Root]
  BY <1>2 DEF OfKind
<1> DEFINE F(k) == {<<i, journal[Root][i]>> : i \in {j \in k : journal[Root][j].seq <= n}}
<1>5. F(m)' = F(m) /\ F(t)' = F(t)
  BY <1>3, <1>4
<1>6. replay_report(e) = [model |-> F(m), tool |-> F(t)]
  BY <1>1, <1>2 DEF replay_report
<1>7. replay_report(e)' = [model |-> F(m)', tool |-> F(t)']
  BY <1>1, <1>2, <1>3 DEF replay_report
<1> QED
  BY <1>5, <1>6, <1>7

\* The locals of the calls under way stay true when others take steps.
LEMMA LocalStays ==
  ASSUME JournalInv, EpochInv, ReadingStays, EpochsStay, TreesStay,
         DOMAIN branches \subseteq DOMAIN branches', NEW l, Local(l)
  PROVE  Local(l)'
<1>1. l.pc \in {"snapshot", "persist"} => Captured(l.art)'
  BY CapturedStays DEF Local
<1>2. l.pc \in {"publish", "record", "fork"} =>
          l.epoch \in DOMAIN epochs /\ l.epoch \in DOMAIN epochs' /\ epochs'[l.epoch] = epochs[l.epoch]
  BY DEF Local, EpochsStay
<1>3. l.pc = "fork" => l.replay = replay_report(l.epoch)'
  BY <1>2, ReplayStays DEF Local
<1>4. l.pc = "record" => tree'[l.target] = {epochs'[l.epoch].ws}
  BY <1>2 DEF Local, TreesStay
<1> QED
  BY <1>1, <1>2, <1>3, <1>4 DEF Local

-----------------------------------------------------------------------------
(* Steps around the calls. *)

\* The root's rows when nothing about its branch, journal or epochs changes.
LEMMA RowsStay ==
  ASSUME JournalInv, EpochInv, ForkInv, ReadingStays, EpochsStay,
         UNCHANGED <<branches, forked>>
  PROVE  ForkInv'
<1>1. ASSUME NEW b \in DOMAIN branches', b # Root
      PROVE  /\ branches'[b].epoch \in DOMAIN epochs' /\ LineageMatches(branches[b])'
             /\ b \in DOMAIN forked' /\ forked'[b] = replay_report(branches[b].epoch)'
  <2>1. PICK row : row = branches[b]
    OBVIOUS
  <2>2. /\ row.epoch \in DOMAIN epochs /\ LineageMatches(row)
        /\ b \in DOMAIN forked /\ forked[b] = replay_report(row.epoch)
    BY <1>1, <2>1 DEF ForkInv
  <2>3. row.epoch \in DOMAIN epochs' /\ epochs'[row.epoch] = epochs[row.epoch]
    BY <2>2 DEF EpochsStay
  <2>4. replay_report(row.epoch)' = replay_report(row.epoch)
    BY <2>2, ReplayStays
  <2>5. LineageMatches(row)'
    BY <2>2, <2>3 DEF LineageMatches
  <2> QED
    BY <2>1, <2>2, <2>3, <2>4, <2>5
<1> QED
  BY <1>1 DEF ForkInv

\* A step of the calls, p's locals aside: everything else is unchanged.
LEMMA OnlyLocals ==
  ASSUME RecoveryInv, NEW p \in Procs, NEW l, Local(l), proc' = [proc EXCEPT ![p] = l],
         UNCHANGED <<script, session, branches, journal, registry, epochs, caps, effs, tree, forked>>
  PROVE  RecoveryInv'
<1>1. ReadingStays /\ EpochsStay /\ TreesStay
  BY DEF ReadingStays, EpochsStay, TreesStay, OfKind
<1>2. JournalInv'
  BY DEF RecoveryInv, JournalInv
<1>3. \A art : Captured(art) => Captured(art)'
  BY <1>1, CapturedStays DEF RecoveryInv
<1>4. EpochInv'
  BY <1>3 DEF RecoveryInv, EpochInv, Registered, Passed
<1>5. ForkInv'
  BY <1>1, RowsStay DEF RecoveryInv
<1>6. ASSUME NEW q \in Procs PROVE Local(proc[q])'
  <2>1. PICK k : k = proc'[q]
    OBVIOUS
  <2>2. Local(k)
    BY <2>1 DEF RecoveryInv, ProcInv
  <2>3. Local(k)'
    BY <1>1, <2>2, LocalStays DEF RecoveryInv
  <2> QED
    BY <2>1, <2>3
<1>7. ProcInv'
  BY <1>6 DEF RecoveryInv, ProcInv
<1> QED
  BY <1>2, <1>4, <1>5, <1>7 DEF RecoveryInv

\* The run records an event of its script: past stderr nothing that is read.
LEMMA RunRecordsKeeps ==
  ASSUME RecoveryInv, RunRecords
  PROVE  RecoveryInv'
<1>1. PICK n, j, ev : n = Len(journal[Root]) /\ j = journal[Root] /\ ev = script.events[n + 1]
  OBVIOUS
<1>2. /\ session = "running" /\ n < Len(script.events)
      /\ journal' = [journal EXCEPT ![Root] = Append(j, ev)]
      /\ UNCHANGED <<script, registry, epochs, tree, proc, forked, session, branches, caps, effs>>
  BY <1>1 DEF RunRecords, Quiet
<1>3. epochs = <<>>
  BY <1>2 DEF RecoveryInv, EpochInv
<1>4. /\ j \in Seq(Range(j)) /\ script.events \in Seq(Range(script.events))
      /\ n \in Nat /\ DOMAIN j = 1..n /\ Len(script.events) \in Nat
      /\ DOMAIN script.events = 1..Len(script.events)
  BY <1>1, ScriptsAssumption DEF RecoveryInv, JournalInv
<1>5. n + 1 \in DOMAIN script.events
  BY <1>2, <1>4
<1>6. /\ Append(j, ev) \in Seq(Range(Append(j, ev))) /\ DOMAIN Append(j, ev) = 1..(n + 1)
      /\ \A i \in 1..n : Append(j, ev)[i] = j[i]
      /\ Append(j, ev)[n + 1] = ev
  BY <1>1, <1>4, AppendIsSequence
<1>7. \A i \in DOMAIN j : i \in DOMAIN script.events /\ j[i] = script.events[i]
  BY <1>1, <1>3 DEF RecoveryInv, JournalInv
<1>8. journal'[Root] = Append(j, ev) /\ DOMAIN journal' = DOMAIN journal
      /\ \A b \in DOMAIN journal \ {Root} : journal'[b] = journal[b]
  BY <1>2 DEF RecoveryInv, JournalInv
<1>9. JournalInv'
  <2>1. /\ script' \in Scripts /\ DOMAIN tree' = Targets /\ Root \in DOMAIN journal'
        /\ DOMAIN branches' = DOMAIN journal' /\ DOMAIN caps' = DOMAIN journal'
        /\ DOMAIN effs' = DOMAIN journal'
    BY <1>2, <1>8 DEF RecoveryInv, JournalInv
  <2>2. \A b \in DOMAIN journal' :
          /\ b # Root => journal'[b] = <<>>
          /\ caps'[b] \in Nat /\ effs'[b] \in Nat
    BY <1>2, <1>8 DEF RecoveryInv, JournalInv
  <2>3. journal'[Root] \in Seq(Range(journal'[Root])) /\ DOMAIN journal'[Root] = 1..(n + 1)
    BY <1>6, <1>8
  <2>4. \A i \in 1..(n + 1) : i \in 1..n \/ i = n + 1
    BY <1>4
  <2>5. \A i \in 1..n : i \in DOMAIN script.events /\ journal'[Root][i] = script.events[i]
    BY <1>4, <1>6, <1>7, <1>8
  <2>6. journal'[Root][n + 1] = script.events[n + 1]
    BY <1>1, <1>6, <1>8
  <2>7. \A i \in DOMAIN journal'[Root] :
          i \in DOMAIN script.events /\ journal'[Root][i] = script.events[i]
    BY <1>5, <2>3, <2>4, <2>5, <2>6
  <2> QED
    BY <1>2, <2>1, <2>2, <2>3, <2>7 DEF JournalInv
<1>10. ReadingStays
  <2> SUFFICES ASSUME Sealed
               PROVE  /\ \A k \in Reading : OfKind(Root, {k})' = OfKind(Root, {k})
                      /\ \A i \in DOMAIN journal[Root] : journal'[Root][i] = journal[Root][i]
    BY DEF ReadingStays
  <2>1. PICK i \in 1..n : j[i].kind = "process.stderr"
    BY <1>1, <1>4 DEF Sealed, OfKind
  <2>2. ev.kind \notin Reading
    <3>1. i \in DOMAIN script.events /\ script.events[i].kind = "process.stderr" /\ i < n + 1
      BY <1>4, <1>7, <2>1
    <3>2. script \in Scripts
      BY DEF RecoveryInv, JournalInv
    <3> QED
      BY <1>1, <1>5, <3>1, <3>2, ScriptsAssumption
  <2>3. ASSUME NEW k \in Reading PROVE OfKind(Root, {k})' = OfKind(Root, {k})
    BY <1>1, <1>4, <1>6, <1>8, <2>2 DEF OfKind
  <2> QED
    BY <1>1, <1>4, <1>6, <1>8, <2>3
<1>11. EpochsStay /\ TreesStay
  BY <1>2 DEF EpochsStay, TreesStay
<1>12. EpochInv'
  BY <1>2, <1>3 DEF RecoveryInv, EpochInv
<1>13. ForkInv'
  BY <1>2, <1>10, <1>11, RowsStay DEF RecoveryInv
<1>14. ASSUME NEW q \in Procs PROVE Local(proc[q])'
  <2>1. PICK k : k = proc[q]
    OBVIOUS
  <2>2. Local(k)'
    BY <1>2, <1>10, <1>11, <2>1, LocalStays DEF RecoveryInv, ProcInv
  <2> QED
    BY <1>2, <2>1, <2>2
<1>15. ProcInv'
  BY <1>2, <1>14 DEF RecoveryInv, ProcInv
<1> QED
  BY <1>9, <1>12, <1>13, <1>15 DEF RecoveryInv

\* Rows that differ in their state at most.
SameLineage(row, new) ==
    /\ DOMAIN new = Columns
    /\ new.epoch = row.epoch /\ new.parent = row.parent
    /\ new.point = row.point /\ new.component = row.component

\* Steps that move states of branches and security frontiers only.
LEMMA StatesMove ==
  ASSUME RecoveryInv, UNCHANGED <<script, journal, registry, epochs, tree, proc, forked>>,
         session = "completed" => session' = "completed",
         DOMAIN branches' = DOMAIN branches,
         \A b \in DOMAIN branches : SameLineage(branches[b], branches'[b]),
         DOMAIN caps' = DOMAIN caps /\ DOMAIN effs' = DOMAIN effs,
         \A b \in DOMAIN caps : /\ caps'[b] \in Nat /\ caps'[b] >= caps[b]
                                /\ effs'[b] \in Nat /\ effs'[b] >= effs[b]
  PROVE  RecoveryInv'
<1>1. ReadingStays /\ EpochsStay /\ TreesStay
  BY DEF ReadingStays, EpochsStay, TreesStay, OfKind
<1>2. JournalInv'
  BY DEF RecoveryInv, JournalInv
<1>3. \A art : Captured(art) => Captured(art)'
  BY <1>1, CapturedStays DEF RecoveryInv
<1>4. \A f : Passed(f) => Passed(f)'
  BY DEF RecoveryInv, JournalInv, Passed
<1>5. EpochInv'
  <2>1. ASSUME NEW e \in DOMAIN epochs
        PROVE  /\ epochs'[e].branch = Root /\ epochs'[e].seq = e - 1 /\ epochs'[e].parent = e - 1
               /\ Captured(epochs[e].art)' /\ Registered(epochs[e])' /\ Passed(epochs[e].frontier)'
    BY <1>3, <1>4 DEF RecoveryInv, EpochInv, Registered
  <2> QED
    BY <2>1 DEF RecoveryInv, EpochInv
<1>6. ForkInv'
  <2>1. ASSUME NEW b \in DOMAIN branches', b # Root
        PROVE  /\ branches'[b].epoch \in DOMAIN epochs' /\ LineageMatches(branches[b])'
               /\ b \in DOMAIN forked' /\ forked'[b] = replay_report(branches[b].epoch)'
    <3>1. PICK row, new : row = branches[b] /\ new = branches'[b]
      OBVIOUS
    <3>2. /\ row.epoch \in DOMAIN epochs /\ LineageMatches(row)
          /\ b \in DOMAIN forked /\ forked[b] = replay_report(row.epoch)
      BY <2>1, <3>1 DEF RecoveryInv, ForkInv
    <3>3. SameLineage(row, new)
      BY <3>1
    <3>4. replay_report(new.epoch)' = replay_report(row.epoch)
      BY <1>1, <3>2, <3>3, ReplayStays DEF RecoveryInv, SameLineage
    <3>5. LineageMatches(new)'
      BY <3>2, <3>3 DEF LineageMatches, SameLineage
    <3> QED
      BY <3>1, <3>2, <3>3, <3>4, <3>5 DEF SameLineage
  <2> QED
    BY <2>1 DEF RecoveryInv, ForkInv, SameLineage
<1>7. ASSUME NEW q \in Procs PROVE Local(proc[q])'
  <2>1. PICK k : k = proc[q]
    OBVIOUS
  <2>2. Local(k)'
    BY <1>1, <2>1, LocalStays DEF RecoveryInv, ProcInv
  <2> QED
    BY <2>1, <2>2
<1>8. ProcInv'
  BY <1>7 DEF RecoveryInv, ProcInv
<1> QED
  BY <1>2, <1>5, <1>6, <1>8 DEF RecoveryInv

\* The run, the agent and the disk outside the calls.
LEMMA AroundKeeps ==
  ASSUME RecoveryInv,
         \/ RunEnds \/ EditWorkspace
         \/ \E b \in DOMAIN branches : SecurityStep(b) \/ SuspendBranch(b)
         \/ \E h \in DOMAIN disk : LoseBlob(h)
  PROVE  RecoveryInv'
<1>1. /\ DOMAIN caps = DOMAIN branches /\ DOMAIN effs = DOMAIN branches /\ Root \in DOMAIN branches
      /\ \A b \in DOMAIN branches : caps[b] \in Nat /\ effs[b] \in Nat /\ DOMAIN branches[b] = Columns
  BY DEF RecoveryInv, JournalInv, ForkInv
<1>2. \A b \in DOMAIN branches : SameLineage(branches[b], branches[b])
  BY <1>1 DEF SameLineage
<1>3. ASSUME NEW b \in DOMAIN branches, NEW state,
             branches' = [branches EXCEPT ![b].state = state]
      PROVE  /\ DOMAIN branches' = DOMAIN branches
             /\ \A c \in DOMAIN branches : SameLineage(branches[c], branches'[c])
  <2>1. PICK row, new : row = branches[b] /\ new = [row EXCEPT !.state = state]
    OBVIOUS
  <2>2. SameLineage(row, new)
    BY <1>1, <2>1 DEF SameLineage, Columns
  <2>3. branches' = [branches EXCEPT ![b] = new]
    BY <1>3, <2>1
  <2> QED
    BY <1>2, <2>1, <2>2, <2>3
<1>4. ASSUME RunEnds PROVE RecoveryInv'
  <2>1. session # "completed"
    BY <1>4 DEF RunEnds
  <2>2. /\ DOMAIN branches' = DOMAIN branches
        /\ \A c \in DOMAIN branches : SameLineage(branches[c], branches'[c])
    BY <1>1, <1>3, <1>4 DEF RunEnds
  <2> QED
    BY <1>1, <1>4, <2>1, <2>2, StatesMove DEF RunEnds, Quiet
<1>5. ASSUME EditWorkspace \/ \E h \in DOMAIN disk : LoseBlob(h) PROVE RecoveryInv'
  <2>1. UNCHANGED <<script, journal, registry, epochs, tree, proc, forked, session, branches,
                    caps, effs>>
    BY <1>5 DEF EditWorkspace, LoseBlob, Quiet
  <2>2. \A b \in DOMAIN caps : caps'[b] \in Nat /\ caps'[b] >= caps[b]
                             /\ effs'[b] \in Nat /\ effs'[b] >= effs[b]
    BY <1>1, <2>1
  <2>3. \A b \in DOMAIN branches : SameLineage(branches[b], branches'[b])
    BY <1>2, <2>1
  <2> QED
    BY <2>1, <2>2, <2>3, StatesMove
<1>6. ASSUME NEW b \in DOMAIN branches, SecurityStep(b) PROVE RecoveryInv'
  <2>1. /\ DOMAIN caps' = DOMAIN caps /\ DOMAIN effs' = DOMAIN effs
        /\ \A c \in DOMAIN caps : /\ caps'[c] \in Nat /\ caps'[c] >= caps[c]
                                  /\ effs'[c] \in Nat /\ effs'[c] >= effs[c]
    BY <1>1, <1>6 DEF SecurityStep
  <2> QED
    BY <1>2, <1>6, <2>1, StatesMove DEF SecurityStep, Quiet
<1>7. ASSUME NEW b \in DOMAIN branches, SuspendBranch(b) PROVE RecoveryInv'
  <2>1. /\ DOMAIN caps' = DOMAIN caps /\ DOMAIN effs' = DOMAIN effs
        /\ \A c \in DOMAIN caps : /\ caps'[c] \in Nat /\ caps'[c] >= caps[c]
                                  /\ effs'[c] \in Nat /\ effs'[c] >= effs[c]
    BY <1>1, <1>7 DEF SuspendBranch
  <2>2. /\ DOMAIN branches' = DOMAIN branches
        /\ \A c \in DOMAIN branches : SameLineage(branches[c], branches'[c])
    BY <1>3, <1>7 DEF SuspendBranch
  <2> QED
    BY <1>7, <2>1, <2>2, StatesMove DEF SuspendBranch, Quiet
<1> QED
  BY <1>4, <1>5, <1>6, <1>7

-----------------------------------------------------------------------------
(* The calls. *)

\* An answer leaves the process idle.
LEMMA AnswersKeep ==
  ASSUME RecoveryInv, NEW p \in Procs, NEW code, Answers(p, code),
         UNCHANGED <<script, session, branches, journal, registry, epochs, caps, effs, tree, forked>>
  PROVE  RecoveryInv'
<1>1. PICK l : l = [Idle EXCEPT !.code = code]
  OBVIOUS
<1>2. l.pc = "idle" /\ l.code = code
  BY <1>1 DEF Idle
<1>3. Local(l)
  BY <1>2 DEF Local
<1> QED
  BY <1>1, <1>3, OnlyLocals DEF Answers

\* checkpoint_application resolves the branch.
LEMMA CheckpointBeginsKeeps ==
  ASSUME RecoveryInv, NEW p \in Procs, NEW requested, CheckpointBegins(p, requested)
  PROVE  RecoveryInv'
<1>1. UNCHANGED <<script, session, branches, journal, registry, epochs, caps, effs, tree, forked>>
  BY DEF CheckpointBegins, Around
<1>2. PICK b : b = resolve_branch(requested)
  OBVIOUS
<1>3. CASE b = None
  <2>1. PICK code : code = IF requested = None THEN "branch_required" ELSE "not_found"
    OBVIOUS
  <2> QED
    BY <1>1, <1>2, <1>3, <2>1, AnswersKeep DEF CheckpointBegins
<1>4. CASE b # None
  <2>1. b \in DOMAIN branches
    BY <1>2, <1>4 DEF resolve_branch
  <2>2. PICK l : l = [pc |-> "capture", code |-> None, branch |-> b]
    OBVIOUS
  <2>3. l.pc = "capture" /\ l.code = None /\ l.branch = b
    BY <2>2
  <2>4. Local(l)
    BY <2>1, <2>3 DEF Local, None
  <2>5. proc' = [proc EXCEPT ![p] = l]
    BY <1>2, <1>4, <2>2 DEF CheckpointBegins
  <2> QED
    BY <1>1, <2>4, <2>5, OnlyLocals
<1> QED
  BY <1>3, <1>4

\* Only the root has a run to capture, and what is captured is final even if
\* the run is still going on.
LEMMA CapturesContextKeeps ==
  ASSUME RecoveryInv, NEW p \in Procs, CapturesContext(p)
  PROVE  RecoveryInv'
<1>1. UNCHANGED <<script, session, branches, journal, registry, epochs, caps, effs, tree, forked>>
  BY DEF CapturesContext, Around
<1>2. PICK b, ctx : b = proc[p].branch /\ ctx = LastOf(b, "process.stderr").data.ctx
  OBVIOUS
<1>3. CASE capture_w02_context(b) # "ok"
  BY <1>1, <1>2, <1>3, AnswersKeep DEF CapturesContext
<1>4. CASE capture_w02_context(b) = "ok" /\ capture(disk, ctx) # "ok"
  BY <1>1, <1>2, <1>4, AnswersKeep DEF CapturesContext
<1>5. CASE capture_w02_context(b) = "ok" /\ capture(disk, ctx) = "ok"
  <2>1. b \in DOMAIN journal
    BY <1>2 DEF CapturesContext, RecoveryInv, JournalInv, ProcInv, Local
  <2>2. OfKind(b, {"process.stderr"}) # {} /\ validate_capture(b, LastOf(b, "process.stderr").data)
    BY <1>5 DEF capture_w02_context
  <2>3. b = Root
    BY <2>1, <2>2 DEF OfKind, RecoveryInv, JournalInv
  <2>4. PICK art, seen : art = ArtifactOf(ctx) /\ seen = security_frontiers(b)
    OBVIOUS
  <2>5. Captured(art)
    BY <1>2, <2>2, <2>3, <2>4 DEF Captured, Sealed
  <2>6. PICK l : l = [pc |-> "snapshot", code |-> None, branch |-> b, art |-> art, seen |-> seen]
    OBVIOUS
  <2>7. l.pc = "snapshot" /\ l.code = None /\ l.branch = b /\ l.art = art
    BY <2>6
  <2>8. Local(l)
    BY <2>3, <2>5, <2>7 DEF Local, None
  <2>9. proc' = [proc EXCEPT ![p] = l]
    BY <1>2, <1>5, <2>4, <2>6 DEF CapturesContext
  <2> QED
    BY <1>1, <2>8, <2>9, OnlyLocals
<1> QED
  BY <1>3, <1>4, <1>5

\* The workspace snapshot.
LEMMA SnapshotsWorkspaceKeeps ==
  ASSUME RecoveryInv, NEW p \in Procs, NEW ok, SnapshotsWorkspace(p, ok)
  PROVE  RecoveryInv'
<1>1. UNCHANGED <<script, session, branches, journal, registry, epochs, caps, effs, tree, forked>>
  BY DEF SnapshotsWorkspace, Around
<1>2. PICK b, bad : /\ b = proc[p].branch
                    /\ bad = (WorkspaceBlob(ws) \in DOMAIN disk /\ disk[WorkspaceBlob(ws)] = "bad")
  OBVIOUS
<1>3. CASE declared_workspace(b) # "ok"
  BY <1>1, <1>2, <1>3, AnswersKeep DEF SnapshotsWorkspace
<1>4. CASE declared_workspace(b) = "ok" /\ (~ok \/ bad)
  BY <1>1, <1>2, <1>4, AnswersKeep DEF SnapshotsWorkspace
<1>5. CASE declared_workspace(b) = "ok" /\ ~(~ok \/ bad)
  <2>1. PICK art, seen, v : art = proc[p].art /\ seen = proc[p].seen /\ v = ws
    OBVIOUS
  <2>2. b = Root /\ Captured(art)
    BY <1>2, <2>1 DEF SnapshotsWorkspace, RecoveryInv, ProcInv, Local
  <2>3. PICK l : l = [pc |-> "persist", code |-> None, branch |-> b, art |-> art, seen |-> seen,
                      ws |-> v]
    OBVIOUS
  <2>4. l.pc = "persist" /\ l.code = None /\ l.branch = b /\ l.art = art
    BY <2>3
  <2>5. Local(l)
    BY <2>2, <2>4 DEF Local, None
  <2>6. proc' = [proc EXCEPT ![p] = l]
    BY <1>2, <1>5, <2>1, <2>3 DEF SnapshotsWorkspace
  <2> QED
    BY <1>1, <2>5, <2>6, OnlyLocals
<1> QED
  BY <1>3, <1>4, <1>5

\* An epoch that validates is a committed one.
LEMMA ValidatedIsCommitted ==
  ASSUME NEW e, validated_application_source(e) = "ok"
  PROVE  e \in DOMAIN epochs
BY DEF validated_application_source, load_epoch

\* restore_application validates its epoch.
LEMMA RestoreBeginsKeeps ==
  ASSUME RecoveryInv, NEW p \in Procs, NEW e, NEW activate, NEW t \in Targets \cup {None},
         RestoreBegins(p, e, activate, t)
  PROVE  RecoveryInv'
<1>1. UNCHANGED <<script, session, branches, journal, registry, epochs, caps, effs, tree, forked>>
  BY DEF RestoreBegins, Around
<1>2. PICK code : code = validated_application_source(e)
  OBVIOUS
<1>3. CASE code # "ok"
  BY <1>1, <1>2, <1>3, AnswersKeep DEF RestoreBegins
<1>4. CASE code = "ok" /\ (~activate \/ t = None)
  BY <1>1, <1>2, <1>4, AnswersKeep DEF RestoreBegins
<1>5. CASE code = "ok" /\ ~(~activate \/ t = None)
  <2>1. e \in DOMAIN epochs /\ t \in Targets
    BY <1>2, <1>5, ValidatedIsCommitted
  <2>2. PICK l : l = [pc |-> "publish", code |-> None, epoch |-> e, target |-> t]
    OBVIOUS
  <2>3. /\ l.pc = "publish" /\ l.code = None /\ l.epoch = e /\ l.target = t
        /\ DOMAIN l = {"pc", "code", "epoch", "target"}
    BY <2>2
  <2>4. Local(l)
    BY <2>1, <2>3 DEF Local, None
  <2>5. proc' = [proc EXCEPT ![p] = l]
    BY <1>2, <1>5, <2>2 DEF RestoreBegins
  <2> QED
    BY <1>1, <2>4, <2>5, OnlyLocals
<1> QED
  BY <1>3, <1>4, <1>5

\* fork_application_epoch validates its epoch and reads the replay.
LEMMA ForkBeginsKeeps ==
  ASSUME RecoveryInv, NEW p \in Procs, NEW e, NEW name, ForkBegins(p, e, name)
  PROVE  RecoveryInv'
<1>1. UNCHANGED <<script, session, branches, journal, registry, epochs, caps, effs, tree, forked>>
  BY DEF ForkBegins, Around
<1>2. PICK code : code = validated_application_source(e)
  OBVIOUS
<1>3. CASE ~valid_branch_name(name)
  BY <1>1, <1>3, AnswersKeep DEF ForkBegins
<1>4. CASE valid_branch_name(name) /\ code # "ok"
  BY <1>1, <1>2, <1>4, AnswersKeep DEF ForkBegins
<1>5. CASE valid_branch_name(name) /\ code = "ok"
  <2>1. e \in DOMAIN epochs
    BY <1>2, <1>5, ValidatedIsCommitted
  <2>2. PICK replay : replay = replay_report(e)
    OBVIOUS
  <2>3. PICK l : l = [pc |-> "fork", code |-> None, epoch |-> e, name |-> name, replay |-> replay]
    OBVIOUS
  <2>4. l.pc = "fork" /\ l.code = None /\ l.epoch = e /\ l.replay = replay
    BY <2>3
  <2>5. Local(l)
    BY <2>1, <2>2, <2>4 DEF Local, None
  <2>6. proc' = [proc EXCEPT ![p] = l]
    BY <1>2, <1>5, <2>2, <2>3 DEF ForkBegins
  <2> QED
    BY <1>1, <2>5, <2>6, OnlyLocals
<1> QED
  BY <1>3, <1>4, <1>5

\* A process that dies leaves what it had committed.
LEMMA DiesKeeps ==
  ASSUME RecoveryInv, NEW p \in Procs, Dies(p)
  PROVE  RecoveryInv'
BY AnswersKeep DEF Dies, Around

\* The calls under way when one of them takes a step that changes more.
LEMMA LocalsStay ==
  ASSUME RecoveryInv, NEW p \in Procs, NEW l, proc' = [proc EXCEPT ![p] = l], Local(l)',
         ReadingStays, EpochsStay, TreesStay, DOMAIN branches \subseteq DOMAIN branches'
  PROVE  ProcInv'
<1>1. ASSUME NEW q \in Procs PROVE Local(proc[q])'
  <2>1. PICK k : k = proc'[q]
    OBVIOUS
  <2>2. CASE q = p
    <3>1. k = l
      BY <2>1, <2>2 DEF RecoveryInv, ProcInv
    <3> QED
      BY <2>1, <3>1
  <2>3. CASE q # p
    <3>1. k = proc[q]
      BY <2>1, <2>3 DEF RecoveryInv, ProcInv
    <3>2. Local(k)
      BY <3>1 DEF RecoveryInv, ProcInv
    <3>3. Local(k)'
      BY <3>2, LocalStays DEF RecoveryInv
    <3> QED
      BY <2>1, <3>3
  <2> QED
    BY <2>2, <2>3
<1> QED
  BY <1>1 DEF RecoveryInv, ProcInv

\* An idle process.
LEMMA IdleIsLocal ==
  ASSUME NEW code
  PROVE  Local([Idle EXCEPT !.code = code]) /\ Local([Idle EXCEPT !.code = code])'
<1>1. PICK l : l = [Idle EXCEPT !.code = code]
  OBVIOUS
<1>2. l.pc = "idle" /\ l.code = code
  BY <1>1 DEF Idle
<1>3. Local(l) /\ Local(l)'
  BY <1>2 DEF Local
<1> QED
  BY <1>1, <1>3

\* The workspace of the epoch is published into an absent target, by rename.
LEMMA TargetIsPublished ==
  ASSUME RecoveryInv, NEW p \in Procs, NEW l, proc' = [proc EXCEPT ![p] = l],
         NEW t \in Targets, NEW v, tree[t] = {}, tree' = [tree EXCEPT ![t] = {v}], Local(l)',
         UNCHANGED <<script, session, branches, journal, registry, epochs, caps, effs, forked>>
  PROVE  RecoveryInv'
<1>1. ReadingStays /\ EpochsStay
  BY DEF ReadingStays, EpochsStay, OfKind
<1>2. DOMAIN tree = Targets /\ TreesStay /\ DOMAIN tree' = Targets
  BY DEF RecoveryInv, JournalInv, TreesStay
<1>3. JournalInv'
  <2>1. ASSUME NEW i \in DOMAIN journal[Root], journal[Root][i].kind = Activation,
               i \notin DOMAIN script.events \/ journal[Root][i] # script.events[i]
        PROVE  tree'[journal[Root][i].data.target] = {epochs[journal[Root][i].data.epoch].ws}
    <3>1. /\ journal[Root][i].data.target \in Targets
          /\ tree[journal[Root][i].data.target] = {epochs[journal[Root][i].data.epoch].ws}
      BY <2>1 DEF RecoveryInv, JournalInv
    <3> QED
      BY <1>2, <3>1 DEF TreesStay
  <2> QED
    BY <1>2, <2>1 DEF RecoveryInv, JournalInv
<1>4. \A art : Captured(art) => Captured(art)'
  BY <1>1, CapturedStays DEF RecoveryInv
<1>5. EpochInv'
  BY <1>4 DEF RecoveryInv, EpochInv, Registered, Passed
<1>6. ForkInv'
  BY <1>1, RowsStay DEF RecoveryInv
<1>7. ProcInv'
  BY <1>1, <1>2, LocalsStay
<1> QED
  BY <1>3, <1>5, <1>6, <1>7 DEF RecoveryInv

\* WorkspaceBackend::restore, as restore_application calls it.
LEMMA PublishesWorkspaceKeeps ==
  ASSUME RecoveryInv, NEW p \in Procs, NEW outcome, PublishesWorkspace(p, outcome)
  PROVE  RecoveryInv'
<1>1. UNCHANGED <<script, session, branches, journal, registry, epochs, caps, effs, forked>>
  BY DEF PublishesWorkspace, Around
<1>2. PICK k : k = proc[p]
  OBVIOUS
<1>3. PICK t, v : t = k.target /\ v = epochs[k.epoch].ws
  OBVIOUS
<1>4. /\ k.pc = "publish" /\ t \in Targets /\ k.epoch \in DOMAIN epochs
      /\ DOMAIN k = {"pc", "code", "epoch", "target"}
  BY <1>2, <1>3 DEF PublishesWorkspace, RecoveryInv, ProcInv, Local
<1>5. CASE tree[t] # {} \/ WorkspaceCode(v) # "ok"
  <2>1. PICK code : code = IF WorkspaceCode(v) # "ok" THEN WorkspaceCode(v) ELSE "target_exists"
    OBVIOUS
  <2>3. Answers(p, code) /\ UNCHANGED tree
    BY <1>2, <1>3, <1>5, <2>1 DEF PublishesWorkspace
  <2> QED
    BY <1>1, <2>3, AnswersKeep
<1>6. CASE tree[t] = {} /\ WorkspaceCode(v) = "ok"
  <2>1. tree' = IF outcome = "before" THEN tree ELSE [tree EXCEPT ![t] = {v}]
    BY <1>2, <1>3, <1>6 DEF PublishesWorkspace
  <2>2. CASE outcome = "before"
    BY <1>1, <1>2, <1>3, <1>6, <2>1, <2>2, AnswersKeep DEF PublishesWorkspace
  <2>3. CASE outcome = "ok"
    <3>1. PICK l : l = [k EXCEPT !.pc = "record"]
      OBVIOUS
    <3>2. /\ l.pc = "record" /\ l.code = k.code /\ l.epoch = k.epoch /\ l.target = t
          /\ DOMAIN l = {"pc", "code", "epoch", "target"}
      BY <1>3, <1>4, <3>1
    <3>3. proc' = [proc EXCEPT ![p] = l]
      BY <1>2, <1>3, <1>6, <2>3, <3>1 DEF PublishesWorkspace
    <3>4. tree' = [tree EXCEPT ![t] = {v}]
      BY <2>1, <2>3
    <3>5. tree'[t] = {v}
      BY <1>4, <3>4 DEF RecoveryInv, JournalInv
    <3>6. Local(l)'
      BY <1>1, <1>3, <1>4, <3>2, <3>5 DEF Local
    <3> QED
      BY <1>1, <1>4, <1>6, <3>3, <3>4, <3>6, TargetIsPublished
  <2>4. CASE outcome \notin {"ok", "before"}
    <3>1. Answers(p, "storage") /\ tree' = [tree EXCEPT ![t] = {v}]
      BY <1>2, <1>3, <1>6, <2>1, <2>4 DEF PublishesWorkspace
    <3>2. PICK l : l = [Idle EXCEPT !.code = "storage"]
      OBVIOUS
    <3>3. proc' = [proc EXCEPT ![p] = l]
      BY <3>1, <3>2 DEF Answers
    <3>4. Local(l)'
      BY <3>2, IdleIsLocal
    <3> QED
      BY <1>1, <1>4, <1>6, <3>1, <3>3, <3>4, TargetIsPublished
  <2> QED
    BY <2>2, <2>3, <2>4
<1> QED
  BY <1>5, <1>6

\* record_activation appends to the root's journal what took place.
LEMMA RecordsActivationKeeps ==
  ASSUME RecoveryInv, NEW p \in Procs, NEW ok, RecordsActivation(p, ok)
  PROVE  RecoveryInv'
<1>1. UNCHANGED <<script, session, branches, registry, epochs, caps, effs, tree, forked>>
  BY DEF RecordsActivation, Around
<1>2. PICK e, t : e = proc[p].epoch /\ t = proc[p].target
  OBVIOUS
<1>3. PICK data : data = [epoch |-> e, target |-> t]
  OBVIOUS
<1>4. PICK ev : ev = [kind |-> "application.context_restored", seq |-> 0, data |-> data]
  OBVIOUS
<1>5. ev.kind = Activation /\ ev.data = data /\ data.epoch = e /\ data.target = t
  BY <1>3, <1>4 DEF Activation
<1>6. CASE ~ok
  BY <1>1, <1>6, AnswersKeep DEF RecordsActivation
<1>7. CASE ok
  <2>1. e \in DOMAIN epochs /\ t \in Targets /\ tree[t] = {epochs[e].ws} /\ epochs[e].branch = Root
    BY <1>2 DEF RecordsActivation, RecoveryInv, ProcInv, EpochInv, Local
  <2>2. PICK j, n : j = journal[Root] /\ n = Len(j)
    OBVIOUS
  <2>3. journal' = [journal EXCEPT ![Root] = Append(j, ev)] /\ Answers(p, "ok")
    BY <1>2, <1>3, <1>4, <1>7, <2>1, <2>2 DEF RecordsActivation
  <2>4. /\ Append(j, ev) \in Seq(Range(Append(j, ev))) /\ n \in Nat /\ DOMAIN j = 1..n
        /\ DOMAIN Append(j, ev) = 1..(n + 1)
        /\ \A i \in DOMAIN j : Append(j, ev)[i] = j[i]
        /\ Append(j, ev)[n + 1] = ev
    BY <2>2, AppendIsSequence DEF RecoveryInv, JournalInv
  <2>5. /\ DOMAIN journal' = DOMAIN journal /\ journal'[Root] = Append(j, ev)
        /\ \A b \in DOMAIN journal \ {Root} : journal'[b] = journal[b]
    BY <2>3 DEF RecoveryInv, JournalInv
  <2>6. ASSUME NEW i \in DOMAIN journal'[Root]
        PROVE  \/ i \in DOMAIN script.events /\ journal'[Root][i] = script.events[i]
               \/ /\ journal'[Root][i].kind = Activation
                  /\ journal'[Root][i].data.epoch \in DOMAIN epochs
                  /\ journal'[Root][i].data.target \in Targets
                  /\ tree[journal'[Root][i].data.target] = {epochs[journal'[Root][i].data.epoch].ws}
    <3>1. CASE i = n + 1
      BY <1>5, <2>1, <2>4, <2>5, <3>1
    <3>2. CASE i \in DOMAIN j
      BY <2>2, <2>4, <2>5, <3>2 DEF RecoveryInv, JournalInv
    <3>3. i = n + 1 \/ i \in DOMAIN j
      BY <2>4, <2>5
    <3> QED
      BY <3>1, <3>2, <3>3
  <2>7. JournalInv'
    BY <1>1, <2>4, <2>5, <2>6 DEF RecoveryInv, JournalInv
  <2>8. ReadingStays
    <3>1. ASSUME NEW k \in Reading PROVE OfKind(Root, {k})' = OfKind(Root, {k})
      BY <1>5, <2>2, <2>4, <2>5 DEF OfKind, Reading, Activation
    <3> QED
      BY <2>2, <2>4, <2>5, <3>1 DEF ReadingStays
  <2>9. EpochsStay /\ TreesStay
    BY <1>1 DEF EpochsStay, TreesStay
  <2>10. \A art : Captured(art) => Captured(art)'
    BY <2>8, CapturedStays DEF RecoveryInv
  <2>11. EpochInv'
    BY <1>1, <2>10 DEF RecoveryInv, EpochInv, Registered, Passed
  <2>12. ForkInv'
    BY <1>1, <2>8, <2>9, RowsStay DEF RecoveryInv
  <2>13. PICK l : l = [Idle EXCEPT !.code = "ok"]
    OBVIOUS
  <2>14. Local(l)' /\ proc' = [proc EXCEPT ![p] = l]
    BY <2>3, <2>13, IdleIsLocal DEF Answers
  <2>15. ProcInv'
    BY <1>1, <2>8, <2>9, <2>14, LocalsStay
  <2> QED
    BY <2>7, <2>11, <2>12, <2>15 DEF RecoveryInv
<1> QED
  BY <1>6, <1>7

\* Registering a blob keeps the rows that are there.
LEMMA RegisterKeeps ==
  ASSUME NEW reg, NEW blob, NEW media
  PROVE  /\ DOMAIN Register(reg, blob, media) = {blob} \cup DOMAIN reg
         /\ \A b \in DOMAIN reg : Register(reg, blob, media)[b] = reg[b]
BY DEF Register, Put

\* The epoch to be committed continues the chain, so the unique index on the
\* sequences of a branch has nothing to refuse.
LEMMA NextEpochIsNext ==
  ASSUME RecoveryInv
  PROVE  next_epoch(Root).seq = Len(epochs) /\ next_epoch(Root).parent = Len(epochs)
<1>1. PICK n : n = Len(epochs)
  OBVIOUS
<1>2. /\ n \in Nat /\ DOMAIN epochs = 1..n
      /\ \A e \in 1..n : epochs[e].branch = Root /\ epochs[e].seq = e - 1
  BY <1>1 DEF RecoveryInv, EpochInv
<1>3. OfBranch(Root) = 1..n
  BY <1>2 DEF OfBranch
<1>4. CASE n = 0
  <2>1. next_epoch(Root) = [seq |-> 0, parent |-> 0]
    BY <1>3, <1>4 DEF next_epoch
  <2> QED
    BY <1>1, <1>3, <1>4, <2>1
<1>5. CASE n > 0
  <2>1. PICK latest : latest = CHOOSE e \in 1..n : \A f \in 1..n : epochs[f].seq <= epochs[e].seq
    OBVIOUS
  <2>2. n \in 1..n /\ \A f \in 1..n : epochs[f].seq <= epochs[n].seq
    BY <1>2, <1>5
  <2>3. latest \in 1..n /\ \A f \in 1..n : epochs[f].seq <= epochs[latest].seq
    BY <2>1, <2>2
  <2>4. latest = n
    BY <1>2, <2>2, <2>3
  <2>5. next_epoch(Root) = [seq |-> epochs[latest].seq + 1, parent |-> latest]
    <3>1. 1..n # {}
      BY <2>2
    <3> QED
      BY <1>3, <2>1, <3>1 DEF next_epoch
  <2>6. epochs[n].seq = n - 1
    BY <1>2, <2>2
  <2>7. next_epoch(Root).seq = n /\ next_epoch(Root).parent = n
    BY <1>2, <2>4, <2>5, <2>6
  <2> QED
    BY <1>1, <1>2, <1>3, <2>7
<1> QED
  BY <1>2, <1>4, <1>5

\* persist_checkpoint: an epoch is committed only for the completed run, with
\* the frontiers the branch has now, which none of the earlier ones exceeds.
LEMMA PersistsCheckpointKeeps ==
  ASSUME RecoveryInv, NEW p \in Procs, NEW ok, PersistsCheckpoint(p, ok)
  PROVE  RecoveryInv'
<1>1. UNCHANGED <<script, session, branches, journal, caps, effs, tree, forked>>
  BY DEF PersistsCheckpoint, Around
<1>2. PICK b, art, v, n, front :
        /\ b = proc[p].branch /\ art = proc[p].art /\ v = proc[p].ws /\ n = Len(epochs)
        /\ front = CommittedFrontiers(p)
  OBVIOUS
<1>3. PICK reg : reg = Register(Register(registry, art.blob, ContextMedia),
                                WorkspaceBlob(v), ManifestMedia)
  OBVIOUS
<1>4. b = Root /\ Captured(art)
  BY <1>2 DEF PersistsCheckpoint, RecoveryInv, ProcInv, Local
<1> DEFINE agrees == reg[art.blob] = ContextMedia /\ reg[WorkspaceBlob(v)] = ManifestMedia
<1>5. next_epoch(b).seq = n /\ next_epoch(b).parent = n
  BY <1>2, <1>4, NextEpochIsNext
<1>6. CASE ok /\ ensure_completed_scope(b) /\ agrees
  <2>1. PICK row : row = [branch |-> b, seq |-> n, parent |-> n, art |-> art, ws |-> v,
                          frontier |-> front]
    OBVIOUS
  <2>2. /\ registry' = reg /\ epochs' = Append(epochs, row) /\ Answers(p, "ok")
        /\ session = "completed"
    BY <1>2, <1>3, <1>5, <1>6, <2>1 DEF PersistsCheckpoint, ensure_completed_scope
  <2>3. /\ row.branch = Root /\ row.seq = n /\ row.parent = n /\ row.art = art /\ row.ws = v
        /\ row.frontier = front
    BY <1>4, <2>1
  <2>4. /\ epochs' \in Seq(Range(epochs')) /\ n \in Nat /\ DOMAIN epochs = 1..n
        /\ DOMAIN epochs' = 1..(n + 1)
        /\ \A e \in DOMAIN epochs : epochs'[e] = epochs[e]
        /\ epochs'[n + 1] = row
    BY <1>2, <2>2, AppendIsSequence DEF RecoveryInv, EpochInv
  <2>5. ReadingStays /\ EpochsStay /\ TreesStay
    BY <1>1, <2>4 DEF ReadingStays, EpochsStay, TreesStay, OfKind
  <2>6. \A a : Captured(a) => Captured(a)'
    BY <2>5, CapturedStays DEF RecoveryInv
  <2>7. front.cap = caps[Root] /\ front.eff = effs[Root] /\ caps[Root] \in Nat /\ effs[Root] \in Nat
    BY <1>2, <1>4 DEF CommittedFrontiers, security_frontiers, RecoveryInv, JournalInv
  <2>8. /\ DOMAIN registry \subseteq DOMAIN registry'
        /\ \A h \in DOMAIN registry : registry'[h] = registry[h]
        /\ art.blob \in DOMAIN registry' /\ WorkspaceBlob(v) \in DOMAIN registry'
    <3>1. PICK mid : mid = Register(registry, art.blob, ContextMedia)
      OBVIOUS
    <3>2. /\ DOMAIN mid = {art.blob} \cup DOMAIN registry
          /\ \A h \in DOMAIN registry : mid[h] = registry[h]
      BY <3>1, RegisterKeeps
    <3>3. reg = Register(mid, WorkspaceBlob(v), ManifestMedia)
      BY <1>3, <3>1
    <3>4. /\ DOMAIN reg = {WorkspaceBlob(v)} \cup DOMAIN mid
          /\ \A h \in DOMAIN mid : reg[h] = mid[h]
      BY <3>3, RegisterKeeps
    <3> QED
      BY <2>2, <3>2, <3>4
  <2>9. ASSUME NEW e \in DOMAIN epochs'
        PROVE  /\ epochs'[e].branch = Root /\ epochs'[e].seq = e - 1 /\ epochs'[e].parent = e - 1
               /\ Captured(epochs[e].art)' /\ Registered(epochs[e])' /\ Passed(epochs[e].frontier)'
    <3>1. PICK r : r = epochs'[e]
      OBVIOUS
    <3>2. CASE e = n + 1
      <4>1. r = row
        BY <2>4, <3>1, <3>2
      <4>2. Captured(r.art)'
        BY <1>4, <2>3, <2>6, <4>1
      <4>3. Registered(r)'
        BY <1>6, <2>2, <2>3, <2>8, <4>1 DEF Registered
      <4>4. Passed(r.frontier)'
        BY <1>1, <2>3, <2>7, <4>1 DEF Passed
      <4> QED
        BY <2>3, <2>4, <3>1, <3>2, <4>1, <4>2, <4>3, <4>4
    <3>3. CASE e \in DOMAIN epochs
      <4>1. r = epochs[e]
        BY <2>4, <3>1, <3>3
      <4>2. /\ r.branch = Root /\ r.seq = e - 1 /\ r.parent = e - 1
            /\ Captured(r.art) /\ Registered(r) /\ Passed(r.frontier)
        BY <3>3, <4>1 DEF RecoveryInv, EpochInv
      <4>3. Registered(r)'
        BY <2>8, <4>2 DEF Registered
      <4>4. Passed(r.frontier)'
        BY <1>1, <4>2 DEF Passed
      <4> QED
        BY <2>6, <3>1, <4>2, <4>3, <4>4
    <3>4. e = n + 1 \/ e \in DOMAIN epochs
      BY <2>4
    <3> QED
      BY <3>2, <3>3, <3>4
  <2>10. ASSUME NEW d \in DOMAIN epochs', NEW e \in DOMAIN epochs', d < e
         PROVE  /\ epochs'[d].frontier.cap <= epochs'[e].frontier.cap
                /\ epochs'[d].frontier.eff <= epochs'[e].frontier.eff
    <3>1. d \in DOMAIN epochs /\ epochs'[d] = epochs[d] /\ Passed(epochs[d].frontier)
      BY <2>4, <2>10 DEF RecoveryInv, EpochInv
    <3>2. CASE e = n + 1
      BY <2>3, <2>4, <2>7, <3>1, <3>2 DEF Passed
    <3>3. CASE e \in DOMAIN epochs
      BY <2>4, <2>10, <3>1, <3>3 DEF RecoveryInv, EpochInv
    <3>4. e = n + 1 \/ e \in DOMAIN epochs
      BY <2>4
    <3> QED
      BY <3>2, <3>3, <3>4
  <2>11. EpochInv'
    BY <1>1, <2>2, <2>4, <2>9, <2>10 DEF EpochInv
  <2>12. JournalInv'
    BY <1>1, <2>4 DEF RecoveryInv, JournalInv
  <2>13. ForkInv'
    BY <1>1, <2>5, RowsStay DEF RecoveryInv
  <2>14. PICK l : l = [Idle EXCEPT !.code = "ok"]
    OBVIOUS
  <2>15. Local(l)' /\ proc' = [proc EXCEPT ![p] = l]
    BY <2>2, <2>14, IdleIsLocal DEF Answers
  <2>16. ProcInv'
    BY <1>1, <2>5, <2>15, LocalsStay
  <2> QED
    BY <2>11, <2>12, <2>13, <2>16 DEF RecoveryInv
<1>7. CASE ~(ok /\ ensure_completed_scope(b) /\ agrees)
  <2>1. PICK code : code = IF ~ok THEN "io"
                           ELSE IF ~ensure_completed_scope(b) THEN "invalid_capture"
                           ELSE "metadata_mismatch"
    OBVIOUS
  <2>3. Answers(p, code) /\ UNCHANGED <<registry, epochs>>
    BY <1>2, <1>3, <1>7, <2>1 DEF PersistsCheckpoint
  <2> QED
    BY <1>1, <2>3, AnswersKeep
<1> QED
  BY <1>6, <1>7

\* persist_fork: the row of the new branch names the epoch it was forked from.
LEMMA PersistsForkKeeps ==
  ASSUME RecoveryInv, NEW p \in Procs, NEW ok, PersistsFork(p, ok)
  PROVE  RecoveryInv'
<1>1. UNCHANGED <<script, session, registry, epochs, tree>>
  BY DEF PersistsFork
<1>2. PICK e, name, b, replay :
        /\ e = proc[p].epoch /\ name = proc[p].name /\ replay = proc[p].replay
        /\ b = CHOOSE f \in Forks : f \notin DOMAIN branches
  OBVIOUS
<1>3. PICK code : code = IF ~ok THEN "io"
                         ELSE IF ~ensure_name_available(name) THEN "branch_name_conflict"
                         ELSE IF ~ensure_source_unchanged(e) THEN "metadata_mismatch"
                         ELSE "ok"
  OBVIOUS
<1>5. Answers(p, code)
  BY <1>2, <1>3 DEF PersistsFork
<1>6. CASE code # "ok"
  <2>1. UNCHANGED <<branches, journal, caps, effs, forked>>
    BY <1>2, <1>3, <1>6 DEF PersistsFork
  <2> QED
    BY <1>1, <1>5, <2>1, AnswersKeep
<1>7. CASE code = "ok"
  <2>1. PICK row : row = ForkRow(e, name)
    OBVIOUS
  <2>2. /\ branches' = Put(branches, b, row) /\ journal' = Put(journal, b, <<>>)
        /\ caps' = Put(caps, b, 0) /\ effs' = Put(effs, b, 0) /\ forked' = Put(forked, b, replay)
    BY <1>2, <1>3, <1>7, <2>1 DEF PersistsFork
  <2>3. b \notin DOMAIN branches
    BY <1>2 DEF PersistsFork
  <2>4. e \in DOMAIN epochs /\ replay = replay_report(e) /\ epochs[e].branch = Root
    BY <1>2 DEF PersistsFork, RecoveryInv, ProcInv, EpochInv, Local
  <2>5. /\ DOMAIN row = Columns /\ row.epoch = e /\ row.parent = Root
        /\ row.point = epochs[e].art.boundary /\ row.component = epochs[e].art.blob
    BY <2>1, <2>4 DEF ForkRow, Columns
  <2>6. /\ Root \in DOMAIN journal /\ b # Root /\ DOMAIN branches = DOMAIN journal
        /\ DOMAIN caps = DOMAIN journal /\ DOMAIN effs = DOMAIN journal
    BY <2>3 DEF RecoveryInv, JournalInv
  <2>7. /\ DOMAIN branches' = {b} \cup DOMAIN branches /\ branches'[b] = row
        /\ \A c \in DOMAIN branches : branches'[c] = branches[c]
    BY <2>2, <2>3 DEF Put
  <2>8. /\ DOMAIN journal' = {b} \cup DOMAIN journal /\ journal'[b] = <<>>
        /\ \A c \in DOMAIN journal : journal'[c] = journal[c]
    BY <2>2, <2>3, <2>6 DEF Put
  <2>9. /\ DOMAIN caps' = {b} \cup DOMAIN journal /\ caps'[b] = 0
        /\ DOMAIN effs' = {b} \cup DOMAIN journal /\ effs'[b] = 0
        /\ \A c \in DOMAIN journal : caps'[c] = caps[c] /\ effs'[c] = effs[c]
    BY <2>2, <2>3, <2>6 DEF Put
  <2>10. /\ DOMAIN forked' = {b} \cup DOMAIN forked /\ forked'[b] = replay
         /\ \A c \in DOMAIN forked \ {b} : forked'[c] = forked[c]
    BY <2>2 DEF Put
  <2>11. JournalInv'
    BY <1>1, <2>6, <2>7, <2>8, <2>9 DEF RecoveryInv, JournalInv
  <2>12. ReadingStays /\ EpochsStay /\ TreesStay
    BY <1>1, <2>6, <2>8 DEF ReadingStays, EpochsStay, TreesStay, OfKind
  <2>13. \A art : Captured(art) => Captured(art)'
    BY <2>12, CapturedStays DEF RecoveryInv
  <2>14. \A f : Passed(f) => Passed(f)'
    BY <2>6, <2>9 DEF Passed
  <2>15. EpochInv'
    <3>1. ASSUME NEW d \in DOMAIN epochs
          PROVE  /\ epochs'[d].branch = Root /\ epochs'[d].seq = d - 1 /\ epochs'[d].parent = d - 1
                 /\ Captured(epochs[d].art)' /\ Registered(epochs[d])' /\ Passed(epochs[d].frontier)'
      BY <1>1, <2>13, <2>14 DEF RecoveryInv, EpochInv, Registered
    <3> QED
      BY <1>1, <3>1 DEF RecoveryInv, EpochInv
  <2>16. ForkInv'
    <3>1. ASSUME NEW c \in DOMAIN branches', c # Root
          PROVE  /\ branches'[c].epoch \in DOMAIN epochs' /\ LineageMatches(branches[c])'
                 /\ c \in DOMAIN forked' /\ forked'[c] = replay_report(branches[c].epoch)'
      <4>1. PICK r : r = branches'[c]
        OBVIOUS
      <4>2. CASE c = b
        <5>1. r = row
          BY <2>7, <4>1, <4>2
        <5>2. replay_report(e)' = replay
          BY <2>4, <2>12, ReplayStays DEF RecoveryInv
        <5>3. LineageMatches(r)'
          BY <1>1, <2>4, <2>5, <5>1 DEF LineageMatches
        <5> QED
          BY <1>1, <2>4, <2>5, <2>10, <4>1, <4>2, <5>1, <5>2, <5>3
      <4>3. CASE c \in DOMAIN branches
        <5>1. r = branches[c]
          BY <2>7, <4>1, <4>3
        <5>2. /\ r.epoch \in DOMAIN epochs /\ LineageMatches(r)
              /\ c \in DOMAIN forked /\ forked[c] = replay_report(r.epoch)
          BY <3>1, <4>3, <5>1 DEF RecoveryInv, ForkInv
        <5>3. replay_report(r.epoch)' = replay_report(r.epoch)
          BY <2>12, <5>2, ReplayStays DEF RecoveryInv
        <5>4. LineageMatches(r)'
          BY <1>1, <5>2 DEF LineageMatches
        <5> QED
          BY <1>1, <2>3, <2>10, <4>1, <4>3, <5>2, <5>3, <5>4
      <4> QED
        BY <2>7, <4>2, <4>3
    <3>2. /\ branches'[Root].epoch = 0
          /\ \A c \in DOMAIN branches' : DOMAIN branches'[c] = Columns
      BY <2>5, <2>6, <2>7 DEF RecoveryInv, ForkInv
    <3> QED
      BY <3>1, <3>2 DEF ForkInv
  <2>17. PICK l : l = [Idle EXCEPT !.code = code]
    OBVIOUS
  <2>18. Local(l)' /\ proc' = [proc EXCEPT ![p] = l]
    BY <1>5, <2>17, IdleIsLocal DEF Answers
  <2>19. ProcInv'
    BY <2>7, <2>12, <2>18, LocalsStay
  <2> QED
    BY <2>11, <2>15, <2>16, <2>19 DEF RecoveryInv
<1> QED
  BY <1>6, <1>7

-----------------------------------------------------------------------------
(* The invariant and what follows from it. *)

\* Before the first event nothing is recorded, committed or under way.
LEMMA InitRecovers == Init => RecoveryInv
<1> SUFFICES ASSUME Init PROVE RecoveryInv
  OBVIOUS
<1>1. /\ script \in Scripts /\ branches = [b \in {Root} |-> RootRow]
      /\ journal = [b \in {Root} |-> <<>>] /\ epochs = <<>>
      /\ caps = [b \in {Root} |-> 0] /\ effs = [b \in {Root} |-> 0]
      /\ tree = [t \in Targets |-> {}] /\ proc = [p \in Procs |-> Idle]
  BY DEF Init
<1>2. JournalInv
  BY <1>1 DEF JournalInv
<1>3. EpochInv
  BY <1>1 DEF EpochInv
<1>4. ForkInv
  BY <1>1 DEF ForkInv, RootRow, Columns
<1>5. PICK l : l = Idle
  OBVIOUS
<1>6. l.pc = "idle" /\ l.code = None
  BY <1>5 DEF Idle
<1>7. Local(l)
  BY <1>6 DEF Local, None
<1>8. ProcInv
  BY <1>1, <1>5, <1>7 DEF ProcInv
<1> QED
  BY <1>2, <1>3, <1>4, <1>8 DEF RecoveryInv

\* Every step keeps the invariant, however the calls overlap.
LEMMA NextRecovers ==
  ASSUME RecoveryInv, [Next]_vars
  PROVE  RecoveryInv'
<1>1. CASE RunRecords
  BY <1>1, RunRecordsKeeps
<1>2. CASE \/ RunEnds \/ EditWorkspace
           \/ \E b \in DOMAIN branches : SecurityStep(b) \/ SuspendBranch(b)
           \/ \E h \in DOMAIN disk : LoseBlob(h)
  BY <1>2, AroundKeeps
<1>3. ASSUME NEW p \in Procs, Call(p) PROVE RecoveryInv'
  <2>1. CASE \E b \in {Root, None} \cup Forks : CheckpointBegins(p, b)
    BY <2>1, CheckpointBeginsKeeps
  <2>2. ASSUME NEW e, NEW activate, NEW t \in Targets \cup {None}, RestoreBegins(p, e, activate, t)
        PROVE  RecoveryInv'
    BY <2>2, RestoreBeginsKeeps
  <2>3. ASSUME NEW e, NEW name, ForkBegins(p, e, name) PROVE RecoveryInv'
    BY <2>3, ForkBeginsKeeps
  <2> QED
    BY <1>3, <2>1, <2>2, <2>3 DEF Call
<1>4. ASSUME NEW p \in Procs, Step(p) PROVE RecoveryInv'
  <2>1. CASE CapturesContext(p) \/ Dies(p)
    BY <2>1, CapturesContextKeeps, DiesKeeps
  <2>2. ASSUME NEW ok, SnapshotsWorkspace(p, ok) PROVE RecoveryInv'
    BY <2>2, SnapshotsWorkspaceKeeps
  <2>3. ASSUME NEW ok, PersistsCheckpoint(p, ok) PROVE RecoveryInv'
    BY <2>3, PersistsCheckpointKeeps
  <2>4. ASSUME NEW ok, RecordsActivation(p, ok) PROVE RecoveryInv'
    BY <2>4, RecordsActivationKeeps
  <2>5. ASSUME NEW ok, PersistsFork(p, ok) PROVE RecoveryInv'
    BY <2>5, PersistsForkKeeps
  <2>6. ASSUME NEW outcome, PublishesWorkspace(p, outcome) PROVE RecoveryInv'
    BY <2>6, PublishesWorkspaceKeeps
  <2> QED
    BY <1>4, <2>1, <2>2, <2>3, <2>4, <2>5, <2>6 DEF Step
<1>5. CASE UNCHANGED vars
  <2>1. UNCHANGED <<script, session, branches, journal, registry, epochs, caps, effs, tree, proc, forked>>
    BY <1>5 DEF vars
  <2>2. \A b \in DOMAIN branches : SameLineage(branches[b], branches'[b])
    BY <2>1 DEF RecoveryInv, ForkInv, SameLineage
  <2>3. \A b \in DOMAIN caps : /\ caps'[b] \in Nat /\ caps'[b] >= caps[b]
                               /\ effs'[b] \in Nat /\ effs'[b] >= effs[b]
    BY <2>1 DEF RecoveryInv, JournalInv
  <2> QED
    BY <2>1, <2>2, <2>3, StatesMove
<1> QED
  BY <1>1, <1>2, <1>3, <1>4, <1>5 DEF Next

\* The inductive invariant of checkpoints, restores and forks.
THEOREM RecoveryInvariance == Spec => []RecoveryInv
<1>1. RecoveryInv /\ [Next]_vars => RecoveryInv'
  BY NextRecovers
<1> QED
  BY InitRecovers, <1>1, PTL DEF Spec

\* An activation in the journal of a branch is one restore_application made.
LEMMA ActivationsAreOurs ==
  ASSUME RecoveryInv, NEW b \in DOMAIN journal, NEW i \in DOMAIN journal[b],
         journal[b][i].kind = Activation
  PROVE  /\ b = Root /\ journal[b][i].data.epoch \in DOMAIN epochs
         /\ tree[journal[b][i].data.target] = {epochs[journal[b][i].data.epoch].ws}
<1>1. b = Root
  BY DEF RecoveryInv, JournalInv
<1>2. script \in Scripts
  BY DEF RecoveryInv, JournalInv
<1>3. ~(i \in DOMAIN script.events /\ journal[Root][i] = script.events[i])
  BY <1>1, <1>2, ScriptsAssumption DEF Activation
<1> QED
  BY <1>1, <1>3 DEF RecoveryInv, JournalInv

\* An activation on record took place: the workspace was published before the
\* event was appended, and a target once published is never replaced.
THEOREM ActivationsStayPublished == Spec => []ActivationsArePublished
<1>1. RecoveryInv => ActivationsArePublished
  <2> SUFFICES ASSUME RecoveryInv, NEW b \in DOMAIN journal, NEW i \in DOMAIN journal[b],
                      journal[b][i].kind = "application.context_restored"
               PROVE  tree[journal[b][i].data.target] = {epochs[journal[b][i].data.epoch].ws}
    BY DEF ActivationsArePublished
  <2> QED
    BY ActivationsAreOurs DEF Activation
<1> QED
  BY RecoveryInvariance, <1>1, PTL

\* Two frontiers of one branch and what it counts now: a diff that reports a
\* change or an advance since the later one reports it since the earlier too.
LEMMA FrontiersCompare ==
  ASSUME NEW before \in Nat, NEW after \in Nat, NEW now \in Nat, before <= after, after <= now
  PROVE  LET part == frontier_diff(before, after, now, now)
         IN  part.changed_between_epochs \/ part.advanced_since_after => part.advanced_since_before
<1> DEFINE part == frontier_diff(before, after, now, now)
<1>1. /\ part.changed_between_epochs = (before # after)
      /\ part.advanced_since_before = (now > before)
      /\ part.advanced_since_after = (now > after)
  BY Zenon DEF frontier_diff
<1>2. before # after \/ now > after => now > before
  OBVIOUS
<1> QED
  BY <1>1, <1>2, Zenon

\* Every epoch holds the context that the finished journal of a completed run
\* names, and the epochs form one chain with frontiers that never go back,
\* however early the checkpoints started and however they overlapped.
THEOREM EpochsStaySound == Spec => []EpochsAreSound
<1>1. RecoveryInv => EpochsAreSound
  <2> SUFFICES ASSUME RecoveryInv PROVE EpochsAreSound
    OBVIOUS
  <2>1. PICK n : n = Len(epochs)
    OBVIOUS
  <2>2. n \in Nat /\ DOMAIN epochs = 1..n /\ \A e \in 1..n : epochs[e].branch = Root
    BY <2>1 DEF RecoveryInv, EpochInv
  <2>3. OfBranch(Root) = 1..n
    BY <2>2 DEF OfBranch
  <2>4. ASSUME NEW e \in DOMAIN epochs
        PROVE  /\ session = "completed"
               /\ validate_capture(epochs[e].branch, LastOf(epochs[e].branch, "process.stderr").data)
               /\ epochs[e].art = ArtifactOf(LastOf(epochs[e].branch, "process.stderr").data.ctx)
               /\ epochs[e].seq = Cardinality({f \in OfBranch(epochs[e].branch) : f < e})
               /\ epochs[e].seq > 0 => epochs[epochs[e].parent].seq = epochs[e].seq - 1
    <3>1. /\ epochs[e].branch = Root /\ epochs[e].seq = e - 1 /\ epochs[e].parent = e - 1
          /\ Captured(epochs[e].art) /\ session = "completed"
      BY DEF RecoveryInv, EpochInv
    <3>2. e \in 1..n
      BY <2>2
    <3>3. {f \in OfBranch(Root) : f < e} = 1..(e - 1)
      BY <2>2, <2>3, <3>2
    <3>4. Cardinality(1..(e - 1)) = e - 1
      <4>1. 1 \in Int /\ e - 1 \in Int /\ e - 1 >= 0
        BY <2>2, <3>2
      <4> QED
        BY <4>1, FS_Interval
    <3>5. e - 1 > 0 => epochs[e - 1].seq = e - 2
      <4>1. e - 1 > 0 => e - 1 \in DOMAIN epochs /\ (e - 1) - 1 = e - 2
        BY <2>2, <3>2
      <4> QED
        BY <4>1 DEF RecoveryInv, EpochInv
    <3>6. e - 2 = (e - 1) - 1
      BY <2>2, <3>2
    <3> QED
      BY <3>1, <3>3, <3>4, <3>5, <3>6 DEF Captured
  <2>5. ASSUME NEW d \in DOMAIN epochs, NEW e \in DOMAIN epochs, d < e
        PROVE  /\ epochs[d].frontier.cap <= epochs[e].frontier.cap
               /\ epochs[d].frontier.eff <= epochs[e].frontier.eff
               /\ LET diff == diff_application_epochs(d, e)
                  IN  \A part \in {diff.caps, diff.effs} :
                        part.changed_between_epochs \/ part.advanced_since_after
                          => part.advanced_since_before
    <3>1. PICK f, g, c, s : /\ f = epochs[d].frontier /\ g = epochs[e].frontier
                            /\ c = caps[Root] /\ s = effs[Root]
      OBVIOUS
    <3>2. /\ f.cap <= g.cap /\ f.eff <= g.eff
          /\ epochs[d].branch = Root /\ epochs[e].branch = Root /\ Passed(f) /\ Passed(g)
      BY <2>5, <3>1 DEF RecoveryInv, EpochInv
    <3>3. /\ f.cap \in Nat /\ f.eff \in Nat /\ g.cap \in Nat /\ g.eff \in Nat
          /\ c \in Nat /\ s \in Nat /\ g.cap <= c /\ g.eff <= s
      BY <3>1, <3>2 DEF Passed, RecoveryInv, JournalInv
    <3>4. PICK x, y : x = frontier_diff(f.cap, g.cap, c, c) /\ y = frontier_diff(f.eff, g.eff, s, s)
      OBVIOUS
    <3>5. /\ diff_application_epochs(d, e).caps = x
          /\ diff_application_epochs(d, e).effs = y
      BY <3>1, <3>2, <3>4 DEF diff_application_epochs, security_frontiers
    <3>6. /\ x.changed_between_epochs \/ x.advanced_since_after => x.advanced_since_before
          /\ y.changed_between_epochs \/ y.advanced_since_after => y.advanced_since_before
      BY <3>2, <3>3, <3>4, FrontiersCompare
    <3> QED
      BY <3>1, <3>2, <3>5, <3>6
  <2> QED
    BY <2>4, <2>5 DEF EpochsAreSound
<1> QED
  BY RecoveryInvariance, <1>1, PTL

\* The blobs of an epoch may be lost, but its rows never disagree.
LEMMA SourcesNeverDisagree ==
  ASSUME RecoveryInv, NEW e \in DOMAIN epochs
  PROVE  validated_application_source(e) \notin {"metadata_mismatch", "unsupported_mode", "not_found"}
<1>1. PICK art : art = epochs[e].art
  OBVIOUS
<1>2. load_epoch(e) = "ok"
  BY DEF load_epoch, RecoveryInv, EpochInv, Registered
<1>3. PICK ctx : art = ArtifactOf(ctx)
  BY <1>1 DEF RecoveryInv, EpochInv, Captured
<1>4. /\ art.blob = ContextBlob(ctx, TRUE) /\ art.safe_point = ctx.safe_point
      /\ art.revision = ctx.revision /\ art.boundary = ctx.boundary
  BY <1>3 DEF ArtifactOf
<1>5. art.blob[2] = ctx
  BY <1>4 DEF ContextBlob
<1>6. ContextCode(disk, ctx) \in {"invalid_context", "missing_reference", "integrity", "ok"}
  BY DEF ContextCode, validate_references
<1>7. restore(disk, art) \notin {"metadata_mismatch", "unsupported_mode", "not_found"}
  BY <1>4, <1>5, <1>6 DEF restore
<1>8. WorkspaceCode(epochs[e].ws) \notin {"metadata_mismatch", "unsupported_mode", "not_found"}
  BY DEF WorkspaceCode
<1> QED
  BY <1>1, <1>2, <1>7, <1>8 DEF validated_application_source

\* The last activation of a branch is of an epoch of that branch, and forks
\* have none.
LEMMA LastActivationIsOurs ==
  ASSUME RecoveryInv, NEW b \in DOMAIN branches
  PROVE  /\ b # Root => LastActivation(b) = 0
         /\ LastActivation(b) # 0 => LastActivation(b) \in DOMAIN epochs
<1>1. PICK acts, n : acts = OfKind(b, {Activation}) /\ n = Len(journal[b])
  OBVIOUS
<1>2. b \in DOMAIN journal /\ n \in Nat /\ DOMAIN journal[b] = 1..n
  BY <1>1 DEF RecoveryInv, JournalInv
<1>3. acts \subseteq 1..n
  BY <1>1, <1>2 DEF OfKind
<1>4. CASE acts = {}
  BY <1>1, <1>4 DEF LastActivation, Activation
<1>5. CASE acts # {}
  <2>1. Max(acts) \in acts
    BY <1>2, <1>3, <1>5, LastPosition
  <2>2. PICK i : i = Max(acts)
    OBVIOUS
  <2>3. i \in DOMAIN journal[b] /\ journal[b][i].kind = Activation
    BY <1>1, <2>1, <2>2 DEF OfKind
  <2>4. b = Root /\ journal[b][i].data.epoch \in DOMAIN epochs
    BY <1>2, <2>3, ActivationsAreOurs
  <2>5. LastActivation(b) = journal[b][i].data.epoch
    BY <1>1, <1>5, <2>2 DEF LastActivation, LastOf, Activation
  <2> QED
    BY <2>4, <2>5
<1> QED
  BY <1>4, <1>5

\* Status and inspection never find a branch that disagrees with its lineage,
\* and a fork replays what its creator was told, however often the parent was
\* checkpointed, activated and forked since and whatever blobs were lost.
THEOREM LineageStays == Spec => []LineageHolds
<1>1. RecoveryInv => LineageHolds
  <2> SUFFICES ASSUME RecoveryInv, NEW b \in DOMAIN branches
               PROVE  /\ application_status(b).code # "metadata_mismatch"
                      /\ LET seen == inspect_fork_branch(b)
                         IN  /\ seen.code = "unsupported_mode" <=> b = Root
                             /\ seen.code # "metadata_mismatch"
                             /\ seen.code = "ok" => /\ seen.replay = forked[b]
                                                    /\ application_status(b).inherited
    BY DEF LineageHolds
  <2>1. PICK row : row = branches[b]
    OBVIOUS
  <2>2. 0 \notin DOMAIN epochs
    BY DEF RecoveryInv, EpochInv
  <2>3. CASE b = Root
    <3>1. row.epoch = 0
      BY <2>1, <2>3 DEF RecoveryInv, ForkInv
    <3>2. inspect_fork_branch(b) = [code |-> "unsupported_mode"]
      BY <2>1, <3>1 DEF inspect_fork_branch, load_stored_fork
    <3>3. PICK a : a = LastActivation(b)
      OBVIOUS
    <3>4. CASE a = 0
      <4>1. status_without_activation(b).code = "ok"
        BY <2>1, <3>1 DEF status_without_activation
      <4> QED
        BY <2>3, <3>2, <3>3, <3>4, <4>1 DEF application_status
    <3>5. CASE a # 0
      <4>1. a \in DOMAIN epochs
        BY <3>3, <3>5, LastActivationIsOurs
      <4>2. epochs[a].branch = b /\ validated_application_source(a) # "metadata_mismatch"
        BY <2>3, <4>1, SourcesNeverDisagree DEF RecoveryInv, EpochInv
      <4>3. application_status(b).code # "metadata_mismatch"
        BY <3>3, <3>5, <4>2 DEF application_status
      <4> QED
        BY <2>3, <3>2, <4>3
    <3> QED
      BY <3>4, <3>5
  <2>4. CASE b # Root
    <3>1. /\ row.epoch \in DOMAIN epochs /\ LineageMatches(row)
          /\ forked[b] = replay_report(row.epoch)
      BY <2>1, <2>4 DEF RecoveryInv, ForkInv
    <3>2. row.epoch # 0
      BY <2>2, <3>1
    <3>3. PICK code, replay : code = validated_application_source(row.epoch)
                              /\ replay = replay_report(row.epoch)
      OBVIOUS
    <3>4. code \notin {"metadata_mismatch", "unsupported_mode"}
      BY <3>1, <3>3, SourcesNeverDisagree
    <3>5. LastActivation(b) = 0
      BY <2>4, LastActivationIsOurs
    <3>6. application_status(b) = status_without_activation(b)
      BY <3>5 DEF application_status
    <3>7. /\ status_without_activation(b).code = code
          /\ status_without_activation(b).inherited = TRUE
      BY <2>1, <3>1, <3>2, <3>3 DEF status_without_activation
    <3>8. load_stored_fork(b) = "ok"
      BY <2>1, <3>2 DEF load_stored_fork
    <3>9. CASE code = "ok"
      <4>1. inspect_fork_branch(b) = [code |-> "ok", replay |-> replay]
        BY <2>1, <3>1, <3>3, <3>8, <3>9 DEF inspect_fork_branch
      <4> QED
        BY <2>4, <3>1, <3>3, <3>4, <3>6, <3>7, <4>1
    <3>10. CASE code # "ok"
      <4>1. inspect_fork_branch(b) = [code |-> code]
        BY <2>1, <3>3, <3>8, <3>10 DEF inspect_fork_branch
      <4> QED
        BY <2>4, <3>4, <3>6, <3>7, <3>10, <4>1
    <3> QED
      BY <3>9, <3>10
  <2> QED
    BY <2>3, <2>4
<1> QED
  BY RecoveryInvariance, <1>1, PTL
=============================================================================
