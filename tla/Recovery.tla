------------------------------- MODULE Recovery -------------------------------
(***************************************************************************)
(* Checkpoints, restores, forks and status of one session                  *)
(* (epoch-supervisor, recovery.rs and fork.rs), called by several          *)
(* processes while the session's run is still recording events, its        *)
(* workspace changes, effects suspend its branches and blobs get lost.     *)
(*                                                                         *)
(* The run is a script: the events the supervisor records, then the state  *)
(* it leaves the session in.  A database transaction is one step; so is a  *)
(* query; the calls around them interleave.  A journal event is            *)
(* [kind, seq, data], seq being the protocol sequence of the record.  The  *)
(* digest of a value is the value itself.                                  *)
(***************************************************************************)
EXTENDS ApplicationCheckpoint, SequencesExt

CONSTANTS
    Scripts,      \* possible runs: [events, ends, refs, taken]
    Forks,        \* identities of the branches that forks create
    Names,        \* branch names asked for, some of them invalid
    Targets,      \* restore targets
    Procs,        \* processes calling the supervisor
    MaxOps,       \* bound: calls
    MaxTurns      \* bound: edits, security steps, suspensions and losses

VARIABLES
    script,       \* the run of this session
    session,      \* sessions.state
    branches,     \* branch -> its row
    journal,      \* branch -> events, in order
    ws,           \* version of the declared working directory
    disk,         \* blob -> "whole" or "bad"
    registry,     \* blobs table: blob -> media type
    epochs,       \* committed epochs, in order of commit
    caps, effs,   \* branch -> rows counted by the two security frontiers
    tree,         \* target -> the workspace version restored there, {} if absent
    proc,         \* process -> [pc and the call's local values]
    forked,       \* history: fork -> the report its creator got
    ops, turns

\* A run records stderr once its readers are joined, after every record of the
\* agent, and only restore_application records activations.
Reading == {"process.stderr", "safe_point", "context.update", "model.response", "tool.result"}
ASSUME ScriptsAssumption ==
    \A s \in Scripts :
      /\ s.events \in Seq(Range(s.events)) /\ s.ends \in {"completed", "failed"}
      /\ \A i \in DOMAIN s.events : s.events[i].kind # "application.context_restored"
      /\ \A i, j \in DOMAIN s.events :
            i < j /\ s.events[i].kind = "process.stderr" => s.events[j].kind \notin Reading

vars == <<script, session, branches, journal, ws, disk, registry, epochs, caps, effs,
          tree, proc, forked, ops, turns>>

None == "none"
Root == "root"
ContextMedia == "application-context"
ManifestMedia == "workspace-manifest"

WorkspaceBlob(v) == <<"ws", v, TRUE>>
\* A table with one row more, or one row changed.
Put(f, key, row) == [k \in {key} \cup DOMAIN f |-> IF k = key THEN row ELSE f[k]]

Idle == [pc |-> "idle", code |-> None]

-----------------------------------------------------------------------------
(* Reading the journal. *)

\* A query by kind finds these positions in the journal of the branch.
OfKind(b, kinds) == {i \in DOMAIN journal[b] : journal[b][i].kind \in kinds}
LastOf(b, kind) == journal[b][Max(OfKind(b, {kind}))]

\* resolve_branch: a named branch of the session, or the only one.
resolve_branch(requested) ==
    CASE requested \in DOMAIN branches -> requested
      [] requested = None /\ DOMAIN branches = {Root} -> Root
      [] OTHER -> None

\* validate_boundary: the last safe point and the last context update, in
\* that order in the journal and both with the hash of the captured state.
validate_boundary(b, hash) ==
    LET safe == OfKind(b, {"safe_point"})
        upd == OfKind(b, {"context.update"})
    IN  /\ safe # {} /\ upd # {}
        /\ LastOf(b, "safe_point").data.hash = hash
        /\ Max(upd) < Max(safe)
        /\ LastOf(b, "context.update").data.hash = hash

\* validate_capture: what the summary on stderr says against what the journal
\* says.  The summary counts the safe point, the completion and everything
\* before them.
validate_capture(b, sum) ==
    LET ctx == sum.ctx
        safe == LastOf(b, "safe_point")
        upd == LastOf(b, "context.update")
    IN  /\ sum.state_hash = sum.state
        /\ validate_boundary(b, sum.state)
        /\ ctx.safe_point = safe.data.id
        /\ ctx.revision = upd.data.revision
        /\ ctx.boundary = safe.seq
        /\ ctx.seed = sum.state.seed
        /\ ctx.message = 2
        /\ sum.event_count = safe.seq + 2
        /\ ctx.tool = Len(sum.state.tools) /\ ctx.task = Len(sum.state.tools)
        /\ ctx.registry = ToSet(sum.state.tools)

\* capture_w02_context: the last stderr event must decode to a summary.
capture_w02_context(b) ==
    LET err == LastOf(b, "process.stderr")
    IN  IF OfKind(b, {"process.stderr"}) = {} \/ ~err.data.summary THEN "no_cooperative_safe_point"
        ELSE IF ~validate_capture(b, err.data) THEN "invalid_capture"
        ELSE "ok"

\* declared_workspace: exactly one run-start record names the directory.
declared_workspace(b) ==
    LET starts == OfKind(b, {"run_started"})
    IN  CASE starts = {} -> "invalid_capture"
          [] Cardinality(starts) > 1 -> "metadata_mismatch"
          [] OTHER -> "ok"

\* security_frontiers: counts of append-only rows of the branch.
security_frontiers(b) == [cap |-> caps[b], eff |-> effs[b]]

-----------------------------------------------------------------------------
(* Reading an epoch. *)

\* load_epoch: a committed row whose two components agree with the blobs
\* table; it names the artifact and the workspace.
load_epoch(e) ==
    IF e \notin DOMAIN epochs THEN "not_found"
    ELSE IF \/ registry[epochs[e].art.blob] # ContextMedia
            \/ registry[WorkspaceBlob(epochs[e].ws)] # ManifestMedia
    THEN "metadata_mismatch" ELSE "ok"

\* WorkspaceBackend::validate of the epoch's snapshot.
WorkspaceCode(v) ==
    IF WorkspaceBlob(v) \notin DOMAIN disk THEN "missing_reference"
    ELSE IF disk[WorkspaceBlob(v)] = "bad" THEN "integrity"
    ELSE "ok"

\* validated_application_source, and restore_application in Inspect mode:
\* both components are read and validated, nothing is changed.
validated_application_source(e) ==
    IF load_epoch(e) # "ok" THEN load_epoch(e)
    ELSE IF restore(disk, epochs[e].art) # "ok" THEN restore(disk, epochs[e].art)
    ELSE WorkspaceCode(epochs[e].ws)

LastActivation_AnyBranch(b) ==
    LET acts == OfKind(Root, {"application.context_restored"})
    IN  IF acts = {} THEN 0 ELSE LastOf(Root, "application.context_restored").data.epoch

\* The epoch of the branch's last activation event, 0 if it has none.
LastActivation(b) ==
    LET acts == OfKind(b, {"application.context_restored"})
    IN  IF acts = {} THEN 0 ELSE LastOf(b, "application.context_restored").data.epoch

\* The lineage columns of a fork against the epoch it was forked from; the
\* check of inspect_fork_branch and of a status without activation.
LineageMatches(row) ==
    /\ epochs[row.epoch].branch = row.parent
    /\ epochs[row.epoch].art.blob = row.component
    /\ epochs[row.epoch].art.boundary = row.point

\* status_without_activation: nothing for the root, the validated source of a
\* fork, inherited from its parent.
status_without_activation(b) ==
    LET row == branches[b]
    IN  IF row.epoch = 0
        THEN [code |-> "ok", epoch |-> 0, inherited |-> FALSE]
        ELSE [code |-> IF validated_application_source(row.epoch) # "ok"
                       THEN validated_application_source(row.epoch)
                       ELSE IF LineageMatches(row) THEN "ok" ELSE "metadata_mismatch",
              epoch |-> row.epoch, inherited |-> TRUE]

\* application_status: the last activated epoch must belong to the branch.
application_status(b) ==
    LET e == LastActivation(b)
    IN  IF e = 0 THEN status_without_activation(b)
        ELSE [code |-> IF validated_application_source(e) # "ok"
                       THEN validated_application_source(e)
                       ELSE IF epochs[e].branch = b THEN "ok" ELSE "metadata_mismatch",
              epoch |-> e, inherited |-> FALSE]

\* replay_report: the recorded model and tool results up to the boundary.  The
\* sort by protocol sequence is stable, so the two lists are determined by the
\* events in them and the places these have in the journal.
replay_report(e) ==
    LET b == epochs[e].branch
        UpTo(kind) == {<<i, journal[b][i]>> :
                         i \in {j \in OfKind(b, {kind}) : journal[b][j].seq <= epochs[e].art.boundary}}
    IN  [model |-> UpTo("model.response"), tool |-> UpTo("tool.result")]

\* load_stored_fork: a branch with complete lineage columns.
load_stored_fork(b) ==
    IF b \notin DOMAIN branches THEN "not_found"
    ELSE IF branches[b].epoch = 0 THEN "unsupported_mode" ELSE "ok"

\* inspect_fork_branch: the stored lineage, revalidated after any restart.
inspect_fork_branch(b) ==
    LET row == branches[b]
        code == validated_application_source(row.epoch)
    IN  IF load_stored_fork(b) # "ok" THEN [code |-> load_stored_fork(b)]
        ELSE IF code # "ok" THEN [code |-> code]
        ELSE IF ~LineageMatches(row) THEN [code |-> "metadata_mismatch"]
        ELSE [code |-> "ok", replay |-> replay_report(row.epoch)]

\* diff_application_epochs, the security part: two epochs' frontiers and what
\* their scopes count now.
frontier_diff(before, after, nowBefore, nowAfter) ==
    [changed_between_epochs |-> before # after,
     advanced_since_before |-> nowBefore > before,
     advanced_since_after |-> nowAfter > after]

diff_application_epochs(d, e) ==
    LET at == epochs[d].frontier
        to == epochs[e].frontier
        nowD == security_frontiers(epochs[d].branch)
        nowE == security_frontiers(epochs[e].branch)
    IN  [caps |-> frontier_diff(at.cap, to.cap, nowD.cap, nowE.cap),
         effs |-> frontier_diff(at.eff, to.eff, nowD.eff, nowE.eff),
         workspace |-> epochs[d].ws = epochs[e].ws]

-----------------------------------------------------------------------------
(* The run and what happens around the calls. *)

Quiet == <<script, registry, epochs, tree, proc, forked, ops>>

\* The supervisor records the next event of the run.
RunRecords ==
    /\ session = "running" /\ Len(journal[Root]) < Len(script.events)
    /\ journal' = [journal EXCEPT ![Root] = Append(@, script.events[Len(@) + 1])]
    /\ UNCHANGED <<session, branches, ws, disk, caps, effs, turns, Quiet>>

\* The outcome: session and branch in one transaction, whatever state the
\* branch was in.
RunEnds ==
    /\ session = "running" /\ Len(journal[Root]) = Len(script.events)
    /\ session' = script.ends
    /\ branches' = [branches EXCEPT ![Root].state = script.ends]
    /\ UNCHANGED <<journal, ws, disk, caps, effs, turns, Quiet>>

Turn == turns < MaxTurns /\ turns' = turns + 1

EditWorkspace ==
    /\ Turn /\ ws' = ws + 1
    /\ UNCHANGED <<session, branches, journal, disk, caps, effs, Quiet>>

\* A grant, a decision or an effect transition adds a row to the branch.
SecurityStep(b) ==
    /\ Turn
    /\ \/ caps' = [caps EXCEPT ![b] = @ + 1] /\ UNCHANGED effs
       \/ effs' = [effs EXCEPT ![b] = @ + 1] /\ UNCHANGED caps
    /\ UNCHANGED <<session, branches, journal, ws, disk, Quiet>>

\* EffectGateway::mark_unknown suspends the branch of an ambiguous effect.
SuspendBranch(b) ==
    /\ Turn
    /\ branches[b].state \in {"created", "running", "completed"}
    /\ branches' = [branches EXCEPT ![b].state = "suspended"]
    /\ effs' = [effs EXCEPT ![b] = @ + 1]
    /\ UNCHANGED <<session, journal, ws, disk, caps, Quiet>>

LoseBlob(h) ==
    /\ Turn /\ h \in DOMAIN disk /\ disk[h] = "whole"
    /\ \/ disk' = [disk EXCEPT ![h] = "bad"]
       \/ disk' = [k \in DOMAIN disk \ {h} |-> disk[k]]
    /\ UNCHANGED <<session, branches, journal, ws, caps, effs, Quiet>>

-----------------------------------------------------------------------------
(* The calls. *)

Begins(p) == proc[p].pc = "idle" /\ ops < MaxOps /\ ops' = ops + 1
Answers(p, code) == proc' = [proc EXCEPT ![p] = [Idle EXCEPT !.code = code]]
Around == <<script, session, ws, caps, effs, turns>>

CheckpointBegins(p, requested) ==
    /\ Begins(p)
    /\ LET b == resolve_branch(requested)
       IN IF b = None
          THEN Answers(p, IF requested = None THEN "branch_required" ELSE "not_found")
          ELSE proc' = [proc EXCEPT ![p] = [pc |-> "capture", code |-> None, branch |-> b]]
    /\ UNCHANGED <<branches, journal, disk, registry, epochs, tree, forked, Around>>

\* The context: from the journal, through the checkpoint backend, to a blob.
CapturesContext(p) ==
    /\ proc[p].pc = "capture"
    /\ LET b == proc[p].branch
           ctx == LastOf(b, "process.stderr").data.ctx
       IN IF capture_w02_context(b) # "ok"
          THEN Answers(p, capture_w02_context(b)) /\ UNCHANGED disk
          ELSE IF capture(disk, ctx) # "ok"
          THEN Answers(p, capture(disk, ctx)) /\ UNCHANGED disk
          ELSE /\ disk' = Put(disk, ContextBlob(ctx, TRUE), "whole")
               /\ proc' = [proc EXCEPT ![p] = [pc |-> "snapshot", code |-> None, branch |-> b,
                     art |-> ArtifactOf(ctx), seen |-> security_frontiers(b)]]
    /\ UNCHANGED <<branches, journal, registry, epochs, tree, forked, ops, Around>>

\* The workspace as it is now, which may be later than the safe point.
SnapshotsWorkspace(p, ok) ==
    /\ proc[p].pc = "snapshot"
    /\ LET b == proc[p].branch
           bad == WorkspaceBlob(ws) \in DOMAIN disk /\ disk[WorkspaceBlob(ws)] = "bad"
       IN IF declared_workspace(b) # "ok"
          THEN Answers(p, declared_workspace(b)) /\ UNCHANGED disk
          ELSE IF ~ok \/ bad
          THEN Answers(p, "workspace") /\ UNCHANGED disk
          ELSE /\ disk' = Put(disk, WorkspaceBlob(ws), "whole")
               /\ proc' = [proc EXCEPT ![p] = [pc |-> "persist", code |-> None, branch |-> b,
                     art |-> proc[p].art, seen |-> proc[p].seen, ws |-> ws]]
    /\ UNCHANGED <<branches, journal, registry, epochs, tree, forked, ops, Around>>

ensure_completed_scope_Skipped(b) == TRUE

ensure_completed_scope(b) == session = "completed" /\ branches[b].state = "completed"

\* Registering a blob keeps a row that is already there; it must then agree.
Register(reg, blob, media) == IF blob \in DOMAIN reg THEN reg ELSE Put(reg, blob, media)

OfBranch(b) == {e \in DOMAIN epochs : epochs[e].branch = b}

\* next_epoch: one more than the latest committed sequence, whose epoch is
\* the parent.
next_epoch(b) ==
    LET own == OfBranch(b)
        latest == CHOOSE e \in own : \A f \in own : epochs[f].seq <= epochs[e].seq
    IN  IF own = {} THEN [seq |-> 0, parent |-> 0]
        ELSE [seq |-> epochs[latest].seq + 1, parent |-> latest]

CommittedFrontiers(p) == security_frontiers(proc[p].branch)

\* persist_checkpoint: one immediate transaction, or an I/O error.  The unique
\* index on a branch's sequences has nothing to refuse there, as the sequence is
\* read in the same transaction.
PersistsCheckpoint(p, ok) ==
    /\ proc[p].pc = "persist"
    /\ LET b == proc[p].branch
           art == proc[p].art
           v == proc[p].ws
           reg == Register(Register(registry, art.blob, ContextMedia),
                           WorkspaceBlob(v), ManifestMedia)
           agrees == reg[art.blob] = ContextMedia /\ reg[WorkspaceBlob(v)] = ManifestMedia
           n == next_epoch(b)
       IN \/ /\ ok /\ ensure_completed_scope(b) /\ agrees
             /\ registry' = reg
             /\ epochs' = Append(epochs, [branch |-> b, seq |-> n.seq, parent |-> n.parent,
                             art |-> art, ws |-> v, frontier |-> CommittedFrontiers(p)])
             /\ Answers(p, "ok")
          \/ /\ ~(ok /\ ensure_completed_scope(b) /\ agrees)
             /\ Answers(p, IF ~ok THEN "io"
                           ELSE IF ~ensure_completed_scope(b) THEN "invalid_capture"
                           ELSE "metadata_mismatch")
             /\ UNCHANGED <<registry, epochs>>
    /\ UNCHANGED <<branches, journal, disk, tree, forked, ops, Around>>

\* restore_application: load and validate; Inspect stops there.
RestoreBegins(p, e, activate, t) ==
    /\ Begins(p)
    /\ LET code == validated_application_source(e)
       IN IF code # "ok" THEN Answers(p, code)
          ELSE IF ~activate THEN Answers(p, "ok")
          ELSE IF t = None THEN Answers(p, "invalid_capture")
          ELSE proc' = [proc EXCEPT ![p] = [pc |-> "publish", code |-> None, epoch |-> e, target |-> t]]
    /\ UNCHANGED <<branches, journal, disk, registry, epochs, tree, forked, Around>>

PublishesWorkspace_AfterRecord(p, outcome) ==
    /\ proc[p].pc = "publish"
    /\ proc' = [proc EXCEPT ![p].pc = "record"]
    /\ UNCHANGED <<tree, branches, journal, disk, registry, epochs, forked, ops, Around>>

\* WorkspaceBackend::restore: publishes into an absent target; it can fail
\* before the rename, or after it when syncing the parent.  The snapshot is
\* validated again, so a blob lost meanwhile is an error too.
PublishesWorkspace(p, outcome) ==
    /\ proc[p].pc = "publish"
    /\ LET t == proc[p].target
           v == epochs[proc[p].epoch].ws
       IN \/ /\ tree[t] # {} \/ WorkspaceCode(v) # "ok"
             /\ outcome = "ok"
             /\ Answers(p, IF WorkspaceCode(v) # "ok" THEN WorkspaceCode(v) ELSE "target_exists")
             /\ UNCHANGED tree
          \/ /\ tree[t] = {} /\ WorkspaceCode(v) = "ok"
             /\ tree' = IF outcome = "before" THEN tree ELSE [tree EXCEPT ![t] = {v}]
             /\ IF outcome = "ok" THEN proc' = [proc EXCEPT ![p].pc = "record"]
                ELSE Answers(p, "storage")
    /\ UNCHANGED <<branches, journal, disk, registry, epochs, forked, ops, Around>>

\* record_activation appends to the journal of the epoch's own branch; if that
\* fails the published workspace stays and the call fails.
RecordsActivation(p, ok) ==
    /\ proc[p].pc = "record"
    /\ LET e == proc[p].epoch
           ev == [kind |-> "application.context_restored", seq |-> 0,
                  data |-> [epoch |-> e, target |-> proc[p].target]]
       IN IF ok
          THEN /\ journal' = [journal EXCEPT ![epochs[e].branch] = Append(@, ev)]
               /\ Answers(p, "ok")
          ELSE Answers(p, "io") /\ UNCHANGED journal
    /\ UNCHANGED <<branches, disk, registry, epochs, tree, forked, ops, Around>>

valid_branch_name(name) == name # ""

\* fork_application_epoch: the name, the source and the replay are checked
\* and read before the transaction.
ForkBegins(p, e, name) ==
    /\ Begins(p)
    /\ LET code == validated_application_source(e)
       IN IF ~valid_branch_name(name) THEN Answers(p, "invalid_branch_name")
          ELSE IF code # "ok" THEN Answers(p, code)
          ELSE proc' = [proc EXCEPT ![p] = [pc |-> "fork", code |-> None, epoch |-> e,
                  name |-> name, replay |-> replay_report(e)]]
    /\ UNCHANGED <<branches, journal, disk, registry, epochs, tree, forked, Around>>

ensure_name_available(name) == \A b \in DOMAIN branches : branches[b].name # name

\* ensure_source_unchanged, and the trigger on the insert that says the same.
ensure_source_unchanged(e) == e \in DOMAIN epochs

ForkRow(e, name) ==
    [state |-> "created", name |-> name, parent |-> epochs[e].branch, epoch |-> e,
     point |-> epochs[e].art.boundary, component |-> epochs[e].art.blob]

\* persist_fork: one immediate transaction, which looks the name up again; the
\* unique index on names has nothing left to refuse.
PersistsFork(p, ok) ==
    /\ proc[p].pc = "fork" /\ Forks \ DOMAIN branches # {}
    /\ LET e == proc[p].epoch
           name == proc[p].name
           b == CHOOSE f \in Forks : f \notin DOMAIN branches
           code == IF ~ok THEN "io"
                   ELSE IF ~ensure_name_available(name) THEN "branch_name_conflict"
                   ELSE IF ~ensure_source_unchanged(e) THEN "metadata_mismatch"
                   ELSE "ok"
       IN /\ Answers(p, code)
          /\ IF code = "ok"
             THEN /\ branches' = Put(branches, b, ForkRow(e, name))
                  /\ journal' = Put(journal, b, <<>>)
                  /\ caps' = Put(caps, b, 0)
                  /\ effs' = Put(effs, b, 0)
                  /\ forked' = Put(forked, b, proc[p].replay)
             ELSE UNCHANGED <<branches, journal, caps, effs, forked>>
    /\ UNCHANGED <<disk, registry, epochs, tree, ops, script, session, ws, turns>>

\* The process dies between two steps; a transaction is all or nothing.
Dies(p) ==
    /\ proc[p].pc # "idle"
    /\ Answers(p, "died")
    /\ UNCHANGED <<branches, journal, disk, registry, epochs, tree, forked, ops, Around>>

-----------------------------------------------------------------------------
RootRow == [state |-> "running", name |-> None, parent |-> None, epoch |-> 0,
            point |-> 0, component |-> None]

Init ==
    /\ script \in Scripts
    /\ session = "running"
    /\ branches = [b \in {Root} |-> RootRow]
    /\ journal = [b \in {Root} |-> <<>>]
    /\ ws = 0
    /\ disk = [h \in {ReferenceBlob(r) : r \in script.refs} |-> "whole"]
    /\ registry = [h \in script.taken |-> "other"]
    /\ epochs = <<>>
    /\ caps = [b \in {Root} |-> 0] /\ effs = [b \in {Root} |-> 0]
    /\ tree = [t \in Targets |-> {}]
    /\ proc = [p \in Procs |-> Idle]
    /\ forked = <<>>
    /\ ops = 0 /\ turns = 0

Step(p) ==
    \/ CapturesContext(p)
    \/ \E ok \in BOOLEAN : SnapshotsWorkspace(p, ok) \/ PersistsCheckpoint(p, ok)
                            \/ RecordsActivation(p, ok) \/ PersistsFork(p, ok)
    \/ \E outcome \in {"ok", "before", "after"} : PublishesWorkspace(p, outcome)
    \/ Dies(p)

Call(p) ==
    \/ \E b \in {Root, None} \cup Forks : CheckpointBegins(p, b)
    \/ \E e \in 1 .. Len(epochs) + 1 :
         \/ \E activate \in BOOLEAN, t \in Targets \cup {None} : RestoreBegins(p, e, activate, t)
         \/ \E name \in Names : ForkBegins(p, e, name)

Next ==
    \/ RunRecords \/ RunEnds \/ EditWorkspace
    \/ \E b \in DOMAIN branches : SecurityStep(b) \/ SuspendBranch(b)
    \/ \E h \in DOMAIN disk : LoseBlob(h)
    \/ \E p \in Procs : Call(p) \/ Step(p)

Spec == Init /\ [][Next]_vars

-----------------------------------------------------------------------------
(* Properties. *)

\* However early a checkpoint starts reading, it commits only the final state
\* of a run that completed: a run that fails after publishing its summary has
\* no epoch, and every epoch holds the context the finished journal names.
\* The epochs of a branch form one chain in commit order whose security
\* frontiers never go back, however the checkpoints that made them overlapped;
\* a diff that reports new authority or effects since an epoch therefore
\* reports them for every earlier epoch too, as does one that sees a change.
EpochsAreSound ==
    /\ \A e \in DOMAIN epochs :
          /\ session = "completed"
          /\ validate_capture(epochs[e].branch, LastOf(epochs[e].branch, "process.stderr").data)
          /\ epochs[e].art = ArtifactOf(LastOf(epochs[e].branch, "process.stderr").data.ctx)
          /\ epochs[e].seq = Cardinality({f \in OfBranch(epochs[e].branch) : f < e})
          /\ epochs[e].seq > 0 => epochs[epochs[e].parent].seq = epochs[e].seq - 1
    /\ \A d, e \in DOMAIN epochs : epochs[d].branch = epochs[e].branch /\ d < e =>
          /\ epochs[d].frontier.cap <= epochs[e].frontier.cap
          /\ epochs[d].frontier.eff <= epochs[e].frontier.eff
          /\ LET diff == diff_application_epochs(d, e)
             IN  \A part \in {diff.caps, diff.effs} :
                   part.changed_between_epochs \/ part.advanced_since_after
                     => part.advanced_since_before

\* An activation on record is one that took place: its target holds the
\* workspace of its epoch, whatever failed or died around it.
ActivationsArePublished ==
    \A b \in DOMAIN journal : \A i \in DOMAIN journal[b] :
      LET ev == journal[b][i]
      IN  ev.kind = "application.context_restored" =>
            tree[ev.data.target] = {epochs[ev.data.epoch].ws}

\* Status and inspection never find a branch that disagrees with its own
\* lineage, and a fork replays what was reported when it was made, however
\* often its parent was checkpointed, activated and forked since.
LineageHolds ==
    \A b \in DOMAIN branches :
      /\ application_status(b).code # "metadata_mismatch"
      /\ LET seen == inspect_fork_branch(b)
         IN  /\ seen.code = "unsupported_mode" <=> b = Root
             /\ seen.code # "metadata_mismatch"
             /\ seen.code = "ok" => /\ seen.replay = forked[b]
                                    /\ application_status(b).inherited
=============================================================================
