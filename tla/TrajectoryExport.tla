--------------------------- MODULE TrajectoryExport ---------------------------
(***************************************************************************)
(* The trajectory export of one session (epoch-trajectory and the CLI's    *)
(* ml export), called by several processes while the session's run is      *)
(* being recorded, its root branch is suspended and restored, and forks    *)
(* are created.  Every query is one step: branches and events are read at  *)
(* different moments.                                                      *)
(*                                                                         *)
(* Only the root branch has events; nothing in the runtime records any on  *)
(* a fork.  A pseudonym is the tuple it is the digest of.                  *)
(***************************************************************************)
EXTENDS Naturals, Sequences, FiniteSets, SequencesExt

CONSTANTS
    ForkIds,        \* identities of the branches that forks create
    Kinds,          \* kinds of the agent's records, registered ones or not
    ForkEpochs,     \* epochs a fork may start from
    Exporters,      \* processes that export the session
    Rivals,         \* processes that have read another session and write to the same file
    Wanted,         \* what they ask for: [group, branches, events]
    HardBranches, HardEvents,      \* schema-v1 bounds of the two limits
    MaxRecords, MaxActivations     \* bounds: agent records, restores

VARIABLES
    branch_rows,    \* branch -> [id, parent, epoch, state, created]
    journal_events, \* the root branch's events
    run,            \* where the supervised run is, and how its process ended
    outcome_at,     \* history: the position the first event after the outcome was known has, 0 before
    file,           \* the output: {} or {[by, whole]}
    exporter        \* exporter -> the call it is in
store_vars == <<branch_rows, journal_events, run, outcome_at>>
export_vars == <<store_vars, file, exporter>>

RootId == "root"
NoEpoch == 0
NotAsked == [pc |-> "idle", ask |-> {}, branches |-> <<>>, records |-> <<>>, code |-> "none"]

-----------------------------------------------------------------------------
(* The runtime that records the session meanwhile. *)

EventOf(kind, status, monotonic_ns) ==
    [sequence |-> Len(journal_events), kind |-> kind, status |-> status, monotonic_ns |-> monotonic_ns]

\* append_event of the supervisor, its clock counted from the start of the run.
Records(kind, status) ==
    /\ journal_events' = Append(journal_events, EventOf(kind, status, Len(journal_events)))
    /\ UNCHANGED <<branch_rows, file, exporter>>

RunAt(stage) == run.at = stage
Reach(stage) == run' = [run EXCEPT !.at = stage]
Knows == outcome_at' = IF outcome_at = 0 THEN Len(journal_events) + 1 ELSE outcome_at

RunStarts ==
    /\ RunAt("new") /\ Reach("running")
    /\ Records("supervisor.run_started", "started") /\ UNCHANGED outcome_at

\* Records before the outcome, the agent's or about its process.
AgentRecords(kind) ==
    /\ RunAt("running") /\ ~run.complete /\ Len(journal_events) <= MaxRecords
    /\ Records(kind, "succeeded") /\ UNCHANGED <<run, outcome_at>>

AgentCompletes ==
    /\ RunAt("running") /\ ~run.complete /\ run' = [run EXCEPT !.complete = TRUE]
    /\ Knows /\ Records("agent.completion", "succeeded")

\* The end of the process: what it wrote to stderr, if anything, then its exit.
\* One that succeeds without a completion is a failure of the run instead.
Ended(ok) == ok => run.complete
ProcessStderr(ok) ==
    /\ RunAt("running") /\ Ended(ok)
    /\ run' = [run EXCEPT !.at = "stderr", !.ok = {ok}]
    /\ Knows /\ Records("process.stderr", "succeeded")
ProcessExited(ok) ==
    /\ (RunAt("running") /\ Ended(ok)) \/ (RunAt("stderr") /\ ok \in run.ok)
    /\ run' = [run EXCEPT !.at = "exited", !.ok = {ok}]
    /\ Knows /\ Records("process.exited", IF ok THEN "succeeded" ELSE "failed")

\* The run fails anywhere before its terminal state; the event may be lost.
SupervisionFails ==
    /\ run.at \in {"new", "running", "stderr", "exited"}
    /\ run' = [run EXCEPT !.at = "failed", !.ok = {FALSE}]
    /\ Knows
    /\ \/ Records("supervisor.failure", "failed")
       \/ UNCHANGED <<branch_rows, journal_events, file, exporter>>

TerminalState == IF TRUE \in run.ok THEN "completed" ELSE "failed"

mark_terminal_BeforeFailureEvent ==
    /\ run.at \in {"running", "exited", "failed"}
    /\ run' = IF RunAt("running") THEN run ELSE [run EXCEPT !.at = "ended"]
    /\ branch_rows' = [branch_rows EXCEPT ![RootId].state = TerminalState]
    /\ UNCHANGED <<journal_events, outcome_at, file, exporter>>

\* The states of session and branch come last, after every event of the run.
mark_terminal ==
    /\ RunAt("exited") \/ RunAt("failed")
    /\ Reach("ended")
    /\ branch_rows' = [branch_rows EXCEPT ![RootId].state = TerminalState]
    /\ UNCHANGED <<journal_events, outcome_at, file, exporter>>

\* mark_unknown of the effect gateway, for any branch.
Suspend(b) ==
    /\ branch_rows[b].state \in {"created", "running", "suspended", "completed"}
    /\ branch_rows' = [branch_rows EXCEPT ![b].state = "suspended"]
    /\ UNCHANGED <<journal_events, run, outcome_at, file, exporter>>

\* An epoch needs a run that completed.
Restorable == RunAt("ended") /\ TRUE \in run.ok

\* record_activation: an event outside the run, whose clock it does not have.
record_activation ==
    /\ Restorable /\ Len(journal_events) < MaxRecords + MaxActivations + 4
    /\ journal_events' = Append(journal_events, EventOf("application.context_restored", "succeeded", 0))
    /\ UNCHANGED <<branch_rows, run, outcome_at, file, exporter>>

\* Two forks may get creation times in either order, or the same one.
Fork(b, epoch, created) ==
    /\ Restorable /\ b \notin DOMAIN branch_rows
    /\ branch_rows' = [x \in DOMAIN branch_rows \cup {b} |->
                   IF x = b THEN [id |-> b, parent |-> {RootId}, epoch |-> epoch,
                                  state |-> "created", created |-> created]
                   ELSE branch_rows[x]]
    /\ UNCHANGED <<journal_events, run, outcome_at, file, exporter>>

-----------------------------------------------------------------------------
(* What one record says. *)

\* The paths from b to a branch without a parent, through the branches that were
\* read, and their length: no more parents than there are branches, or none.
Lineages(b, map, depth) ==
    {path \in [0 .. depth -> {b} \cup {map[id] : id \in DOMAIN map}] :
        /\ path[0] = b /\ path[depth].parent = {}
        /\ \A i \in 1 .. depth : \E p \in path[i - 1].parent : p \in DOMAIN map /\ path[i] = map[p]}
branch_depth(b, map, count) == {depth \in 0 .. count : Lineages(b, map, depth) # {}}

candidate_group(b) ==
    IF b.parent # {} /\ b.epoch # NoEpoch THEN <<"candidates", b.parent, b.epoch>>
    ELSE <<"root-candidate">>

is_terminal_outcome_kind(kind) ==
    kind \in {"agent.completion", "process.stderr", "process.exited", "supervisor.failure"}

ASSUME KindsAssumption == \A kind \in Kinds : ~is_terminal_outcome_kind(kind)

Registered == {"supervisor.run_started", "tool.call", "application.context_restored"}
normalized_event_kind(kind) == IF kind \in Registered THEN kind ELSE "other"

\* The rows before the first that tells the outcome.
RowsBeforeOutcome(rws) ==
    LET outcomes == {i \in DOMAIN rws : is_terminal_outcome_kind(rws[i].kind)}
    IN  IF outcomes = {} THEN Len(rws) ELSE Min(outcomes) - 1

\* The first n rows as events, unless a row up to where the loop stops is not the
\* one expected or the clock of one of them went back: the first that is wrong
\* tells, and of one row its position before its clock.
ReadRows(rws, limit, n) ==
    LET gaps == {i \in DOMAIN rws : i <= n + 1 /\ rws[i].sequence # i - 1}
        regressions == {i \in 2 .. n : rws[i].monotonic_ns < rws[i - 1].monotonic_ns}
        wrong == gaps \cup regressions
        code == CASE Len(rws) > limit -> "event_limit"
                  [] ~(Len(rws) > limit) /\ wrong = {} -> "ok"
                  [] OTHER -> IF Min(wrong) \in gaps THEN "non_contiguous" ELSE "clock_regression"
    IN  [code |-> code,
         events |-> [i \in 1 .. n |->
             [position |-> i - 1,
              delta |-> IF i = 1 THEN 0 ELSE rws[i].monotonic_ns - rws[i - 1].monotonic_ns,
              kind |-> normalized_event_kind(rws[i].kind), status |-> rws[i].status]]]

read_events_Past(rws, limit) == ReadRows(rws, limit, Len(rws))

read_events(rws, limit) == ReadRows(rws, limit, RowsBeforeOutcome(rws))

Statuses == {"started", "succeeded", "failed", "denied", "unknown"}
summarize(events) ==
    [count |-> Len(events),
     duration |-> FoldLeft(LAMBDA sum, e : sum + e.delta, 0, events),
     of |-> [s \in Statuses |-> Len(SelectSeq(events, LAMBDA e : e.status = s))]]

learning_labels(state) ==
    CASE state = "promoted" -> <<TRUE, 100>>
      [] state = "completed" -> <<TRUE, 75>>
      [] state \in {"failed", "abandoned"} -> <<FALSE, 0>>
      [] OTHER -> <<>>

-----------------------------------------------------------------------------
(* The export. *)

Returned(x, code) == exporter' = [exporter EXCEPT ![x] = [NotAsked EXCEPT !.pc = "returned", !.code = code]]
AskOf(x) == CHOOSE a \in exporter[x].ask : TRUE

validate_limits(ask) == ask.branches \in 1 .. HardBranches /\ ask.events \in 1 .. HardEvents

ExportBegins(x, ask) ==
    /\ exporter[x].pc = "idle"
    /\ IF ask.group /\ validate_limits(ask) /\ ask.session
       THEN exporter' = [exporter EXCEPT ![x].ask = {ask}, ![x].pc = "branches"]
       ELSE Returned(x, IF ~ask.group THEN "invalid_task_group"
                        ELSE IF ~validate_limits(ask) THEN "invalid_limits" ELSE "session_not_found")
    /\ UNCHANGED <<store_vars, file>>

\* The rows by the time they were created, equal times in any order.
InOrder(rws) ==
    {list \in [1 .. Cardinality(rws) -> rws] :
        ToSet(list) = rws /\ \A i, j \in DOMAIN list : i < j => list[i].created <= list[j].created}

\* One row more than the limit is asked for.
read_branches(x) ==
    /\ exporter[x].pc = "branches"
    /\ IF Cardinality(DOMAIN branch_rows) > AskOf(x).branches THEN Returned(x, "branch_limit")
       ELSE \E list \in InOrder({branch_rows[b] : b \in DOMAIN branch_rows}) :
               exporter' = [exporter EXCEPT ![x].pc = "events", ![x].branches = list]
    /\ UNCHANGED <<store_vars, file>>

RowsOf(b) == IF b = RootId THEN journal_events ELSE <<>>
BranchMap(branches) == [id \in {b.id : b \in ToSet(branches)} |-> CHOOSE b \in ToSet(branches) : b.id = id]
ReadAll(x) == Len(exporter[x].records) = Len(exporter[x].branches)

\* The next branch, with the state it had when the branches were read and the
\* events it has now.
ExportBranch(x) ==
    /\ exporter[x].pc = "events" /\ ~ReadAll(x)
    /\ LET branches == exporter[x].branches
           b == branches[Len(exporter[x].records) + 1]
           depth == branch_depth(b, BranchMap(branches), Len(branches))
           read == read_events(RowsOf(b.id), AskOf(x).events)
           record == [branch |-> b, group |-> candidate_group(b), depth |-> depth,
                      label |-> learning_labels(b.state), events |-> read.events,
                      summary |-> summarize(read.events)]
       IN  IF depth = {} THEN Returned(x, "invalid_lineage")
           ELSE IF read.code # "ok" THEN Returned(x, read.code)
           ELSE exporter' = [exporter EXCEPT ![x].records = Append(@, record)]
    /\ UNCHANGED <<store_vars, file>>

-----------------------------------------------------------------------------
(* The output. *)

OutputExists(x) ==
    /\ exporter[x].pc = "events" /\ ReadAll(x)
    /\ IF file # {} THEN Returned(x, "output_exists")
       ELSE exporter' = [exporter EXCEPT ![x].pc = "create"]
    /\ UNCHANGED <<store_vars, file>>

CreateOutput_RemovesOnError(x) ==
    /\ exporter[x].pc = "create"
    /\ IF file = {} THEN /\ file' = {[by |-> x, whole |-> FALSE]}
                         /\ exporter' = [exporter EXCEPT ![x].pc = "write"]
       ELSE file' = {} /\ Returned(x, "output")
    /\ UNCHANGED store_vars

\* create_new decides a race that the check above does not.
CreateOutput(x) ==
    /\ exporter[x].pc = "create"
    /\ IF file = {} THEN /\ file' = {[by |-> x, whole |-> FALSE]}
                         /\ exporter' = [exporter EXCEPT ![x].pc = "write"]
       ELSE Returned(x, "output") /\ UNCHANGED file
    /\ UNCHANGED store_vars

\* The lines, the flush and the sync, until which the file may have any part of
\* them; an error takes the file away.
WriteLines(x) ==
    /\ exporter[x].pc = "write"
    /\ file' = {[by |-> x, whole |-> TRUE]}
    /\ Returned(x, "ok") /\ UNCHANGED store_vars
WriteFails(x) ==
    /\ exporter[x].pc = "write"
    /\ file' = {} /\ Returned(x, "io") /\ UNCHANGED store_vars

\* The process stops; the operator may take the file of a dead export away.
ExporterDies(x) ==
    /\ exporter[x].pc \notin {"idle", "returned", "dead"}
    /\ exporter' = [exporter EXCEPT ![x] = [NotAsked EXCEPT !.pc = "dead"]] /\ UNCHANGED <<store_vars, file>>
RemoveOutput ==
    /\ \E f \in file : exporter[f.by].pc = "dead"
    /\ file' = {} /\ UNCHANGED <<store_vars, exporter>>

\* is_user_error, and the exit code the command makes of it.
is_user_error(code) ==
    code \in {"invalid_task_group", "invalid_limits", "session_not_found", "branch_limit",
              "event_limit", "output_exists", "output", "io"}
ExitCode(code) == IF code = "ok" THEN 0 ELSE IF is_user_error(code) THEN 2 ELSE 125

ExportInit ==
    /\ branch_rows = [b \in {RootId} |-> [id |-> RootId, parent |-> {}, epoch |-> NoEpoch,
                                   state |-> "running", created |-> 1]]
    /\ journal_events = <<>> /\ run = [at |-> "new", complete |-> FALSE, ok |-> {}] /\ outcome_at = 0
    /\ file = {} /\ exporter = [x \in Exporters \cup Rivals |->
                                 IF x \in Rivals THEN [NotAsked EXCEPT !.pc = "events"] ELSE NotAsked]

ExportNext ==
    \/ RunStarts \/ AgentCompletes \/ SupervisionFails
    \/ \E ok \in BOOLEAN : ProcessStderr(ok) \/ ProcessExited(ok)
    \/ mark_terminal \/ record_activation \/ RemoveOutput
    \/ \E kind \in Kinds : AgentRecords(kind)
    \/ \E b \in DOMAIN branch_rows : Suspend(b)
    \/ \E b \in ForkIds, epoch \in ForkEpochs, created \in 0 .. 1 : Fork(b, epoch, created)
    \/ \E x \in Exporters :
          (\E ask \in Wanted : ExportBegins(x, ask)) \/ read_branches(x) \/ ExportBranch(x)
    \/ \E x \in Exporters \cup Rivals :
          OutputExists(x) \/ CreateOutput(x) \/ WriteLines(x) \/ WriteFails(x) \/ ExporterDies(x)

ExportSpec == ExportInit /\ [][ExportNext]_export_vars

-----------------------------------------------------------------------------
\* No outcome leaks into a timeline and no label is put on part of one: no
\* exported event was recorded after the run's outcome was known, and a record
\* with a label has every event recorded before that, although states and events
\* are read at different moments of a run that goes on.
TimelineIsExact ==
    \A x \in Exporters : \A i \in DOMAIN exporter[x].records :
        LET r == exporter[x].records[i] IN
        r.branch.id = RootId =>
            /\ outcome_at # 0 => Len(r.events) < outcome_at
            /\ r.label # <<>> => Len(r.events) = outcome_at - 1

\* A session this runtime recorded can be exported whenever the request is
\* sound: whatever runs, failures, suspensions, restores and forks it has seen,
\* an export that is refused names a limit, an argument or the output, and never
\* blames the trusted state.
RefusalIsOfTheRequest ==
    \A x \in DOMAIN exporter : exporter[x].pc = "returned" => ExitCode(exporter[x].code) # 125

\* Of exports racing for one file, one that reports success finds all of its own
\* records there, and a partial file is of an export still writing or dead.
OutputIsWhole ==
    /\ \A x \in DOMAIN exporter : exporter[x].code = "ok" =>
          file = {[by |-> x, whole |-> TRUE]}
    /\ \A f \in file : exporter[f.by].pc \in {"write", "dead"} \/ exporter[f.by].code = "ok"
=============================================================================
