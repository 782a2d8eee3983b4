------------------------------ MODULE CriuCompat ------------------------------
(***************************************************************************)
(* The CRIU compatibility laboratory (epoch-criu-compat): a matrix of      *)
(* scenarios, each of which starts a fixture, dumps it with CRIU, restores *)
(* it, watches the files of its workspace advance and kills it, and a      *)
(* report with one row per point of the matrix, one log artifact per name, *)
(* and a decision.                                                         *)
(*                                                                         *)
(* CRIU and the kernel are external: a command's outcome is any member of  *)
(* Commands, and any part of a tree that was restored may never run again. *)
(* The fixture writes its files whenever it is not frozen, and they are    *)
(* read one at a time.  File p >= 1 is the heartbeat of process p (of the  *)
(* leader, p = 1); file 0 is open-file.log or workspace-mutation.txt.      *)
(* Artifact names are <<row, stage>>; the probe's are of row 0.            *)
(***************************************************************************)
EXTENDS Naturals, Sequences, FiniteSets, SequencesExt

CONSTANTS
    Configs,        \* runner inputs
    Machines,       \* [os, criu, fixture]: what discovery finds
    Declared,       \* Scenario::DECLARED, or some of it
    Commands,       \* [launched, exit, timed_out, stdout, stderr, says, latency]
    CriuLogs,       \* sizes of the log file CRIU leaves behind
    MaxTicks        \* bound: how often one file is written

ASSUME LabAssumption ==
    /\ Declared \in Seq(STRING) /\ Declared # <<>>
    /\ \A c \in Configs : c.memory \in Seq(Nat) /\ c.counts \in Seq(Nat)
    /\ \A c \in Commands : {c.stdout, c.stderr, c.latency} \subseteq Nat
    /\ CriuLogs \subseteq Nat

VARIABLES
    lab,            \* "new", "probe", "row", "snapshot", "dump", "restore",
                    \* "verify", "decide", "write", "done", "refused", "error"
    config, machine,
    rows,           \* the rows of the report so far
    artifacts,      \* names of the log artifacts, in the order pushed
    fixture,        \* "none", "running", "frozen", "gone"
    written,        \* file of the row's workspace -> how often it was written
    torn,           \* files emptied and not written again yet
    before,         \* the BehaviorSnapshot taken before the dump
    unread,         \* files this snapshot, or this poll, has still to read
    active,         \* restored processes that run
    resumed,        \* history: the files the restored tree has touched
    ahead,          \* history: the files past their snapshot when the tree froze
    runs,           \* the CommandRuns of this row that succeeded: <<>>, <<dump>>, <<dump, restore>>
    decision        \* the recommendation, or "none"

Watched == <<written, torn, before, unread, active, resumed, ahead>>
criu_vars == <<lab, config, machine, rows, artifacts, fixture, Watched, runs, decision>>

-----------------------------------------------------------------------------
(* Configuration. *)

MIN_TIMEOUT_MS == 100
MAX_TIMEOUT_MS == 120000
MIN_LOG_BYTES == 1024
MAX_LOG_BYTES == 1048576
MAX_SCALE_AXIS == 16
MAX_SCALE_POINTS == 16

RunLimits(c) ==
    /\ {c.dump_timeout_ms, c.restore_timeout_ms} \subseteq MIN_TIMEOUT_MS..MAX_TIMEOUT_MS
    /\ c.max_log_bytes \in MIN_LOG_BYTES..MAX_LOG_BYTES

validate_scale_axis(values, range) ==
    /\ Len(values) \in 1..MAX_SCALE_AXIS
    /\ \A i \in DOMAIN values : values[i] \in range

\* Memory is counted in MiB.
ScalingPlan(c) ==
    /\ validate_scale_axis(c.memory, 1..1024)
    /\ validate_scale_axis(c.counts, 2..64)
    /\ Len(c.memory) * Len(c.counts) <= MAX_SCALE_POINTS

\* sort_unstable, dedup: a set of values, in order.
Axis(values) == ToSet(values)

\* A point is <<position of the scenario, memory, count>> until it is named; they
\* come in the order of the scenarios, then of the memory, then of the counts.
PointsOf(k, c) ==
    CASE Declared[k] = "process_tree" -> {k} \X Axis(c.memory) \X Axis(c.counts)
      [] Declared[k] = "external_tcp" -> {k} \X {Min(Axis(c.memory))} \X {1}
      [] OTHER -> {k} \X Axis(c.memory) \X {1}
Precedes(p, q) ==
    \/ p[1] < q[1]
    \/ p[1] = q[1] /\ p[2] < q[2]
    \/ p[1] = q[1] /\ p[2] = q[2] /\ p[3] < q[3]

matrix_points(c) ==
    LET points == UNION {PointsOf(k, c) : k \in DOMAIN Declared}
        Nth(i) == CHOOSE p \in points : Cardinality({q \in points : Precedes(q, p)}) = i - 1
    IN  [i \in 1..Cardinality(points) |->
            [scenario |-> Declared[Nth(i)[1]], memory |-> Nth(i)[2], count |-> Nth(i)[3]]]

Points == matrix_points(config)
index == Len(rows) + 1
point == Points[index]

Files(p) ==
    CASE p.scenario = "process_tree" -> 1..p.count
      [] p.scenario \in {"open_regular_file", "workspace_mutation"} -> {0, 1}
      [] OTHER -> {1}
Writer(f) == IF f = 0 THEN 1 ELSE f
Members == {Writer(f) : f \in Files(point)}

-----------------------------------------------------------------------------
(* Bounded commands. *)

Least(a, b) == IF a < b THEN a ELSE b

capture_stream(size, maximum) == [bytes |-> Least(size, maximum), truncated |-> size > maximum]

\* The log keeps standard output, then as much of standard error as fits.
run_bounded(c, maximum) ==
    LET out == capture_stream(c.stdout, maximum)
        err == capture_stream(c.stderr, maximum)
        remaining == maximum - out.bytes
    IN  [success |-> c.launched /\ c.exit = 0 /\ ~c.timed_out,
         timed_out |-> c.timed_out, says |-> c.says, latency |-> c.latency,
         log |-> out.bytes + Least(err.bytes, remaining),
         truncated |-> out.truncated \/ err.truncated \/ err.bytes > remaining,
         produced |-> c.stdout + c.stderr]

merge_criu_log(run, size, maximum) ==
    LET internal == capture_stream(size, maximum - run.log)
    IN  [run EXCEPT !.log = run.log + internal.bytes,
                    !.truncated = run.truncated \/ internal.truncated,
                    !.produced = run.produced + size]

command_failure_classification(run, stage) ==
    CASE run.timed_out -> <<"failed", stage, "timed_out">>
      [] ~run.timed_out /\ run.says -> <<"unsupported", stage, "unsupported">>
      [] OTHER -> <<"failed", stage, "failed">>

-----------------------------------------------------------------------------
(* Rows.  dump and restore hold the measurement of the command, if it was run; *)
(* resumed and ahead are history, kept with what was verified.                 *)

Row(p, class, log, d, r, verified) ==
    [scenario |-> p.scenario, memory |-> p.memory, count |-> p.count,
     status |-> class[1], code |-> SubSeq(class, 2, Len(class)), log |-> log,
     dump |-> d, restore |-> r, verified |-> verified,
     resumed |-> IF verified THEN resumed ELSE {}, ahead |-> IF verified THEN ahead ELSE {}]

diagnostic_log == <<index, "diagnostic">>

external_tcp_row(p, i) ==
    Row(p, <<"unsupported", "external_tcp">>, <<i, "diagnostic">>, <<>>, <<>>, FALSE)

unsupported_rows(code) ==
    [i \in DOMAIN Points |->
        IF Points[i].scenario = "external_tcp" THEN external_tcp_row(Points[i], i)
        ELSE Row(Points[i], <<"unsupported", code>>, <<i, "diagnostic">>, <<>>, <<>>, FALSE)]

\* The directories of a row are removed when it ends; nothing that might still
\* run is looked at again.
RowEnds ==
    /\ fixture' = "none"
    /\ written' = <<>> /\ torn' = {} /\ before' = <<>> /\ unread' = {}
    /\ active' = {} /\ resumed' = {} /\ ahead' = {}
    /\ runs' = <<>>

AddRow(row, logs) ==
    /\ rows' = Append(rows, row)
    /\ artifacts' = artifacts \o logs
    /\ lab' = IF Len(rows') = Len(Points) THEN "decide" ELSE "row"
    /\ RowEnds

row_from_command_failure_Unlogged(run, stage, d, r) ==
    AddRow(Row(point, command_failure_classification(run, stage), diagnostic_log, d, r, FALSE),
           <<<<index, stage>>>>)

row_from_command_failure(run, stage, d, r) ==
    AddRow(Row(point, command_failure_classification(run, stage), diagnostic_log, d, r, FALSE),
           <<<<index, stage>>, diagnostic_log>>)

-----------------------------------------------------------------------------
(* Decision. *)

\* Of the values in order, the one at div_ceil(95 n, 100): the least with so many
\* of them not above it.
percentile_95_Floor(values) ==
    LET rank == (Cardinality(DOMAIN values) * 95) \div 100
        NotAbove(v) == {i \in DOMAIN values : values[i] <= v}
    IN  Min({v \in {values[i] : i \in DOMAIN values} : Cardinality(NotAbove(v)) >= rank})

percentile_95(values) ==
    LET rank == (Cardinality(DOMAIN values) * 95 + 99) \div 100
        NotAbove(v) == {i \in DOMAIN values : values[i] <= v}
    IN  Min({v \in {values[i] : i \in DOMAIN values} : Cardinality(NotAbove(v)) >= rank})

checkpoint_pause_p95_ms == 1000
restore_p95_ms == 3000

decide ==
    LET considered == {i \in DOMAIN rows : rows[i].scenario # "external_tcp"}
        supported == {i \in considered : rows[i].status = "supported"}
        dumps == [i \in supported |-> rows[i].dump[1].latency]
        restores == [i \in supported |-> rows[i].restore[1].latency]
    IN  CASE supported = {} -> "kill"
          [] supported # {} /\ (\E i \in considered : rows[i].status = "failed") -> "kill"
          [] OTHER ->
               IF /\ supported = considered
                  /\ percentile_95(dumps) <= checkpoint_pause_p95_ms
                  /\ percentile_95(restores) <= restore_p95_ms
               THEN "keep" ELSE "narrow"

-----------------------------------------------------------------------------
CriuInit ==
    /\ lab = "new"
    /\ config \in Configs
    /\ machine \in Machines
    /\ rows = <<>> /\ artifacts = <<>>
    /\ fixture = "none"
    /\ written = <<>> /\ torn = {} /\ before = <<>> /\ unread = {}
    /\ active = {} /\ resumed = {} /\ ahead = {}
    /\ runs = <<>>
    /\ decision = "none"

\* RunLimits::new, ScalingPlan::new, RunnerConfig::new.
NewConfig ==
    /\ lab = "new"
    /\ lab' = IF RunLimits(config) /\ ScalingPlan(config) /\ config.normalized
              THEN "probe" ELSE "refused"
    /\ UNCHANGED <<config, machine, rows, artifacts, fixture, Watched, runs, decision>>

unavailable_diagnostic ==
    CASE machine.os # "linux" -> "criu_unavailable"
      [] machine.os = "linux" /\ ~machine.criu -> "criu_unavailable"
      [] machine.os = "linux" /\ machine.criu /\ ~machine.fixture -> "fixture_failed"
      [] OTHER -> "criu_check_failed"

ProbeLogs == <<<<0, "kernel">>, <<0, "version">>, <<0, "check">>, <<0, "check-all">>>>
Unsupported(code) ==
    /\ rows' = unsupported_rows(code)
    /\ artifacts' = ProbeLogs \o [i \in DOMAIN Points |-> <<i, "diagnostic">>]
    /\ lab' = "decide"

\* The extended check is recorded and decides nothing.
probe_environment ==
    /\ lab = "probe"
    /\ \/ unavailable_diagnostic # "criu_check_failed" /\ Unsupported(unavailable_diagnostic)
       \/ /\ unavailable_diagnostic = "criu_check_failed"
          /\ \E check \in Commands :
                IF run_bounded(check, config.max_log_bytes).success
                THEN /\ artifacts' = ProbeLogs /\ lab' = "row" /\ UNCHANGED rows
                ELSE Unsupported("criu_check_failed")
    /\ UNCHANGED <<config, machine, fixture, Watched, runs, decision>>

\* An error of the laboratory itself (a directory, a spawn, a pipe, metadata, the
\* PID file) ends the whole run, and leaves what it had started running.
RunFails ==
    /\ lab \in {"probe", "row", "snapshot", "dump", "restore", "verify"}
    /\ lab' = "error"
    /\ RowEnds
    /\ UNCHANGED <<config, machine, rows, artifacts, decision>>

ExternalTcp ==
    /\ lab = "row" /\ fixture = "none"
    /\ point.scenario = "external_tcp"
    /\ AddRow(external_tcp_row(point, index), <<diagnostic_log>>)
    /\ UNCHANGED <<config, machine, decision>>

spawn_fixture ==
    /\ lab = "row" /\ fixture = "none"
    /\ point.scenario # "external_tcp"
    /\ fixture' = "running"
    /\ written' = [f \in Files(point) |-> 0] /\ before' = written'
    /\ UNCHANGED <<lab, config, machine, rows, artifacts, torn, unread, active, resumed, ahead, runs, decision>>

-----------------------------------------------------------------------------
(* The fixture, and what is read of it. *)

\* The leader writes its heartbeat and then the file of its scenario.
Turn(f) ==
    0 \in DOMAIN written =>
        /\ f = 0 => written[0] < written[1] /\ 1 \notin torn
        /\ f = 1 => written[0] = written[1] /\ 0 \notin torn
Appended(f) == f = 0 /\ point.scenario = "open_regular_file"

Touches(f) ==
    /\ \/ lab \in {"row", "snapshot", "dump"} /\ fixture = "running"
       \/ lab = "verify" /\ Writer(f) \in active
    /\ resumed' = IF lab = "verify" THEN resumed \cup {f} ELSE resumed
    /\ UNCHANGED <<lab, config, machine, rows, artifacts, fixture, before, unread, active, ahead, runs, decision>>

\* fs::write empties the file before it writes it.
Empties(f) ==
    /\ f \notin torn /\ ~Appended(f) /\ Turn(f) /\ written[f] < MaxTicks
    /\ Touches(f)
    /\ torn' = torn \cup {f}
    /\ UNCHANGED written

Writes(f) ==
    /\ f \in torn \/ (Appended(f) /\ Turn(f) /\ written[f] < MaxTicks)
    /\ Touches(f)
    /\ written' = [written EXCEPT ![f] = @ + 1]
    /\ torn' = torn \ {f}

\* A counter that cannot be read is 0; so is, here, a revision of None.
Reading(f) == IF f \in torn THEN 0 ELSE written[f]

Past(f) ==
    IF f = 0 /\ point.scenario = "workspace_mutation" /\ before[f] = 0
    THEN Reading(f) = 0                                     \* (None, None) => true
    ELSE Reading(f) > before[f]

wait_for_fixture ==
    /\ lab = "row" /\ fixture = "running"
    /\ \/ /\ Reading(1) > 0
          /\ lab' = "snapshot" /\ unread' = Files(point)
          /\ UNCHANGED <<rows, artifacts, fixture, written, torn, before, active, resumed, ahead, runs>>
       \/ AddRow(Row(point, <<"failed", "fixture">>, diagnostic_log, <<>>, <<>>, FALSE),
                 <<diagnostic_log>>)                        \* terminate_child_group
    /\ UNCHANGED <<config, machine, decision>>

\* The heartbeats in order, then the file of the scenario.
Next_file == CHOOSE f \in unread : \A g \in unread : g = 0 \/ (f # 0 /\ f <= g)

behavior_snapshot ==
    /\ lab = "snapshot"
    /\ before' = [before EXCEPT ![Next_file] = Reading(Next_file)]
    /\ unread' = unread \ {Next_file}
    /\ lab' = IF unread' = {} THEN "dump" ELSE lab
    /\ UNCHANGED <<config, machine, rows, artifacts, fixture, written, torn, active, resumed, ahead,
                   runs, decision>>

\* External: CRIU freezes the tree at some moment of its own.
CriuFreezes ==
    /\ lab = "dump" /\ fixture = "running"
    /\ fixture' = "frozen"
    /\ ahead' = {f \in DOMAIN written : Past(f)}
    /\ UNCHANGED <<lab, config, machine, rows, artifacts, written, torn, before, unread, active, resumed,
                   runs, decision>>

\* A dump that succeeds has killed the tree; after any other the runner does.
DumpEnds ==
    /\ lab = "dump"
    /\ \E c \in Commands, size \in CriuLogs :
         LET run == merge_criu_log(run_bounded(c, config.max_log_bytes), size, config.max_log_bytes) IN
         IF run.success
         THEN /\ fixture = "frozen" /\ fixture' = "gone"
              /\ runs' = <<run>> /\ lab' = "restore"
              /\ artifacts' = Append(artifacts, <<index, "dump">>)
              /\ UNCHANGED <<rows, Watched>>
         ELSE row_from_command_failure(run, "dump", <<run>>, <<>>)
    /\ UNCHANGED <<config, machine, decision>>

\* The restored tree runs detached from CRIU; some of it may never run again.
RestoreEnds ==
    /\ lab = "restore"
    /\ \E c \in Commands, size \in CriuLogs :
         LET run == merge_criu_log(run_bounded(c, config.max_log_bytes), size, config.max_log_bytes) IN
         IF run.success
         THEN /\ artifacts' = Append(artifacts, <<index, "restore">>)
              /\ active' \in SUBSET Members
              /\ runs' = Append(runs, run)
              /\ lab' = "verify" /\ unread' = Files(point)
              /\ UNCHANGED <<rows, fixture, written, torn, before, resumed, ahead>>
         ELSE row_from_command_failure(run, "restore", runs, <<run>>)
    /\ UNCHANGED <<config, machine, decision>>

\* A poll reads the files in order; one that is not past its snapshot fails it.
wait_for_behavior ==
    /\ lab = "verify" /\ unread # {}
    /\ unread' = IF Past(Next_file) THEN unread \ {Next_file} ELSE Files(point)
    /\ UNCHANGED <<lab, config, machine, rows, artifacts, fixture, written, torn, before, active,
                   resumed, ahead, runs, decision>>

Verified_Heartbeat == 1 \notin unread

Verified == unread = {}

\* The polls end, in success or with the time, terminate_restored_group, the row.
restore_and_verify ==
    /\ lab = "verify" /\ (Verified \/ unread = Files(point))
    /\ \E cleanup_ok \in BOOLEAN :
         LET class == CASE ~Verified -> <<"failed", "verification">>
                        [] Verified /\ ~cleanup_ok -> <<"failed", "cleanup">>
                        [] OTHER -> <<"supported">>
         IN  AddRow(Row(point, class, diagnostic_log, <<runs[1]>>, <<runs[2]>>, Verified),
                    <<diagnostic_log>>)
    /\ UNCHANGED <<config, machine, decision>>

Decides ==
    /\ lab = "decide"
    /\ decision' = decide
    /\ lab' = "write"
    /\ UNCHANGED <<config, machine, rows, artifacts, fixture, Watched, runs>>

\* CompatibilityEvidence::write_new: a fresh directory, every file created new,
\* so that two artifacts of one name, or any failing write, end it.
write_new ==
    /\ lab = "write"
    /\ lab' \in IF IsInjective(artifacts) THEN {"done", "refused"} ELSE {"refused"}
    /\ UNCHANGED <<config, machine, rows, artifacts, fixture, Watched, runs, decision>>

CriuNext ==
    \/ NewConfig \/ probe_environment \/ RunFails \/ ExternalTcp \/ spawn_fixture
    \/ \E f \in DOMAIN written : Empties(f) \/ Writes(f)
    \/ wait_for_fixture \/ behavior_snapshot \/ CriuFreezes \/ DumpEnds \/ RestoreEnds
    \/ wait_for_behavior \/ restore_and_verify \/ Decides \/ write_new

CriuSpec == CriuInit /\ [][CriuNext]_criu_vars

-----------------------------------------------------------------------------
Rows == {rows[i] : i \in DOMAIN rows}
InScope == {i \in DOMAIN rows : rows[i].scenario # "external_tcp"}

\* What support is given on: both commands succeeded, and every file of the row
\* was touched by the restored tree or was past its snapshot before the tree was
\* frozen, by writes that raced with the snapshot and the dump.
SupportIsSeen ==
    \A r \in Rows : r.status = "supported" =>
        /\ r.dump[1].success /\ r.restore[1].success
        /\ Files(r) \subseteq r.resumed \cup r.ahead

\* What docs/criu-compatibility.md says of it: the behaviour that advances is that
\* of the tree that was dumped and restored.
SupportIsEarned ==
    \A r \in Rows : r.status = "supported" => Files(r) \subseteq r.resumed

\* CRIU is kept exactly if something is in scope, every row in scope is supported
\* and at most one latency in twenty, of the dumps and of the restores, is above
\* its gate.
KeepIsWithinGates ==
    decision # "none" => (decision = "keep" <=>
        /\ InScope # {}
        /\ \A i \in InScope : rows[i].status = "supported"
        /\ 20 * Cardinality({i \in InScope : rows[i].dump[1].latency > checkpoint_pause_p95_ms})
              <= Cardinality(InScope)
        /\ 20 * Cardinality({i \in InScope : rows[i].restore[1].latency > restore_p95_ms})
              <= Cardinality(InScope))

\* However the rows end, a report that is decided has one row per point of the
\* matrix, in its order; no two artifacts share a name, so that create_new never
\* fails for that; every log a row or a measurement refers to is there; and a log,
\* in which standard output, standard error and CRIU's own log share one bound,
\* is marked truncated exactly if something of the three was left out.
EvidenceIsWhole ==
    lab \in {"decide", "write", "done"} =>
        /\ Len(rows) = Len(Points)
        /\ \A i \in DOMAIN rows : /\ rows[i].scenario = Points[i].scenario
                                 /\ rows[i].memory = Points[i].memory
                                 /\ rows[i].count = Points[i].count
        /\ IsInjective(artifacts)
        /\ \A i \in DOMAIN rows :
               {rows[i].log} \union {<<i, "dump">> : m \in ToSet(rows[i].dump)}
                             \union {<<i, "restore">> : m \in ToSet(rows[i].restore)}
                 \subseteq ToSet(artifacts)
        /\ \A r \in Rows : \A m \in ToSet(r.dump \o r.restore) :
               m.log <= config.max_log_bytes /\ (m.truncated <=> m.produced > m.log)
=============================================================================
