---------------------------- MODULE SupervisedRun ----------------------------
(***************************************************************************)
(* One supervised execution of crates/epoch-supervisor: run_manifest and   *)
(* the threads it starts (read_stdout, read_stderr), the agent process and *)
(* the processes the agent leaves behind.  The reader threads hand their   *)
(* messages to the supervisor through a bounded channel.                   *)
(*                                                                         *)
(* A record is told by what becomes of it: decode_line refuses "junk" (and *)
(* a partial last line), the StreamValidator of AgentStream refuses a      *)
(* "stray" and everything after the "completion".  EventJournal models one *)
(* append; here it succeeds or fails in one step.                          *)
(***************************************************************************)
EXTENDS Naturals, Sequences, FiniteSets, SequencesExt

CONSTANTS
    MaxRecords,     \* bound: records the agent writes
    PipeCapacity,   \* records that fit into the stdout pipe
    ChannelCapacity,
    Mishaps         \* what may go wrong in this instance

\* storage: an append or update fails; spawn: the executable cannot be
\* started; stderr: too much of it; escape: a descendant leaves the process
\* group and keeps the pipes.
Mishap == {"storage", "spawn", "stderr", "escape"}

ASSUME BoundsType == MaxRecords \in Nat
ASSUME CapacityType == PipeCapacity \in Nat \ {0} /\ ChannelCapacity \in Nat \ {0}
ASSUME MishapsType == Mishaps \subseteq Mishap

VARIABLES
    sup,       \* the supervisor's thread
    agent,     \* the agent process
    written,   \* records the agent wrote, in order
    pipe,      \* ... that nobody has read yet
    living,    \* descendants of the agent that run
    holders,   \* processes that have the write ends of the pipes open
    out, err,  \* the reader threads: where they are and what they hold
    channel,   \* messages in the channel
    receiving, \* whether the receiver still exists
    journal,   \* events of the run
    session, branch

vars == <<sup, agent, written, pipe, living, holders, out, err, channel, receiving,
          journal, session, branch>>

processes == <<agent, written, living, holders>>
readers == <<out, err>>
rows == <<journal, session, branch>>

None == "none"
Valid == {"record", "completion"}
Record == Valid \cup {"stray", "junk"}

ReaderMessage == Record \cup {"StdoutFinished", "StdoutFailed", "StderrFinished", "StderrFailed"}

Step == {"create", "run_started", "spawn", "mark_running", "process.started",
         "process.manifest", "threads", "monitor", "guard", "terminate", "drop", "join",
         "classify", "process.stderr", "process.exited", "mark_terminal",
         "supervisor.failure", "mark_failed", "returned"}

\* ExecutionError, by its category.
ExecutionError == {None, "initialization", "persistence", "spawn", "protocol", "ingest", "stderr",
                   "pipe_drain_timeout", "missing_completion"}

EventKinds == Valid \cup {"run_started", "process.started", "process.manifest",
                          "process.stderr", "process.exited", "supervisor.failure"}

TypeOK ==
    /\ sup \in [pc : Step, status : {None, "ok", "nonzero"}, stdout_finished : BOOLEAN,
                stderr_captured : BOOLEAN, complete : BOOLEAN, expired : BOOLEAN,
                error : ExecutionError]
    /\ agent \in {"absent", "running", "ok", "nonzero"}
    /\ written \in Seq(Record) /\ Len(written) <= MaxRecords
    /\ pipe \in Seq(Record) /\ Len(pipe) <= PipeCapacity
    /\ living \subseteq {"child", "escapee"}
    /\ holders \subseteq living \cup {"agent"}
    /\ out \in [pc : {"off", "read", "send", "done"}, message : ReaderMessage \cup {None}]
    /\ err \in [pc : {"off", "read", "send", "done"}, message : ReaderMessage \cup {None}]
    /\ channel \in Seq(ReaderMessage) /\ Len(channel) <= ChannelCapacity
    /\ receiving \in BOOLEAN
    /\ journal \in Seq(EventKinds)
    /\ session \in {"absent", "starting", "running", "completed", "failed"}
    /\ branch \in {"absent", "running", "completed", "failed"}

Off == [pc |-> "off", message |-> None]

Init ==
    /\ sup = [pc |-> "create", status |-> None, stdout_finished |-> FALSE,
              stderr_captured |-> FALSE, complete |-> FALSE, expired |-> FALSE,
              error |-> None]
    /\ agent = "absent" /\ written = <<>> /\ pipe = <<>> /\ living = {} /\ holders = {}
    /\ out = Off /\ err = Off
    /\ channel = <<>> /\ receiving = FALSE
    /\ journal = <<>> /\ session = "absent" /\ branch = "absent"

-----------------------------------------------------------------------------
(* The agent and its descendants. *)

Write(r) ==
    /\ agent = "running" /\ Len(written) < MaxRecords /\ Len(pipe) < PipeCapacity
    /\ written' = Append(written, r)
    /\ pipe' = Append(pipe, r)
    /\ UNCHANGED <<sup, agent, living, holders, readers, channel, receiving, rows>>

\* A descendant inherits the pipes; one that calls setsid is no longer
\* reached by a signal to the agent's group.
Fork(descendant) ==
    /\ agent = "running" /\ descendant \notin living
    /\ descendant = "child" \/ "escape" \in Mishaps
    /\ living' = living \cup {descendant}
    /\ holders' = holders \cup {descendant}
    /\ UNCHANGED <<sup, agent, written, pipe, readers, channel, receiving, rows>>

Exit(status) ==
    /\ agent = "running"
    /\ agent' = status
    /\ holders' = holders \ {"agent"}
    /\ UNCHANGED <<sup, written, pipe, living, readers, channel, receiving, rows>>

\* A descendant closes its output or ends.
Detach(descendant) ==
    /\ descendant \in holders
    /\ holders' = holders \ {descendant}
    /\ UNCHANGED <<sup, agent, written, pipe, living, readers, channel, receiving, rows>>

DescendantExits(descendant) ==
    /\ descendant \in living
    /\ living' = living \ {descendant}
    /\ holders' = holders \ {descendant}
    /\ UNCHANGED <<sup, agent, written, pipe, readers, channel, receiving, rows>>

\* Mutant: only the agent itself is killed.
KillGroup_AgentOnly ==
    /\ agent' = IF agent = "running" THEN "nonzero" ELSE agent
    /\ holders' = holders \ {"agent"}
    /\ UNCHANGED <<living, written>>

\* terminate_group: SIGKILL to the group, and the agent is reaped.
KillGroup ==
    /\ agent' = IF agent = "running" THEN "nonzero" ELSE agent
    /\ living' = living \ {"child"}
    /\ holders' = holders \ {"agent", "child"}
    /\ UNCHANGED written

-----------------------------------------------------------------------------
(* The reader threads. *)

\* Mutant: all lines at hand are decoded before the first is sent.
ReadStdout_DecodesAhead ==
    /\ out.pc = "read" /\ pipe # <<>>
    /\ pipe' = Tail(pipe)
    /\ out' = [pc |-> "send", message |->
                  IF "junk" \in Range(pipe) THEN "StdoutFailed" ELSE Head(pipe)]
    /\ UNCHANGED <<sup, processes, err, channel, receiving, rows>>

ReadStdout ==
    /\ out.pc = "read" /\ pipe # <<>>
    /\ pipe' = Tail(pipe)
    /\ out' = [pc |-> "send", message |->
                  IF Head(pipe) = "junk" THEN "StdoutFailed" ELSE Head(pipe)]
    /\ UNCHANGED <<sup, processes, err, channel, receiving, rows>>

EndOfStdout ==
    /\ out.pc = "read" /\ pipe = <<>> /\ holders = {}
    /\ out' = [pc |-> "send", message |-> "StdoutFinished"]
    /\ UNCHANGED <<sup, processes, pipe, err, channel, receiving, rows>>

\* A sync_channel of READER_CHANNEL_CAPACITY.
HasRoom == Len(channel) < ChannelCapacity

\* send blocks while the channel is full and fails once the receiver is gone.
SendStdout ==
    /\ out.pc = "send"
    /\ \/ /\ receiving /\ HasRoom
          /\ channel' = Append(channel, out.message)
          /\ out' = [pc |-> IF out.message \in {"StdoutFinished", "StdoutFailed"}
                              THEN "done" ELSE "read", message |-> None]
       \/ /\ ~receiving
          /\ out' = [pc |-> "done", message |-> None]
          /\ UNCHANGED channel
    /\ UNCHANGED <<sup, processes, pipe, err, receiving, rows>>

EndOfStderr ==
    /\ err.pc = "read" /\ holders = {}
    /\ err' = [pc |-> "send", message |-> "StderrFinished"]
    /\ UNCHANGED <<sup, processes, pipe, out, channel, receiving, rows>>

\* More than MAX_STDERR_BYTES have come.
StderrTooLarge ==
    /\ err.pc = "read" /\ holders # {} /\ "stderr" \in Mishaps
    /\ err' = [pc |-> "send", message |-> "StderrFailed"]
    /\ UNCHANGED <<sup, processes, pipe, out, channel, receiving, rows>>

SendStderr ==
    /\ err.pc = "send"
    /\ \/ receiving /\ HasRoom /\ channel' = Append(channel, err.message)
       \/ ~receiving /\ UNCHANGED channel
    /\ err' = [pc |-> "done", message |-> None]
    /\ UNCHANGED <<sup, processes, pipe, out, receiving, rows>>

-----------------------------------------------------------------------------
(* The supervisor, up to the first message. *)

At(pc) == sup.pc = pc
Goto(pc) == sup' = [sup EXCEPT !.pc = pc]
FailTo(pc, error) == sup' = [sup EXCEPT !.pc = pc, !.error = error]

\* create_execution is one transaction.
CreateExecution ==
    /\ At("create")
    /\ session' = "starting" /\ branch' = "running"
    /\ Goto("run_started")
    /\ UNCHANGED <<processes, pipe, readers, channel, receiving, journal>>

\* append_event, then on to the next step.
Journal(kind, next) ==
    /\ At(kind)
    /\ journal' = Append(journal, kind)
    /\ Goto(next)
    /\ UNCHANGED <<processes, pipe, readers, channel, receiving, session, branch>>

SpawnAgent ==
    /\ At("spawn")
    /\ agent' = "running" /\ holders' = {"agent"}
    /\ Goto("mark_running")
    /\ UNCHANGED <<written, living, pipe, readers, channel, receiving, rows>>

SpawnFails ==
    /\ At("spawn") /\ "spawn" \in Mishaps
    /\ FailTo("supervisor.failure", "spawn")
    /\ UNCHANGED <<processes, pipe, readers, channel, receiving, rows>>

MarkSessionRunning ==
    /\ At("mark_running") /\ session = "starting"
    /\ session' = "running"
    /\ Goto("process.started")
    /\ UNCHANGED <<processes, pipe, readers, channel, receiving, journal, branch>>

\* monitor_process makes the channel and starts the readers.
StartReaders ==
    /\ At("threads")
    /\ out' = [Off EXCEPT !.pc = "read"] /\ err' = [Off EXCEPT !.pc = "read"]
    /\ receiving' = TRUE
    /\ Goto("monitor")
    /\ UNCHANGED <<processes, pipe, channel, rows>>

\* A storage error before the monitor drops the ChildGuard if there is one.
StorageFails ==
    /\ "storage" \in Mishaps
    /\ \/ At("create") /\ FailTo("returned", "initialization")
       \/ At("run_started") /\ FailTo("supervisor.failure", "persistence")
       \/ sup.pc \in {"mark_running", "process.started", "process.manifest"}
             /\ FailTo("guard", "persistence")
       \/ sup.pc \in {"process.stderr", "process.exited", "mark_terminal"}
             /\ FailTo("supervisor.failure", "persistence")
       \/ At("supervisor.failure") /\ Goto("mark_failed")
       \/ At("mark_failed") /\ Goto("returned")
    /\ UNCHANGED <<processes, pipe, readers, channel, receiving, rows>>

DropGuard ==
    /\ At("guard")
    /\ KillGroup
    /\ Goto("supervisor.failure")
    /\ UNCHANGED <<pipe, readers, channel, receiving, rows>>

-----------------------------------------------------------------------------
(* monitor_messages: one iteration of its loop. *)

\* Mutant: the end of one pipe is taken for the end of both.
Drained_Either(s) == s.stdout_finished \/ s.stderr_captured

Drained(s) == s.stdout_finished /\ s.stderr_captured

\* After the message: see whether the agent has exited, then whether the run
\* is over or has been draining for too long.
Checked(s) ==
    LET status == IF agent = "running" THEN None ELSE agent
        seen == [s EXCEPT !.status = status]
    IN  sup' = CASE status # None /\ Drained(s) -> [seen EXCEPT !.pc = "drop"]
                 [] s.expired /\ ~Drained(s) -> [seen EXCEPT !.pc = "terminate", !.error = "pipe_drain_timeout"]
                 [] OTHER -> seen

\* PIPE_DRAIN_TIMEOUT passes after the exit was observed.
DrainTimer ==
    /\ At("monitor") /\ sup.status # None /\ ~sup.expired
    /\ sup' = [sup EXCEPT !.expired = TRUE]
    /\ UNCHANGED <<processes, pipe, readers, channel, receiving, rows>>

Take == channel # <<>> /\ channel' = Tail(channel)

\* accept_claims, then append_event.
ReceiveRecord ==
    /\ At("monitor") /\ Take /\ Head(channel) \in Record
    /\ LET r == Head(channel)
           accepted == r \in Valid /\ ~sup.complete
       IN  \/ /\ accepted
              /\ journal' = Append(journal, r)
              /\ Checked([sup EXCEPT !.complete = (r = "completion")])
           \/ /\ accepted /\ "storage" \in Mishaps
              /\ FailTo("terminate", "persistence")
              /\ UNCHANGED journal
           \/ /\ ~accepted
              /\ FailTo("terminate", "ingest")
              /\ UNCHANGED journal
    /\ UNCHANGED <<processes, pipe, readers, receiving, session, branch>>

ReceiveEnd ==
    /\ At("monitor") /\ Take /\ Head(channel) \in {"StdoutFinished", "StderrFinished"}
    /\ Checked([sup EXCEPT !.stdout_finished = @ \/ Head(channel) = "StdoutFinished",
                           !.stderr_captured = @ \/ Head(channel) = "StderrFinished"])
    /\ UNCHANGED <<processes, pipe, readers, receiving, rows>>

ReceiveFailure ==
    /\ At("monitor") /\ Take /\ Head(channel) \in {"StdoutFailed", "StderrFailed"}
    /\ FailTo("terminate", IF Head(channel) = "StdoutFailed" THEN "protocol" ELSE "stderr")
    /\ UNCHANGED <<processes, pipe, readers, receiving, rows>>

\* recv_timeout found nothing.  (A disconnected channel means that both ends
\* were received, because each reader sends a last message: the same step.)
PollTimeout ==
    /\ At("monitor") /\ channel = <<>>
    /\ Checked(sup)
    /\ UNCHANGED <<processes, pipe, readers, channel, receiving, rows>>

\* monitor_process after the loop: on an error the group is killed; the
\* receiver is dropped before the readers are joined.
TerminateGroup ==
    /\ At("terminate")
    /\ KillGroup
    /\ Goto("drop")
    /\ UNCHANGED <<pipe, readers, channel, receiving, rows>>

\* Mutant: the receiver outlives the join.
DropReceiver_Kept ==
    /\ At("drop")
    /\ Goto("join")
    /\ UNCHANGED <<processes, pipe, readers, channel, receiving, rows>>

DropReceiver ==
    /\ At("drop")
    /\ receiving' = FALSE /\ channel' = <<>>
    /\ Goto("join")
    /\ UNCHANGED <<processes, pipe, readers, rows>>

JoinReaders ==
    /\ At("join") /\ out.pc = "done" /\ err.pc = "done"
    /\ Goto(IF sup.error = None THEN "classify" ELSE "supervisor.failure")
    /\ UNCHANGED <<processes, pipe, readers, channel, receiving, rows>>

-----------------------------------------------------------------------------
(* The end of the run. *)

\* A clean exit without a completion is a failure of the supervision.
Classify ==
    /\ At("classify")
    /\ IF sup.status = "ok" /\ ~sup.complete
         THEN FailTo("supervisor.failure", "missing_completion")
         ELSE \/ Goto("process.stderr")
              \/ Goto("process.exited")
    /\ UNCHANGED <<processes, pipe, readers, channel, receiving, rows>>

Terminal(state) == session' = state /\ branch' = state

MarkTerminal ==
    /\ At("mark_terminal")
    /\ Terminal(IF sup.status = "ok" THEN "completed" ELSE "failed")
    /\ Goto("returned")
    /\ UNCHANGED <<processes, pipe, readers, channel, receiving, journal>>

\* record_supervisor_failure, whose own errors are ignored (StorageFails).
MarkFailed ==
    /\ At("mark_failed")
    /\ Terminal("failed")
    /\ Goto("returned")
    /\ UNCHANGED <<processes, pipe, readers, channel, receiving, journal>>

Supervise ==
    \/ CreateExecution \/ Journal("run_started", "spawn")
    \/ SpawnAgent \/ SpawnFails \/ MarkSessionRunning
    \/ Journal("process.started", "process.manifest")
    \/ Journal("process.manifest", "threads") \/ StartReaders
    \/ StorageFails \/ DropGuard
    \/ ReceiveRecord \/ ReceiveEnd \/ ReceiveFailure \/ PollTimeout
    \/ TerminateGroup \/ DropReceiver \/ JoinReaders \/ Classify
    \/ Journal("process.stderr", "process.exited")
    \/ Journal("process.exited", "mark_terminal") \/ MarkTerminal
    \/ Journal("supervisor.failure", "mark_failed") \/ MarkFailed

ReadOut == ReadStdout \/ EndOfStdout \/ SendStdout
ReadErr == EndOfStderr \/ SendStderr

Next ==
    \/ Supervise \/ DrainTimer \/ ReadOut \/ ReadErr \/ StderrTooLarge
    \/ \E r \in Record : Write(r)
    \/ \E d \in {"child", "escapee"} : Fork(d) \/ Detach(d) \/ DescendantExits(d)
    \/ \E status \in {"ok", "nonzero"} : Exit(status)

Spec == Init /\ [][Next]_vars

\* Threads are scheduled and time passes.  Nothing is assumed of the agent and
\* its descendants: they may run, and keep the pipes, for as long as they like.
FairSpec ==
    /\ Spec
    /\ WF_vars(Supervise) /\ WF_vars(DrainTimer)
    /\ WF_vars(ReadOut) /\ WF_vars(ReadErr)

-----------------------------------------------------------------------------
(* Properties. *)

\* The records of the agent among the events, and how many they are.
RecordedAt == {i \in DOMAIN journal : journal[i] \in Valid}
Recorded == Cardinality(RecordedAt)

\* The first records of the agent are on record, in the order it wrote them.
RecordedInOrder ==
    /\ Recorded <= Len(written)
    /\ \A i \in RecordedAt : journal[i] = written[Cardinality({j \in RecordedAt : j <= i})]

\* A run that returns an outcome, successful or not, has journalled every
\* record of the agent: the exit status alone does not end it.  And a session is
\* completed only by an agent that exited cleanly and whose last record was its
\* completion, with all of its records and its exit on record.
OutcomeHasEverything ==
    /\ At("returned") /\ sup.error = None => RecordedInOrder /\ Recorded = Len(written)
    /\ session = "completed" =>
          /\ agent = "ok" /\ RecordedInOrder /\ Recorded = Len(written)
          /\ written # <<>> /\ Last(written) = "completion"
          /\ Last(journal) = "process.exited"

\* A protocol failure keeps the valid prefix: everything before the record
\* that was refused is in the journal, in order, and nothing else of the agent.
FailureKeepsPrefix == At("returned") /\ sup.error \in {"protocol", "ingest"} =>
    /\ RecordedInOrder
    /\ \/ Recorded < Len(written) /\ written[Recorded + 1] \in {"stray", "junk"}
       \/ Recorded > 0 /\ written[Recorded] = "completion"

\* Once the run has returned, neither the agent nor a descendant of its group
\* holds the pipes, and after a failure that cut the output off no descendant
\* of the group is left running at all.
NothingLeftBehind == At("returned") =>
    /\ holders \subseteq {"escapee"}
    /\ sup.error \in {"protocol", "ingest", "stderr", "pipe_drain_timeout"}
          => living \subseteq {"escapee"}

\* The run is to end: the agent has exited, or it wrote something it may not.
Ended ==
    \/ agent \notin {"absent", "running"}
    \/ \E i \in DOMAIN written : written[i] \in {"stray", "junk"}

\* A run that is to end returns: full channels, blocked readers, an agent that
\* writes on, descendants of the group that keep the pipes and errors at any
\* step do not make it wait for ever. Only a descendant outside the process
\* group, which kill_process_group does not reach, can do that.
EveryRunReturns ==
    []<>("escapee" \notin holders) => (Ended ~> At("returned"))
=============================================================================
