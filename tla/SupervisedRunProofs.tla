------------------------- MODULE SupervisedRunProofs -------------------------
(***************************************************************************)
(* Proofs about SupervisedRun: what a run that has returned has on record, *)
(* and what it leaves behind, for any number of records, any pipe and any  *)
(* channel.                                                                *)
(***************************************************************************)
EXTENDS SupervisedRun, FiniteSetTheorems, TLAPS

(* The inductive invariant. *)

\* Where the supervisor is, in four parts: before the readers are started, in
\* the loop, about to kill the group, and after the agent is gone.
Early == {"create", "run_started", "spawn", "mark_running", "process.started",
          "process.manifest", "threads"}
Started == {"mark_running", "process.started", "process.manifest", "threads", "monitor"}
Late == {"drop", "join", "classify", "process.stderr", "process.exited", "mark_terminal",
         "supervisor.failure", "mark_failed", "returned"}

Cut == {"protocol", "ingest", "stderr", "pipe_drain_timeout"}

\* The agent holds its pipes while it runs; once the supervisor is past the
\* kill, or has seen the end of both pipes, only an escapee may.
ProcessInv ==
    /\ agent = "running" <=> "agent" \in holders
    /\ agent = "absent" => holders = {} /\ living = {} /\ written = <<>> /\ pipe = <<>>
    /\ sup.pc \in {"create", "run_started", "spawn"} => agent = "absent"
    /\ sup.pc \in Started => agent # "absent"
    /\ sup.pc \in Late => agent # "running" /\ holders \subseteq {"escapee"}
    /\ sup.pc \in Late /\ sup.error \in Cut => living \subseteq {"escapee"}

\* How many events precede the step, up to the loop.
Preceding(pc) == CASE pc \in {"create", "run_started"} -> 0
                   [] pc \in {"spawn", "mark_running", "process.started"} -> 1
                   [] pc = "process.manifest" -> 2
                   [] pc = "threads" -> 3

\* The records on record follow three events of the supervisor and are the
\* first ones the agent wrote.
JournalInv ==
    /\ Recorded \in Nat /\ RecordedAt = 4 .. (3 + Recorded)
    /\ Recorded <= Len(written)
    /\ \A k \in 1 .. Recorded : journal[3 + k] = written[k]
    /\ sup.complete <=> Recorded > 0 /\ written[Recorded] = "completion"
    /\ sup.pc \in Early => Recorded = 0 /\ Len(journal) = Preceding(sup.pc)
    /\ sup.pc = "monitor" => Len(journal) = 3 + Recorded

StdoutMessage == Record \cup {"StdoutFinished", "StdoutFailed"}
StderrMessage == {"StderrFinished", "StderrFailed"}

\* A reader that is about to send has a message of its own stream in hand.
ReaderInv ==
    /\ out.pc = "send" => out.message \in StdoutMessage
    /\ err.pc = "send" => err.message \in StderrMessage

\* How many of the first i messages of a channel are from stdout; the channel
\* has at most one from stderr.
Rank(c, i) == IF \E j \in 1 .. i : c[j] \in StderrMessage THEN i - 1 ELSE i
Queued(c) == Rank(c, Len(c))
NoStderr(c) == \A i \in DOMAIN c : c[i] \notin StderrMessage

\* The k-th message of read_stdout, when the agent's output is w.
Message(w, k) == IF k <= Len(w) THEN IF w[k] = "junk" THEN "StdoutFailed" ELSE w[k]
                                ELSE "StdoutFinished"

\* The messages of read_stdout that follow the n-th, in their order.
ChannelOK(c, w, n) ==
    /\ \A i, j \in DOMAIN c : c[i] \in StderrMessage /\ c[j] \in StderrMessage => i = j
    /\ \A i \in DOMAIN c : c[i] \in StderrMessage \/ c[i] = Message(w, n + Rank(c, i))

Reads == Len(written) - Len(pipe)
Eof == pipe = <<>> /\ holders = {}
Sent == Recorded + Queued(channel) + (IF sup.stdout_finished THEN 1 ELSE 0)

\* What is in the pipe is what the agent wrote last.
PipeInv ==
    /\ Len(pipe) <= Len(written)
    /\ \A i \in DOMAIN pipe : pipe[i] = written[Reads + i]

ReadersOff == out = Off /\ err = Off /\ channel = <<>> /\ ~sup.stdout_finished

\* Until the loop ends, every record the agent wrote is in one place: on record,
\* in the channel, in the hands of the reader, or in the pipe.
FlowInv == sup.pc \in Early \cup {"monitor"} =>
    /\ sup.pc \in Early => ReadersOff
    /\ sup.pc = "monitor" => receiving
    /\ ChannelOK(channel, written, Recorded)
    /\ err.pc # "done" => NoStderr(channel)
    /\ out.pc \in {"off", "read"} => Sent = Reads
    /\ out.pc = "send" => /\ out.message = Message(written, Sent + 1)
                          /\ Sent + 1 = Reads \/ (Sent = Reads /\ Eof)
    /\ out.pc = "done" => Sent = Reads \/ (Sent = Reads + 1 /\ Eof)
    /\ sup.stdout_finished =>
          Recorded = Len(written) /\ Queued(channel) = 0 /\ Eof /\ out.pc = "done"

\* The record that was refused: one that may not occur, or one after the end.
Refused == \/ Recorded < Len(written) /\ written[Recorded + 1] \in {"stray", "junk"}
           \/ sup.complete

\* What the supervisor knows of the run when it goes on.
OutcomeInv ==
    /\ sup.status # None => sup.status = agent
    /\ sup.pc \in Early \cup {"monitor"} => sup.error = None
    /\ sup.pc \in {"guard", "terminate", "supervisor.failure", "mark_failed"} => sup.error # None
    /\ sup.pc \in {"classify", "process.stderr", "process.exited", "mark_terminal"} => sup.error = None
    /\ sup.pc \in Late /\ sup.error = None =>
          sup.status # None /\ Recorded = Len(written) /\ holders = {}
    /\ sup.pc \in {"process.stderr", "process.exited", "mark_terminal"} /\ sup.status = "ok" =>
          sup.complete
    /\ sup.pc = "mark_terminal" => journal # <<>> /\ Last(journal) = "process.exited"
    /\ sup.error \in {"protocol", "ingest"} => Refused
    /\ session = "completed" =>
          /\ sup.pc = "returned" /\ sup.error = None /\ sup.status = "ok" /\ sup.complete
          /\ Last(journal) = "process.exited"

RunInv == TypeOK /\ ProcessInv /\ ReaderInv /\ JournalInv /\ PipeInv /\ FlowInv /\ OutcomeInv

-----------------------------------------------------------------------------
(* What a step does to the supervisor's own state. *)

SupType == [pc : Step, status : {None, "ok", "nonzero"}, stdout_finished : BOOLEAN,
            stderr_captured : BOOLEAN, complete : BOOLEAN, expired : BOOLEAN,
            error : ExecutionError]

\* The step and the error aside, the supervisor knows what it knew.
SameKnowledge ==
    /\ sup'.status = sup.status /\ sup'.complete = sup.complete
    /\ sup'.stdout_finished = sup.stdout_finished

\* Goto moves the supervisor to the next step and changes nothing else.
LEMMA GotoFields ==
    ASSUME sup \in SupType, NEW pc \in Step, Goto(pc)
    PROVE  sup' \in SupType /\ sup'.pc = pc /\ sup'.error = sup.error /\ SameKnowledge
  BY DEF SupType, Goto, SameKnowledge

\* FailTo is the return of an ExecutionError.
LEMMA FailToFields ==
    ASSUME sup \in SupType, NEW pc \in Step, NEW error \in ExecutionError, FailTo(pc, error)
    PROVE  sup' \in SupType /\ sup'.pc = pc /\ sup'.error = error /\ SameKnowledge
  BY DEF SupType, FailTo, SameKnowledge

\* The end of an iteration of monitor_messages: the loop ends when the exit and
\* the end of both pipes have been seen, or when draining takes too long.
LEMMA CheckedFields ==
    ASSUME TypeOK, agent # "absent", NEW s \in SupType, s.pc = "monitor", Checked(s)
    PROVE  /\ sup' \in SupType
           /\ sup'.complete = s.complete /\ sup'.stdout_finished = s.stdout_finished
           /\ sup'.status # None => sup'.status = agent /\ agent # "running"
           /\ \/ sup'.pc = "drop" /\ sup'.error = s.error /\ sup'.status # None
                    /\ s.stdout_finished
              \/ sup'.pc = "terminate" /\ sup'.error = "pipe_drain_timeout"
              \/ sup'.pc = "monitor" /\ sup'.error = s.error
  <1> DEFINE status == IF agent = "running" THEN None ELSE agent
             seen == [s EXCEPT !.status = status]
             drop == [seen EXCEPT !.pc = "drop"]
             late == [seen EXCEPT !.pc = "terminate", !.error = "pipe_drain_timeout"]
  <1>1. status \in {None, "ok", "nonzero"} /\ (status # None => status = agent /\ agent # "running")
    BY DEF TypeOK, None
  <1>2. seen \in SupType /\ seen.complete = s.complete /\ seen.stdout_finished = s.stdout_finished
          /\ seen.status = status /\ seen.pc = "monitor" /\ seen.error = s.error
    BY <1>1 DEF SupType
  <1> HIDE DEF seen
  <1>3. drop \in SupType /\ drop.complete = s.complete /\ drop.stdout_finished = s.stdout_finished
          /\ drop.status = status /\ drop.pc = "drop" /\ drop.error = s.error
    BY <1>2 DEF SupType, Step
  <1>4. late \in SupType /\ late.complete = s.complete /\ late.stdout_finished = s.stdout_finished
          /\ late.status = status /\ late.pc = "terminate" /\ late.error = "pipe_drain_timeout"
    BY <1>2 DEF SupType, Step, ExecutionError
  <1> HIDE DEF status, drop, late
  <1>5. \/ status # None /\ Drained(s) /\ sup' = drop
        \/ sup' = late
        \/ sup' = seen
    BY DEF Checked, status, seen, drop, late
  <1> QED
    BY <1>1, <1>2, <1>3, <1>4, <1>5 DEF Drained

-----------------------------------------------------------------------------
(* Type correctness. *)

\* The rest of the types: everything but the supervisor's own state.
RestType ==
    /\ agent \in {"absent", "running", "ok", "nonzero"}
    /\ written \in Seq(Record) /\ Len(written) <= MaxRecords
    /\ pipe \in Seq(Record) /\ Len(pipe) <= PipeCapacity
    /\ living \subseteq {"child", "escapee"}
    /\ holders \subseteq living \cup {"agent"}
    /\ out \in [pc : {"off", "read", "send", "done"}, message : ReaderMessage \cup {None}]
    /\ err \in [pc : {"off", "read", "send", "done"}, message : ReaderMessage \cup {None}]
    /\ channel \in Seq(ReaderMessage) /\ Len(channel) <= ChannelCapacity
    /\ receiving \in BOOLEAN
    /\ journal \in Seq(EventKinds)
    /\ session \in {"absent", "starting", "running", "completed", "failed"}
    /\ branch \in {"absent", "running", "completed", "failed"}

\* The two parts make up the type invariant.
LEMMA TypeParts == TypeOK <=> sup \in SupType /\ RestType
  BY DEF TypeOK, SupType, RestType

\* HasRoom is the bound of the sync_channel.
LEMMA AppendRoom ==
    ASSUME NEW c \in Seq(ReaderMessage), Len(c) < ChannelCapacity, NEW m \in ReaderMessage
    PROVE  Append(c, m) \in Seq(ReaderMessage) /\ Len(Append(c, m)) <= ChannelCapacity
  BY CapacityType

\* The steps of the agent, its descendants and the readers keep the types.
LEMMA OthersKeepTypes ==
    ASSUME TypeOK, ReaderInv, UNCHANGED sup,
           \/ ReadOut \/ ReadErr \/ StderrTooLarge
           \/ \E r \in Record : Write(r)
           \/ \E d \in {"child", "escapee"} : Fork(d) \/ Detach(d) \/ DescendantExits(d)
           \/ \E status \in {"ok", "nonzero"} : Exit(status)
    PROVE  TypeOK'
  <1> USE DEF RestType, readers, rows, processes
  <1>t. sup \in SupType /\ RestType
    BY TypeParts
  <1>s. SUFFICES RestType'
    BY <1>t DEF TypeOK, SupType
  <1>m. StdoutMessage \subseteq ReaderMessage /\ StderrMessage \subseteq ReaderMessage
          /\ Record \subseteq ReaderMessage
    BY DEF StdoutMessage, StderrMessage, ReaderMessage
  <1>1. ASSUME NEW r \in Record, Write(r) PROVE RestType'
    BY <1>1, <1>t, CapacityType, BoundsType DEF Write
  <1>2. ASSUME NEW d \in {"child", "escapee"}, Fork(d) \/ Detach(d) \/ DescendantExits(d)
        PROVE  RestType'
    BY <1>2, <1>t, ZenonT(30) DEF Fork, Detach, DescendantExits
  <1>3. ASSUME NEW status \in {"ok", "nonzero"}, Exit(status) PROVE RestType'
    BY <1>3, <1>t DEF Exit
  <1>4. CASE ReadStdout
    <2>1. pipe' \in Seq(Record) /\ Len(pipe') <= PipeCapacity /\ Head(pipe) \in Record
      BY <1>4, <1>t, CapacityType DEF ReadStdout
    <2>2. out'.message \in ReaderMessage /\ out' = [pc |-> "send", message |-> out'.message]
      BY <1>4, <2>1, <1>m DEF ReadStdout, ReaderMessage
    <2> QED
      BY <1>4, <1>t, <2>1, <2>2 DEF ReadStdout
  <1>5. CASE EndOfStdout
    BY <1>5, <1>t DEF EndOfStdout, ReaderMessage
  <1>6. CASE SendStdout
    <2>m. out.message \in ReaderMessage
      BY <1>6, <1>m DEF SendStdout, ReaderInv
    <2>c. channel' = channel \/ (HasRoom /\ channel' = Append(channel, out.message))
      BY <1>6 DEF SendStdout
    <2>1. channel' \in Seq(ReaderMessage) /\ Len(channel') <= ChannelCapacity
      BY <2>c, <2>m, AppendRoom, <1>t, ZenonT(30) DEF HasRoom
    <2>2. out'.pc \in {"read", "done"} /\ out' = [pc |-> out'.pc, message |-> None]
      BY <1>6 DEF SendStdout
    <2> QED
      BY <1>6, <1>t, <2>1, <2>2 DEF SendStdout
  <1>7. CASE EndOfStderr
    BY <1>7, <1>t DEF EndOfStderr, ReaderMessage
  <1>8. CASE StderrTooLarge
    BY <1>8, <1>t DEF StderrTooLarge, ReaderMessage
  <1>9. CASE SendStderr
    <2>m. err.message \in ReaderMessage
      BY <1>9, <1>m DEF SendStderr, ReaderInv
    <2>c. channel' = channel \/ (HasRoom /\ channel' = Append(channel, err.message))
      BY <1>9 DEF SendStderr
    <2>1. channel' \in Seq(ReaderMessage) /\ Len(channel') <= ChannelCapacity
      BY <2>c, <2>m, AppendRoom, <1>t, ZenonT(60) DEF HasRoom
    <2> QED
      BY <1>9, <1>t, <2>1 DEF SendStderr
  <1> QED
    BY <1>1, <1>2, <1>3, <1>4, <1>5, <1>6, <1>7, <1>8, <1>9 DEF ReadOut, ReadErr

\* Taking a message leaves a shorter channel.
LEMMA TakeKeepsTypes ==
    ASSUME TypeOK, Take
    PROVE  /\ channel' \in Seq(ReaderMessage) /\ Len(channel') = Len(channel) - 1
           /\ Len(channel) \in Nat \ {0} /\ Head(channel) \in ReaderMessage
           /\ \A i \in DOMAIN channel' : i + 1 \in DOMAIN channel /\ channel'[i] = channel[i + 1]
  BY DEF TypeOK, Take

\* The steps of the supervisor keep the types.
LEMMA SupervisorKeepsTypes ==
    ASSUME TypeOK, ProcessInv, Supervise \/ DrainTimer
    PROVE  TypeOK'
  <1> USE DEF RestType, readers, rows, processes, At
  <1>t. sup \in SupType /\ RestType
    BY TypeParts
  <1>s. SUFFICES sup' \in SupType /\ RestType'
    BY DEF TypeOK, SupType
  <1>a. sup.pc = "monitor" => agent # "absent"
    BY DEF ProcessInv, Started
  <1>1. CASE CreateExecution
    BY <1>1, <1>t, GotoFields DEF CreateExecution, Step
  <1>2. ASSUME NEW kind \in EventKinds \cap Step, NEW next \in Step, Journal(kind, next)
        PROVE  sup' \in SupType /\ RestType'
    BY <1>2, <1>t, GotoFields DEF Journal
  <1>3. CASE SpawnAgent
    BY <1>3, <1>t, GotoFields DEF SpawnAgent, Step
  <1>4. CASE SpawnFails
    BY <1>4, <1>t, FailToFields DEF SpawnFails, Step, ExecutionError
  <1>5. CASE MarkSessionRunning
    BY <1>5, <1>t, GotoFields DEF MarkSessionRunning, Step
  <1>6. CASE StartReaders
    BY <1>6, <1>t, GotoFields DEF StartReaders, Step, Off
  <1>7. CASE StorageFails
    BY <1>7, <1>t, GotoFields, FailToFields DEF StorageFails, Step, ExecutionError
  <1>8. CASE DropGuard
    BY <1>8, <1>t, GotoFields DEF DropGuard, KillGroup, Step
  <1>9. CASE ReceiveRecord
    <2>1. channel' \in Seq(ReaderMessage) /\ Len(channel') <= ChannelCapacity
      BY <1>9, <1>t, TakeKeepsTypes, CapacityType DEF ReceiveRecord
    <2>2. journal' \in Seq(EventKinds)
      <3>1. \/ journal' = journal
            \/ Head(channel) \in Valid /\ journal' = Append(journal, Head(channel))
        BY <1>9 DEF ReceiveRecord
      <3>2. journal \in Seq(EventKinds) /\ Valid \subseteq EventKinds
        BY <1>t DEF EventKinds
      <3>3. PICK r : r = Head(channel)
        OBVIOUS
      <3>4. r \in EventKinds => Append(journal, r) \in Seq(EventKinds)
        BY <3>2
      <3> QED
        BY <3>1, <3>2, <3>3, <3>4, Zenon
    <2>3. sup' \in SupType
      <3> DEFINE s == [sup EXCEPT !.complete = (Head(channel) = "completion")]
      <3>1. s \in SupType /\ s.pc = sup.pc
        BY <1>t DEF SupType
      <3>2. \/ Checked(s)
            \/ FailTo("terminate", "persistence") \/ FailTo("terminate", "ingest")
        BY <1>9 DEF ReceiveRecord
      <3>3. agent # "absent" /\ s.pc = "monitor"
        BY <1>9, <1>a, <3>1 DEF ReceiveRecord
      <3> HIDE DEF s
      <3> QED
        BY <1>t, <3>1, <3>2, <3>3, CheckedFields, FailToFields DEF Step, ExecutionError
    <2> QED
      BY <1>9, <1>t, <2>1, <2>2, <2>3 DEF ReceiveRecord
  <1>10. CASE ReceiveEnd
    <2>1. channel' \in Seq(ReaderMessage) /\ Len(channel') <= ChannelCapacity
      BY <1>10, <1>t, TakeKeepsTypes, CapacityType DEF ReceiveEnd
    <2>2. sup' \in SupType
      <3> DEFINE s == [sup EXCEPT
                         !.stdout_finished = @ \/ Head(channel) = "StdoutFinished",
                         !.stderr_captured = @ \/ Head(channel) = "StderrFinished"]
      <3>1. s \in SupType /\ s.pc = sup.pc
        BY <1>t DEF SupType
      <3>2. Checked(s) /\ agent # "absent" /\ sup.pc = "monitor"
        BY <1>10, <1>a DEF ReceiveEnd
      <3> HIDE DEF s
      <3> QED
        BY <3>1, <3>2, CheckedFields
    <2> QED
      BY <1>10, <1>t, <2>1, <2>2 DEF ReceiveEnd
  <1>11. CASE ReceiveFailure
    <2>1. channel' \in Seq(ReaderMessage) /\ Len(channel') <= ChannelCapacity
      BY <1>11, <1>t, TakeKeepsTypes, CapacityType DEF ReceiveFailure
    <2>2. sup' \in SupType
      BY <1>11, <1>t, FailToFields DEF ReceiveFailure, Step, ExecutionError
    <2> QED
      BY <1>11, <1>t, <2>1, <2>2 DEF ReceiveFailure
  <1>12. CASE PollTimeout
    BY <1>12, <1>t, <1>a, CheckedFields DEF PollTimeout
  <1>13. CASE TerminateGroup
    BY <1>13, <1>t, GotoFields DEF TerminateGroup, KillGroup, Step
  <1>14. CASE DropReceiver
    <2>1. channel' \in Seq(ReaderMessage) /\ Len(channel') <= ChannelCapacity
      BY <1>14, CapacityType DEF DropReceiver
    <2>2. sup' \in SupType
      BY <1>14, <1>t, GotoFields DEF DropReceiver, Step
    <2>3. receiving' \in BOOLEAN
      BY <1>14, Zenon DEF DropReceiver
    <2> QED
      BY <1>14, <1>t, <2>1, <2>2, <2>3 DEF DropReceiver
  <1>15. CASE JoinReaders
    BY <1>15, <1>t, GotoFields DEF JoinReaders, Step
  <1>16. CASE Classify
    BY <1>16, <1>t, GotoFields, FailToFields DEF Classify, Step, ExecutionError
  <1>17. CASE MarkTerminal
    BY <1>17, <1>t, GotoFields DEF MarkTerminal, Terminal, Step
  <1>18. CASE MarkFailed
    BY <1>18, <1>t, GotoFields DEF MarkFailed, Terminal, Step
  <1>19. CASE DrainTimer
    <2>1. sup' \in SupType
      BY <1>19, <1>t DEF DrainTimer, SupType
    <2> QED
      BY <1>19, <1>t, <2>1 DEF DrainTimer
  <1>20. /\ {"run_started", "process.started", "process.manifest", "process.stderr",
            "process.exited", "supervisor.failure"} \subseteq EventKinds \cap Step
         /\ {"spawn", "process.manifest", "threads", "process.exited", "mark_terminal",
             "mark_failed"} \subseteq Step
    BY DEF EventKinds, Step
  <1> QED
    BY <1>1, <1>2, <1>3, <1>4, <1>5, <1>6, <1>7, <1>8, <1>9, <1>10, <1>11, <1>12, <1>13,
       <1>14, <1>15, <1>16, <1>17, <1>18, <1>19, <1>20
    DEF Supervise

-----------------------------------------------------------------------------
(* The channel: what receiving and sending do to the messages in it. *)

\* Of the first i messages at most i and at least i - 1 are from stdout, and
\* more of the channel holds no fewer of them.
LEMMA RankBounds ==
    ASSUME NEW c \in Seq(ReaderMessage), NEW w, NEW n, ChannelOK(c, w, n)
    PROVE  /\ \A i \in 0 .. Len(c) : Rank(c, i) \in Int /\ i - 1 <= Rank(c, i) /\ Rank(c, i) <= i
           /\ Rank(c, 0) = 0 /\ Queued(c) \in Nat
           /\ \A i \in 0 .. Len(c) : Rank(c, i) <= Queued(c)
           /\ \A i \in DOMAIN c : c[i] \notin StderrMessage => Rank(c, i) \in Nat \ {0}
  <1>1. \A i \in 0 .. Len(c) : Rank(c, i) \in Int /\ i - 1 <= Rank(c, i) /\ Rank(c, i) <= i
    BY DEF Rank
  <1>2. Rank(c, 0) = 0
    BY DEF Rank
  <1>3. \A i \in 0 .. Len(c) : Rank(c, i) <= Queued(c)
    BY DEF Rank, Queued
  <1>4. \A i \in DOMAIN c : c[i] \notin StderrMessage => Rank(c, i) \in Nat \ {0}
    <2> SUFFICES ASSUME NEW i \in DOMAIN c, c[i] \notin StderrMessage
                 PROVE  Rank(c, i) \in Nat \ {0}
      OBVIOUS
    <2>1. i \in 1 .. Len(c)
      OBVIOUS
    <2>2. CASE i = 1
      <3>1. \A j \in 1 .. i : c[j] \notin StderrMessage
        BY <2>2
      <3> QED
        BY <2>2, <3>1 DEF Rank
    <2>3. CASE i > 1
      BY <2>1, <2>3 DEF Rank
    <2> QED
      BY <2>1, <2>2, <2>3
  <1>5. Queued(c) \in Nat
    <2>1. Len(c) \in 0 .. Len(c) /\ 0 \in 0 .. Len(c)
      OBVIOUS
    <2> QED
      BY <1>1, <1>2, <1>3, <2>1 DEF Queued
  <1> QED
    BY <1>1, <1>2, <1>3, <1>4, <1>5

\* The supervisor takes a message of stderr: the others keep their places.
LEMMA TakeStderr ==
    ASSUME NEW c \in Seq(ReaderMessage), NEW w, NEW n, ChannelOK(c, w, n),
           c # <<>>, Head(c) \in StderrMessage
    PROVE  /\ ChannelOK(Tail(c), w, n) /\ Queued(Tail(c)) = Queued(c)
           /\ NoStderr(Tail(c))
  <1> DEFINE t == Tail(c)
  <1>1. /\ t \in Seq(ReaderMessage) /\ Len(t) = Len(c) - 1 /\ Len(c) \in Nat \ {0}
        /\ \A i \in 1 .. Len(t) : i + 1 \in 2 .. Len(c) /\ t[i] = c[i + 1]
        /\ Head(c) = c[1] /\ DOMAIN t = 1 .. Len(t) /\ DOMAIN c = 1 .. Len(c)
    OBVIOUS
  <1> HIDE DEF t
  <1>2. \A i \in 1 .. Len(t) : t[i] \notin StderrMessage
    BY <1>1 DEF ChannelOK
  <1>3. \A i \in 0 .. Len(t) : Rank(t, i) = i
    BY <1>1, <1>2 DEF Rank
  <1>4. \A i \in 0 .. Len(t) : Rank(c, i + 1) = i
    BY <1>1 DEF Rank
  <1>5. Queued(t) = Queued(c)
    <2>1. Len(t) \in 0 .. Len(t) /\ Len(t) + 1 = Len(c)
      BY <1>1
    <2> QED
      BY <1>3, <1>4, <2>1 DEF Queued
  <1>6. ASSUME NEW i \in DOMAIN t PROVE t[i] = Message(w, n + Rank(t, i))
    <2>1. i + 1 \in DOMAIN c /\ t[i] = c[i + 1] /\ t[i] \notin StderrMessage
            /\ Rank(t, i) = i /\ Rank(c, i + 1) = i
      BY <1>1, <1>2, <1>3, <1>4
    <2> QED
      BY <2>1 DEF ChannelOK
  <1> QED
    BY <1>1, <1>2, <1>5, <1>6 DEF ChannelOK, NoStderr, t

\* The supervisor takes a message of stdout: it is the next one, and those
\* behind it move up.
LEMMA TakeStdout ==
    ASSUME NEW c \in Seq(ReaderMessage), NEW w, NEW n \in Nat, ChannelOK(c, w, n),
           c # <<>>, Head(c) \notin StderrMessage
    PROVE  /\ ChannelOK(Tail(c), w, n + 1) /\ Queued(Tail(c)) = Queued(c) - 1
           /\ Queued(c) \in Nat \ {0} /\ Head(c) = Message(w, n + 1)
           /\ NoStderr(c) => NoStderr(Tail(c))
  <1> DEFINE t == Tail(c)
  <1>1. /\ t \in Seq(ReaderMessage) /\ Len(t) = Len(c) - 1 /\ Len(c) \in Nat \ {0}
        /\ \A i \in 1 .. Len(t) : i + 1 \in 2 .. Len(c) /\ t[i] = c[i + 1]
        /\ Head(c) = c[1] /\ DOMAIN t = 1 .. Len(t) /\ DOMAIN c = 1 .. Len(c)
    OBVIOUS
  <1> HIDE DEF t
  <1>2. \A i \in 0 .. Len(t) : Rank(t, i) = Rank(c, i + 1) - 1
    <2> SUFFICES ASSUME NEW i \in 0 .. Len(t) PROVE Rank(t, i) = Rank(c, i + 1) - 1
      OBVIOUS
    <2>1. (\E j \in 1 .. i : t[j] \in StderrMessage) <=> \E j \in 1 .. i + 1 : c[j] \in StderrMessage
      <3>1. ASSUME NEW j \in 1 .. i, t[j] \in StderrMessage
            PROVE  \E k \in 1 .. i + 1 : c[k] \in StderrMessage
        <4>1. j + 1 \in 1 .. i + 1 /\ c[j + 1] = t[j]
          BY <1>1
        <4> QED
          BY <3>1, <4>1
      <3>2. ASSUME NEW k \in 1 .. i + 1, c[k] \in StderrMessage
            PROVE  \E j \in 1 .. i : t[j] \in StderrMessage
        <4>1. k # 1
          BY <1>1, <3>2
        <4>2. k - 1 \in 1 .. i /\ k - 1 \in 1 .. Len(t) /\ (k - 1) + 1 = k
          BY <1>1, <4>1
        <4>3. t[k - 1] = c[k]
          BY <1>1, <4>2
        <4> QED
          BY <3>2, <4>2, <4>3
      <3> QED
        BY <3>1, <3>2
    <2> QED
      BY <2>1 DEF Rank
  <1>3. Queued(t) = Queued(c) - 1
    <2>1. Len(t) \in 0 .. Len(t) /\ Len(t) + 1 = Len(c)
      BY <1>1
    <2> QED
      BY <1>2, <2>1 DEF Queued
  <1>4. Rank(c, 1) = 1
    BY <1>1 DEF Rank
  <1>5. 1 <= Queued(c)
    BY <1>1, <1>4, RankBounds
  <1>6. Head(c) = Message(w, n + 1)
    BY <1>1, <1>4 DEF ChannelOK
  <1>7. ASSUME NEW i \in DOMAIN t, t[i] \notin StderrMessage
        PROVE  t[i] = Message(w, n + 1 + Rank(t, i))
    <2>1. i + 1 \in DOMAIN c /\ t[i] = c[i + 1] /\ Rank(t, i) = Rank(c, i + 1) - 1
            /\ Rank(c, i + 1) \in Int
      BY <1>1, <1>2, RankBounds
    <2>2. c[i + 1] = Message(w, n + Rank(c, i + 1))
      BY <1>7, <2>1 DEF ChannelOK
    <2>3. n + 1 + Rank(t, i) = n + Rank(c, i + 1)
      BY <2>1
    <2> QED
      BY <2>1, <2>2, <2>3
  <1>8. ASSUME NEW i \in DOMAIN t, NEW j \in DOMAIN t,
               t[i] \in StderrMessage, t[j] \in StderrMessage
        PROVE  i = j
    <2>1. i + 1 \in DOMAIN c /\ j + 1 \in DOMAIN c /\ t[i] = c[i + 1] /\ t[j] = c[j + 1]
      BY <1>1
    <2>2. i + 1 = j + 1
      BY <1>8, <2>1 DEF ChannelOK
    <2> QED
      BY <1>1, <2>2
  <1>9. NoStderr(c) => NoStderr(t)
    BY <1>1 DEF NoStderr
  <1>10. Queued(c) \in Nat
    BY RankBounds
  <1> QED
    BY <1>3, <1>5, <1>6, <1>7, <1>8, <1>9, <1>10 DEF ChannelOK, t

\* With nothing from stdout in it, a channel says nothing of what is next.
LEMMA DrainedChannel ==
    ASSUME NEW c \in Seq(ReaderMessage), NEW w, NEW n, ChannelOK(c, w, n), Queued(c) = 0, NEW m
    PROVE  ChannelOK(c, w, m)
  <1>1. ASSUME NEW i \in DOMAIN c PROVE c[i] \in StderrMessage
    <2>1. i \in 0 .. Len(c) /\ Rank(c, i) <= 0
      BY RankBounds
    <2> QED
      BY <2>1, RankBounds
  <1> QED
    BY <1>1 DEF ChannelOK

\* read_stdout sends its next message.
LEMMA PutStdout ==
    ASSUME NEW c \in Seq(ReaderMessage), NEW w, NEW n \in Nat, ChannelOK(c, w, n),
           NEW m \in ReaderMessage \ StderrMessage, m = Message(w, n + Queued(c) + 1)
    PROVE  /\ ChannelOK(Append(c, m), w, n) /\ Queued(Append(c, m)) = Queued(c) + 1
           /\ NoStderr(c) => NoStderr(Append(c, m))
  <1> DEFINE a == Append(c, m)
  <1>1. /\ a \in Seq(ReaderMessage) /\ Len(a) = Len(c) + 1 /\ Len(c) \in Nat
        /\ \A i \in 1 .. Len(c) : a[i] = c[i]
        /\ a[Len(c) + 1] = m /\ DOMAIN a = 1 .. Len(a) /\ DOMAIN c = 1 .. Len(c)
    OBVIOUS
  <1>d. \A i \in DOMAIN a : i \in 1 .. Len(c) \/ i = Len(c) + 1
    BY <1>1
  <1> HIDE DEF a
  <1>2. \A i \in 0 .. Len(c) : Rank(a, i) = Rank(c, i)
    BY <1>1 DEF Rank
  <1>3. Rank(a, Len(c) + 1) = Rank(c, Len(c)) + 1
    <2>1. (\E j \in 1 .. Len(c) + 1 : a[j] \in StderrMessage)
            <=> \E j \in 1 .. Len(c) : c[j] \in StderrMessage
      BY <1>1
    <2> QED
      BY <1>1, <2>1 DEF Rank
  <1>4. Queued(a) = Queued(c) + 1
    BY <1>1, <1>3 DEF Queued
  <1>5. ASSUME NEW i \in DOMAIN a, a[i] \notin StderrMessage PROVE a[i] = Message(w, n + Rank(a, i))
    <2>1. CASE i \in 1 .. Len(c)
      BY <1>1, <1>2, <1>5, <2>1 DEF ChannelOK
    <2>2. CASE i = Len(c) + 1
      <3>1. n + Rank(a, i) = n + Queued(c) + 1
        BY <1>3, <2>2, RankBounds DEF Queued
      <3> QED
        BY <1>1, <2>2, <3>1
    <2> QED
      BY <1>d, <2>1, <2>2
  <1>6. \A i, j \in DOMAIN a : a[i] \in StderrMessage /\ a[j] \in StderrMessage => i = j
    BY <1>1, <1>d DEF ChannelOK
  <1>7. NoStderr(c) => NoStderr(a)
    BY <1>1, <1>d DEF NoStderr
  <1> QED
    BY <1>4, <1>5, <1>6, <1>7 DEF ChannelOK, a

\* read_stderr sends its only message.
LEMMA PutStderr ==
    ASSUME NEW c \in Seq(ReaderMessage), NEW w, NEW n \in Nat, ChannelOK(c, w, n),
           NEW m \in StderrMessage, NoStderr(c)
    PROVE  ChannelOK(Append(c, m), w, n) /\ Queued(Append(c, m)) = Queued(c)
  <1> DEFINE a == Append(c, m)
  <1>m. m \in ReaderMessage
    BY DEF StderrMessage, ReaderMessage
  <1>1. /\ a \in Seq(ReaderMessage) /\ Len(a) = Len(c) + 1 /\ Len(c) \in Nat
        /\ \A i \in 1 .. Len(c) : a[i] = c[i]
        /\ a[Len(c) + 1] = m /\ DOMAIN a = 1 .. Len(a) /\ DOMAIN c = 1 .. Len(c)
    BY <1>m
  <1>d. \A i \in DOMAIN a : i \in 1 .. Len(c) \/ i = Len(c) + 1
    BY <1>1
  <1> HIDE DEF a
  <1>2. \A i \in 0 .. Len(c) : Rank(a, i) = Rank(c, i)
    BY <1>1 DEF Rank
  <1>3. Rank(a, Len(c) + 1) = Len(c) /\ Rank(c, Len(c)) = Len(c)
    <2>1. Len(c) + 1 \in 1 .. (Len(c) + 1) /\ a[Len(c) + 1] \in StderrMessage
            /\ (Len(c) + 1) - 1 = Len(c)
      BY <1>1
    <2>2. ~ \E j \in 1 .. Len(c) : c[j] \in StderrMessage
      BY <1>1 DEF NoStderr
    <2> QED
      BY <2>1, <2>2 DEF Rank
  <1>4. Queued(a) = Queued(c)
    BY <1>1, <1>3 DEF Queued
  <1>5. ASSUME NEW i \in DOMAIN a, a[i] \notin StderrMessage PROVE a[i] = Message(w, n + Rank(a, i))
    <2>1. i \in 1 .. Len(c)
      BY <1>1, <1>d, <1>5
    <2> QED
      BY <1>1, <1>2, <1>5, <2>1 DEF ChannelOK
  <1>6. \A i, j \in DOMAIN a : a[i] \in StderrMessage /\ a[j] \in StderrMessage => i = j
    BY <1>1, <1>d DEF NoStderr
  <1> QED
    BY <1>4, <1>5, <1>6 DEF ChannelOK, a

\* The agent writes on: what was sent before it did is still what it wrote.
LEMMA WriteKeepsChannel ==
    ASSUME NEW c \in Seq(ReaderMessage), NEW w \in Seq(Record), NEW n \in Nat, ChannelOK(c, w, n),
           NEW r \in Record, n + Queued(c) <= Len(w)
    PROVE  ChannelOK(c, Append(w, r), n)
  <1>1. \A k \in 1 .. Len(w) : Message(Append(w, r), k) = Message(w, k)
    BY DEF Message
  <1>2. ASSUME NEW i \in DOMAIN c, c[i] \notin StderrMessage
        PROVE  c[i] = Message(Append(w, r), n + Rank(c, i))
    <2>1. Rank(c, i) \in Nat \ {0} /\ Rank(c, i) <= Queued(c) /\ Queued(c) \in Nat
      BY <1>2, RankBounds
    <2>2. n + Rank(c, i) \in 1 .. Len(w)
      BY <2>1
    <2> QED
      BY <1>1, <1>2, <2>2 DEF ChannelOK
  <1> QED
    BY <1>2 DEF ChannelOK

-----------------------------------------------------------------------------
(* The journal: what an append does to the records on record. *)

\* Recorded counts what follows the first three events.
LEMMA CardinalityOfRecorded ==
    ASSUME NEW n \in Nat
    PROVE  Cardinality(4 .. (3 + n)) = n
  BY FS_Interval

\* An event of the supervisor's own is not a record of the agent.
LEMMA AppendOther ==
    ASSUME TypeOK, JournalInv, NEW kind \in EventKinds \ Valid, journal' = Append(journal, kind)
    PROVE  /\ RecordedAt' = RecordedAt /\ Len(journal') = Len(journal) + 1
           /\ \A k \in 1 .. Recorded : journal'[3 + k] = journal[3 + k]
           /\ journal' # <<>> /\ Last(journal') = kind
  <1>1. /\ journal \in Seq(EventKinds) /\ Len(journal) \in Nat
        /\ DOMAIN journal = 1 .. Len(journal) /\ DOMAIN journal' = 1 .. (Len(journal) + 1)
        /\ \A i \in 1 .. Len(journal) : journal'[i] = journal[i]
        /\ journal'[Len(journal) + 1] = kind /\ Len(journal') = Len(journal) + 1
    BY DEF TypeOK
  <1>2. RecordedAt' = RecordedAt
    BY <1>1 DEF RecordedAt
  <1>3. ASSUME NEW k \in 1 .. Recorded PROVE journal'[3 + k] = journal[3 + k]
    <2>1. 3 + k \in RecordedAt
      BY DEF JournalInv
    <2> QED
      BY <1>1, <2>1 DEF RecordedAt
  <1>4. journal' # <<>>
    BY <1>1
  <1>5. Last(journal') = kind
    BY <1>1 DEF Last
  <1> QED
    BY <1>1, <1>2, <1>3, <1>4, <1>5

\* In the loop the journal ends with the agent's records, and the next joins them.
LEMMA AppendRecord ==
    ASSUME TypeOK, JournalInv, sup.pc = "monitor", NEW r \in Valid, journal' = Append(journal, r)
    PROVE  /\ Recorded' = Recorded + 1 /\ RecordedAt' = 4 .. (3 + Recorded')
           /\ Len(journal') = 3 + Recorded'
           /\ \A k \in 1 .. Recorded : journal'[3 + k] = journal[3 + k]
           /\ journal'[3 + Recorded'] = r
  <1>1. /\ journal \in Seq(EventKinds) /\ Len(journal) \in Nat
        /\ DOMAIN journal = 1 .. Len(journal) /\ DOMAIN journal' = 1 .. (Len(journal) + 1)
        /\ \A i \in 1 .. Len(journal) : journal'[i] = journal[i]
        /\ journal'[Len(journal) + 1] = r /\ Len(journal') = Len(journal) + 1
    BY DEF TypeOK, EventKinds
  <1>2. Recorded \in Nat /\ RecordedAt = 4 .. (3 + Recorded) /\ Len(journal) = 3 + Recorded
    BY DEF JournalInv
  <1>3. RecordedAt' = RecordedAt \cup {Len(journal) + 1}
    BY <1>1 DEF RecordedAt
  <1>4. RecordedAt' = 4 .. (3 + (Recorded + 1))
    BY <1>2, <1>3
  <1>5. Recorded' = Recorded + 1
    BY <1>2, <1>4, CardinalityOfRecorded DEF Recorded
  <1>6. \A k \in 1 .. Recorded : 3 + k \in 1 .. Len(journal)
    BY <1>2
  <1> QED
    BY <1>1, <1>2, <1>4, <1>5, <1>6

\* A step that records nothing of the agent, whether the agent writes or not.
LEMMA JournalStays ==
    ASSUME TypeOK, JournalInv, RecordedAt' = RecordedAt, sup'.complete = sup.complete,
           \A k \in 1 .. Recorded : journal'[3 + k] = journal[3 + k],
           Len(written') \in Nat, Len(written) <= Len(written'),
           \A k \in 1 .. Len(written) : written'[k] = written[k],
           sup'.pc \in Early => Recorded = 0 /\ Len(journal') = Preceding(sup'.pc),
           sup'.pc = "monitor" => Len(journal') = 3 + Recorded
    PROVE  JournalInv' /\ Recorded' = Recorded
  <1>1. Recorded' = Recorded
    BY DEF Recorded
  <1>2. Recorded \in Nat /\ Len(written) \in Nat /\ Recorded <= Len(written)
    BY DEF JournalInv, TypeOK
  <1>3. \A k \in 1 .. Recorded : k \in 1 .. Len(written)
    BY <1>2
  <1>4. Recorded > 0 => Recorded \in 1 .. Recorded
    BY <1>2
  <1> QED
    BY <1>1, <1>2, <1>3, <1>4 DEF JournalInv

-----------------------------------------------------------------------------
(* The flow of the records. *)

\* What the head of the channel says, by the stream it comes from: the next
\* record of the agent, that it may not occur, or that there is none.
LEMMA HeadIsNext ==
    ASSUME TypeOK, JournalInv, FlowInv, sup.pc = "monitor", Take,
           Head(channel) \notin StderrMessage
    PROVE  /\ ~sup.stdout_finished
           /\ Head(channel) = Message(written, Recorded + 1)
           /\ Head(channel) = "StdoutFinished" =>
                 Eof /\ Recorded = Len(written) /\ Queued(channel) = 1 /\ out.pc = "done"
           /\ Head(channel) # "StdoutFinished" => Recorded < Len(written)
           /\ Head(channel) = "StdoutFailed" => written[Recorded + 1] = "junk"
           /\ Head(channel) \in Record => written[Recorded + 1] = Head(channel)
  <1>t. /\ channel \in Seq(ReaderMessage) /\ written \in Seq(Record) /\ pipe \in Seq(Record)
        /\ Len(written) \in Nat /\ Len(pipe) \in Nat /\ Recorded \in Nat
        /\ Recorded <= Len(written) /\ channel # <<>>
    BY DEF TypeOK, JournalInv, Take
  <1>f. /\ ChannelOK(channel, written, Recorded)
        /\ sup.stdout_finished => Queued(channel) = 0
        /\ out.pc \in {"off", "read"} => Sent = Reads
        /\ out.pc = "send" => Sent + 1 = Reads \/ (Sent = Reads /\ Eof)
        /\ out.pc = "done" => Sent = Reads \/ (Sent = Reads + 1 /\ Eof)
    BY DEF FlowInv
  <1>1. Queued(channel) \in Nat \ {0} /\ Head(channel) = Message(written, Recorded + 1)
    BY <1>t, <1>f, TakeStdout
  <1>2. ~sup.stdout_finished /\ Sent = Recorded + Queued(channel)
    BY <1>t, <1>f, <1>1 DEF Sent
  <1>3. CASE Head(channel) = "StdoutFinished"
    <2>1. Recorded = Len(written)
      <3>1. Recorded + 1 \in 1 .. Len(written) => written[Recorded + 1] \in Record
        BY <1>t
      <3> QED
        BY <1>t, <1>1, <1>3, <3>1 DEF Message, Record, Valid
    <2>2. Reads \in Int /\ Reads <= Len(written) /\ Sent > Len(written)
      BY <1>t, <1>1, <1>2, <2>1 DEF Reads
    <2>3. out.pc = "done" /\ Sent = Reads + 1 /\ Eof
      <3>1. out.pc \in {"off", "read", "send", "done"}
        BY DEF TypeOK
      <3>2. Sent \in Int
        BY <1>t, <1>1, <1>2
      <3> QED
        BY <1>t, <1>f, <2>2, <3>1, <3>2
    <2>4. Queued(channel) = 1
      BY <1>t, <1>1, <1>2, <2>1, <2>2, <2>3
    <2> QED
      BY <1>1, <1>2, <1>3, <2>1, <2>3, <2>4 DEF Record, Valid
  <1>4. CASE Head(channel) # "StdoutFinished"
    <2>1. Recorded < Len(written)
      BY <1>t, <1>1, <1>4 DEF Message
    <2>2. written[Recorded + 1] \in Record
      BY <1>t, <2>1
    <2>3. Head(channel) = IF written[Recorded + 1] = "junk" THEN "StdoutFailed" ELSE written[Recorded + 1]
      BY <1>t, <1>1, <2>1 DEF Message
    <2> QED
      BY <1>1, <1>2, <1>4, <2>1, <2>2, <2>3 DEF Record, Valid
  <1> QED
    BY <1>3, <1>4

-----------------------------------------------------------------------------
(* The iterations of the loop. *)

\* The exit status is what try_wait returned for an agent that is gone.
StatusSeen == sup'.status # None => sup'.status = agent /\ agent # "running"

\* Where an iteration leaves the supervisor: in the loop, out of it with
\* everything seen, or out of it because draining takes too long.
IterationEnds ==
    \/ sup'.pc = "monitor" /\ sup'.error = None
    \/ sup'.pc = "drop" /\ sup'.error = None /\ sup'.status # None /\ sup'.stdout_finished
    \/ sup'.pc = "terminate" /\ sup'.error = "pipe_drain_timeout"

\* A record that comes out of the channel is the next one the agent wrote.
LEMMA ReceivedRecord ==
    ASSUME RunInv, ReceiveRecord
    PROVE  /\ sup.pc = "monitor" /\ ~sup.stdout_finished /\ ~sup'.stdout_finished
           /\ Recorded < Len(written) /\ written[Recorded + 1] = Head(channel)
           /\ \/ /\ Head(channel) \in Valid /\ ~sup.complete
                 /\ journal' = Append(journal, Head(channel))
                 /\ sup'.complete = (Head(channel) = "completion")
                 /\ IterationEnds /\ StatusSeen /\ sup'.pc # "drop"
              \/ /\ UNCHANGED journal /\ SameKnowledge /\ sup'.pc = "terminate"
                 /\ \/ sup'.error = "persistence"
                    \/ sup'.error = "ingest" /\ ~(Head(channel) \in Valid /\ ~sup.complete)
  <1> USE DEF At
  <1>t. TypeOK /\ ProcessInv /\ JournalInv /\ FlowInv /\ OutcomeInv /\ sup \in SupType
    BY TypeParts DEF RunInv
  <1>1. sup.pc = "monitor" /\ Take /\ Head(channel) \in Record
    BY DEF ReceiveRecord
  <1>2. Head(channel) \notin StderrMessage /\ Head(channel) # "StdoutFinished"
    BY <1>1 DEF Record, Valid, StderrMessage
  <1>3. ~sup.stdout_finished /\ Recorded < Len(written) /\ written[Recorded + 1] = Head(channel)
    BY <1>t, <1>1, <1>2, HeadIsNext
  <1>4. agent # "absent" /\ sup.error = None
    BY <1>t, <1>1 DEF ProcessInv, Started, OutcomeInv
  <1> DEFINE s == [sup EXCEPT !.complete = (Head(channel) = "completion")]
  <1>5. s \in SupType /\ s.pc = sup.pc /\ s.stdout_finished = sup.stdout_finished
          /\ s.error = sup.error /\ s.complete = (Head(channel) = "completion")
    BY <1>t DEF SupType
  <1>6. \/ /\ Head(channel) \in Valid /\ ~sup.complete
           /\ journal' = Append(journal, Head(channel)) /\ Checked(s)
        \/ UNCHANGED journal /\ FailTo("terminate", "persistence")
        \/ /\ UNCHANGED journal /\ FailTo("terminate", "ingest")
           /\ ~(Head(channel) \in Valid /\ ~sup.complete)
    BY DEF ReceiveRecord
  <1> HIDE DEF s
  <1>7. CASE Checked(s)
    <2>1. IterationEnds /\ StatusSeen /\ sup'.pc # "drop" /\ ~sup'.stdout_finished
            /\ sup'.complete = (Head(channel) = "completion")
      BY <1>t, <1>1, <1>3, <1>4, <1>5, <1>7, CheckedFields DEF IterationEnds, StatusSeen
    <2>2. \A e \in ExecutionError : FailTo("terminate", e) => sup'.pc = "terminate" /\ sup'.error = e /\ SameKnowledge
      BY <1>t, FailToFields DEF Step
    <2> QED
      BY <1>1, <1>3, <1>6, <2>1, <2>2 DEF ExecutionError
  <1>8. CASE ~Checked(s)
    <2>1. \A e \in ExecutionError : FailTo("terminate", e) => sup'.pc = "terminate" /\ sup'.error = e /\ SameKnowledge
      BY <1>t, FailToFields DEF Step
    <2> QED
      BY <1>1, <1>3, <1>6, <1>8, <2>1 DEF ExecutionError, SameKnowledge
  <1> QED
    BY <1>7, <1>8

\* The end of a pipe comes out of the channel: the end of stdout after
\* everything the agent wrote.
LEMMA ReceivedEnd ==
    ASSUME RunInv, ReceiveEnd
    PROVE  /\ sup.pc = "monitor" /\ UNCHANGED journal /\ sup'.complete = sup.complete
           /\ IterationEnds /\ StatusSeen
           /\ sup'.stdout_finished = (sup.stdout_finished \/ Head(channel) = "StdoutFinished")
           /\ sup'.stdout_finished => Eof /\ Recorded = Len(written)
  <1> USE DEF At
  <1>t. TypeOK /\ ProcessInv /\ JournalInv /\ FlowInv /\ OutcomeInv /\ sup \in SupType
    BY TypeParts DEF RunInv
  <1>1. sup.pc = "monitor" /\ Take /\ UNCHANGED journal
    BY DEF ReceiveEnd, rows
  <1>2. agent # "absent" /\ sup.error = None
    BY <1>t, <1>1 DEF ProcessInv, Started, OutcomeInv
  <1> DEFINE s == [sup EXCEPT
                     !.stdout_finished = @ \/ Head(channel) = "StdoutFinished",
                     !.stderr_captured = @ \/ Head(channel) = "StderrFinished"]
  <1>3. s \in SupType /\ s.pc = sup.pc /\ s.error = sup.error /\ s.complete = sup.complete
          /\ s.stdout_finished = (sup.stdout_finished \/ Head(channel) = "StdoutFinished")
    BY <1>t DEF SupType
  <1>4. Checked(s)
    BY DEF ReceiveEnd
  <1> HIDE DEF s
  <1>5. sup'.complete = sup.complete /\ IterationEnds /\ StatusSeen
          /\ sup'.stdout_finished = (sup.stdout_finished \/ Head(channel) = "StdoutFinished")
    BY <1>t, <1>1, <1>2, <1>3, <1>4, CheckedFields DEF IterationEnds, StatusSeen
  <1>6. Head(channel) = "StdoutFinished" => Eof /\ Recorded = Len(written)
    BY <1>t, <1>1, HeadIsNext DEF StderrMessage
  <1>7. sup.stdout_finished => Eof /\ Recorded = Len(written)
    BY <1>t, <1>1 DEF FlowInv
  <1> QED
    BY <1>1, <1>5, <1>6, <1>7

\* recv_timeout found nothing.
LEMMA Polled ==
    ASSUME RunInv, PollTimeout
    PROVE  /\ sup.pc = "monitor" /\ UNCHANGED journal /\ sup'.complete = sup.complete
           /\ IterationEnds /\ StatusSeen
           /\ sup'.stdout_finished = sup.stdout_finished
           /\ sup'.stdout_finished => Eof /\ Recorded = Len(written)
  <1>t. TypeOK /\ ProcessInv /\ FlowInv /\ OutcomeInv /\ sup \in SupType
    BY TypeParts DEF RunInv
  <1>1. sup.pc = "monitor" /\ UNCHANGED journal /\ Checked(sup)
    BY DEF PollTimeout, rows, At
  <1>2. agent # "absent" /\ sup.error = None
    BY <1>t, <1>1 DEF ProcessInv, Started, OutcomeInv
  <1>3. sup'.complete = sup.complete /\ IterationEnds /\ StatusSeen
          /\ sup'.stdout_finished = sup.stdout_finished
    BY <1>t, <1>1, <1>2, CheckedFields DEF IterationEnds, StatusSeen
  <1>4. sup.stdout_finished => Eof /\ Recorded = Len(written)
    BY <1>t, <1>1 DEF FlowInv
  <1> QED
    BY <1>1, <1>3, <1>4

-----------------------------------------------------------------------------
(* The processes and the readers. *)

\* Processes come and go by themselves only while the supervisor has not
\* finished with the group; readers only take what is there.
LEMMA OthersKeepProcesses ==
    ASSUME TypeOK, ProcessInv, ReaderInv, UNCHANGED sup,
           \/ ReadOut \/ ReadErr \/ StderrTooLarge
           \/ \E r \in Record : Write(r)
           \/ \E d \in {"child", "escapee"} : Fork(d) \/ Detach(d) \/ DescendantExits(d)
           \/ \E status \in {"ok", "nonzero"} : Exit(status)
    PROVE  ProcessInv' /\ ReaderInv'
  <1> USE DEF ProcessInv, ReaderInv, readers, processes
  <1>1. ASSUME NEW r \in Record, Write(r) PROVE ProcessInv' /\ ReaderInv'
    BY <1>1 DEF Write
  <1>2. ASSUME NEW d \in {"child", "escapee"}, Fork(d) \/ Detach(d) \/ DescendantExits(d)
        PROVE  ProcessInv' /\ ReaderInv'
    BY <1>2 DEF Fork, Detach, DescendantExits
  <1>3. ASSUME NEW status \in {"ok", "nonzero"}, Exit(status) PROVE ProcessInv' /\ ReaderInv'
    BY <1>3 DEF Exit
  <1>4. CASE ReadStdout
    <2>1. Head(pipe) \in Record /\ pipe # <<>>
      BY <1>4 DEF ReadStdout, TypeOK
    <2> QED
      BY <1>4, <2>1 DEF ReadStdout, StdoutMessage
  <1>5. CASE EndOfStdout
    BY <1>5 DEF EndOfStdout, StdoutMessage
  <1>6. CASE SendStdout
    BY <1>6 DEF SendStdout
  <1>7. CASE EndOfStderr \/ StderrTooLarge \/ SendStderr
    BY <1>7 DEF EndOfStderr, StderrTooLarge, SendStderr, StderrMessage
  <1> QED
    BY <1>1, <1>2, <1>3, <1>4, <1>5, <1>6, <1>7 DEF ReadOut, ReadErr

\* Without the kill, the supervisor passes to its last steps only when it has
\* nothing to kill or when both pipes have been closed by everyone.
LEMMA SupervisorKeepsProcesses ==
    ASSUME RunInv, Supervise \/ DrainTimer
    PROVE  ProcessInv' /\ ReaderInv'
  <1> USE DEF ProcessInv, ReaderInv, readers, processes, At
  <1>t. TypeOK /\ ProcessInv /\ ReaderInv /\ JournalInv /\ FlowInv /\ OutcomeInv /\ sup \in SupType
    BY TypeParts DEF RunInv
  <1>e. /\ sup.pc \in Early \cup {"monitor"} => sup.error = None
        /\ sup.pc = "monitor" /\ sup.stdout_finished => holders = {}
    BY <1>t DEF OutcomeInv, FlowInv, Eof
  <1> USE DEF Late, Started
  <1>1. CASE CreateExecution
    BY <1>1, <1>t, GotoFields DEF CreateExecution, Step
  <1>2. ASSUME NEW kind, NEW next, Journal(kind, next),
               <<kind, next>> \in
                  {<<"run_started", "spawn">>, <<"process.started", "process.manifest">>,
                   <<"process.manifest", "threads">>, <<"process.stderr", "process.exited">>,
                   <<"process.exited", "mark_terminal">>, <<"supervisor.failure", "mark_failed">>}
        PROVE  ProcessInv' /\ ReaderInv'
    BY <1>2, <1>t, GotoFields DEF Journal, Step
  <1>3. CASE SpawnAgent
    BY <1>3, <1>t, GotoFields DEF SpawnAgent, Step
  <1>4. CASE SpawnFails
    BY <1>4, <1>t, FailToFields DEF SpawnFails, Step, ExecutionError
  <1>5. CASE MarkSessionRunning
    BY <1>5, <1>t, GotoFields DEF MarkSessionRunning, Step
  <1>6. CASE StartReaders
    BY <1>6, <1>t, GotoFields DEF StartReaders, Step, Off
  <1>7. CASE StorageFails
    BY <1>7, <1>t, GotoFields, FailToFields DEF StorageFails, Step, ExecutionError, Cut
  <1>8. CASE DropGuard \/ TerminateGroup
    <2>1. CASE DropGuard
      BY <2>1, <1>t, GotoFields DEF DropGuard, KillGroup, Step, TypeOK
    <2>2. CASE TerminateGroup
      BY <2>2, <1>t, GotoFields DEF TerminateGroup, KillGroup, Step, TypeOK
    <2> QED
      BY <1>8, <2>1, <2>2
  <1>9. CASE ReceiveRecord
    BY <1>9, <1>t, ReceivedRecord DEF ReceiveRecord, IterationEnds, Cut, None
  <1>10. CASE ReceiveEnd
    BY <1>10, <1>t, ReceivedEnd DEF ReceiveEnd, IterationEnds, Eof, Cut, None
  <1>11. CASE ReceiveFailure
    BY <1>11, <1>t, FailToFields DEF ReceiveFailure, Step, ExecutionError
  <1>12. CASE PollTimeout
    BY <1>12, <1>t, Polled DEF PollTimeout, IterationEnds, Eof, Cut, None
  <1>13. CASE DropReceiver
    BY <1>13, <1>t, GotoFields DEF DropReceiver, Step
  <1>14. CASE JoinReaders
    BY <1>14, <1>t, GotoFields DEF JoinReaders, Step
  <1>15. CASE Classify
    BY <1>15, <1>t, GotoFields, FailToFields DEF Classify, Step, ExecutionError, Cut
  <1>16. CASE MarkTerminal \/ MarkFailed
    BY <1>16, <1>t, GotoFields DEF MarkTerminal, MarkFailed, Step
  <1>17. CASE DrainTimer
    <2>1. sup'.pc = sup.pc /\ sup'.error = sup.error
      BY <1>17, <1>t DEF DrainTimer, SupType
    <2> QED
      BY <1>17, <1>t, <2>1 DEF DrainTimer
  <1> QED
    BY <1>1, <1>2, <1>3, <1>4, <1>5, <1>6, <1>7, <1>8, <1>9, <1>10, <1>11, <1>12, <1>13,
       <1>14, <1>15, <1>16, <1>17
    DEF Supervise

-----------------------------------------------------------------------------
(* The records on record. *)

\* Nobody but the supervisor writes the journal, and the agent only adds to
\* what it wrote.
LEMMA OthersKeepJournal ==
    ASSUME TypeOK, JournalInv, UNCHANGED sup,
           \/ ReadOut \/ ReadErr \/ StderrTooLarge
           \/ \E r \in Record : Write(r)
           \/ \E d \in {"child", "escapee"} : Fork(d) \/ Detach(d) \/ DescendantExits(d)
           \/ \E status \in {"ok", "nonzero"} : Exit(status)
    PROVE  JournalInv' /\ Recorded' = Recorded
  <1>1. UNCHANGED journal /\ (UNCHANGED written \/ \E r \in Record : written' = Append(written, r))
    BY DEF ReadOut, ReadErr, ReadStdout, EndOfStdout, SendStdout, EndOfStderr, SendStderr,
           StderrTooLarge, Write, Fork, Detach, DescendantExits, Exit, processes, rows
  <1>2. /\ Len(written') \in Nat /\ Len(written) <= Len(written')
        /\ \A k \in 1 .. Len(written) : written'[k] = written[k]
    BY <1>1 DEF TypeOK
  <1>3. RecordedAt' = RecordedAt
    BY <1>1 DEF RecordedAt
  <1> QED
    BY <1>1, <1>2, <1>3, JournalStays DEF JournalInv

\* The supervisor records the records of the agent in the order of the channel,
\* and its own events before the first and after the last.
LEMMA SupervisorKeepsJournal ==
    ASSUME RunInv, Supervise \/ DrainTimer
    PROVE  JournalInv'
  <1> USE DEF readers, processes, rows, At
  <1>t. TypeOK /\ ProcessInv /\ JournalInv /\ FlowInv /\ sup \in SupType
    BY TypeParts DEF RunInv
  <1>a. sup.pc = "monitor" => agent # "absent"
    BY <1>t DEF ProcessInv, Started
  <1>w. UNCHANGED written
    BY DEF Supervise, DrainTimer, CreateExecution, Journal, SpawnAgent, SpawnFails,
           MarkSessionRunning, StartReaders, StorageFails, DropGuard, KillGroup, ReceiveRecord,
           ReceiveEnd, ReceiveFailure, PollTimeout, TerminateGroup, DropReceiver, JoinReaders,
           Classify, MarkTerminal, MarkFailed
  <1>k. /\ Len(written') \in Nat /\ Len(written) <= Len(written')
        /\ \A k \in 1 .. Len(written) : written'[k] = written[k]
    BY <1>t, <1>w DEF TypeOK
  <1>j. /\ sup.pc \in Early => Recorded = 0 /\ Len(journal) = Preceding(sup.pc)
        /\ sup.pc = "monitor" => Len(journal) = 3 + Recorded
    BY <1>t DEF JournalInv
  \* A step that appends nothing.
  <1>q. ASSUME UNCHANGED journal, sup'.complete = sup.complete,
               sup'.pc \in Early => Recorded = 0 /\ Len(journal') = Preceding(sup'.pc),
               sup'.pc = "monitor" => Len(journal') = 3 + Recorded
        PROVE  JournalInv'
    <2>1. RecordedAt' = RecordedAt
      BY <1>q DEF RecordedAt
    <2>2. \A k \in 1 .. Recorded : journal'[3 + k] = journal[3 + k]
      BY <1>q
    <2> QED
      BY <1>t, <1>k, <1>q, <2>1, <2>2, JournalStays
  <1>1. CASE CreateExecution
    <2>1. UNCHANGED journal /\ sup.pc = "create" /\ sup'.pc = "run_started" /\ sup'.complete = sup.complete
      BY <1>1, <1>t, GotoFields DEF CreateExecution, Step, SameKnowledge
    <2> QED
      BY <1>j, <1>q, <2>1 DEF Early, Preceding
  <1>2. ASSUME NEW kind, NEW next, Journal(kind, next),
               <<kind, next>> \in
                  {<<"run_started", "spawn">>, <<"process.started", "process.manifest">>,
                   <<"process.manifest", "threads">>, <<"process.stderr", "process.exited">>,
                   <<"process.exited", "mark_terminal">>, <<"supervisor.failure", "mark_failed">>}
        PROVE  JournalInv'
    <2>1. kind \in EventKinds \ Valid /\ sup.pc = kind /\ journal' = Append(journal, kind)
            /\ sup'.pc = next /\ sup'.complete = sup.complete
      BY <1>2, <1>t, GotoFields DEF Journal, Step, SameKnowledge, EventKinds, Valid
    <2>2. /\ RecordedAt' = RecordedAt /\ Len(journal') = Len(journal) + 1
          /\ \A k \in 1 .. Recorded : journal'[3 + k] = journal[3 + k]
      BY <1>t, <2>1, AppendOther
    <2>3. sup'.pc # "monitor"
            /\ (sup'.pc \in Early => Recorded = 0 /\ Len(journal') = Preceding(sup'.pc))
      <3>1. /\ Preceding("run_started") = 0 /\ Preceding("spawn") = 1
            /\ Preceding("process.started") = 1 /\ Preceding("process.manifest") = 2
            /\ Preceding("threads") = 3
        BY DEF Preceding
      <3>2. \/ kind = "run_started" /\ next = "spawn"
            \/ kind = "process.started" /\ next = "process.manifest"
            \/ kind = "process.manifest" /\ next = "threads"
            \/ next \in {"process.exited", "mark_terminal", "mark_failed"}
        BY <1>2
      <3> QED
        BY <1>j, <2>1, <2>2, <3>1, <3>2 DEF Early
    <2> QED
      BY <1>t, <1>k, <2>1, <2>2, <2>3, JournalStays
  <1>3. CASE SpawnAgent
    <2>1. UNCHANGED journal /\ sup.pc = "spawn" /\ sup'.pc = "mark_running" /\ sup'.complete = sup.complete
      BY <1>3, <1>t, GotoFields DEF SpawnAgent, Step, SameKnowledge
    <2> QED
      BY <1>j, <1>q, <2>1 DEF Early, Preceding
  <1>4. CASE SpawnFails
    <2>1. UNCHANGED journal /\ sup'.pc = "supervisor.failure" /\ sup'.complete = sup.complete
      BY <1>4, <1>t, FailToFields DEF SpawnFails, Step, SameKnowledge, ExecutionError
    <2> QED
      BY <1>q, <2>1 DEF Early
  <1>5. CASE MarkSessionRunning
    <2>1. UNCHANGED journal /\ sup.pc = "mark_running" /\ sup'.pc = "process.started"
            /\ sup'.complete = sup.complete
      BY <1>5, <1>t, GotoFields DEF MarkSessionRunning, Step, SameKnowledge
    <2> QED
      BY <1>j, <1>q, <2>1 DEF Early, Preceding
  <1>6. CASE StartReaders
    <2>1. UNCHANGED journal /\ sup.pc = "threads" /\ sup'.pc = "monitor" /\ sup'.complete = sup.complete
      BY <1>6, <1>t, GotoFields DEF StartReaders, Step, SameKnowledge
    <2> QED
      BY <1>j, <1>q, <2>1 DEF Early, Preceding
  <1>7. CASE StorageFails
    <2>1. UNCHANGED journal /\ sup'.complete = sup.complete
            /\ sup'.pc \in {"returned", "supervisor.failure", "guard", "mark_failed"}
      BY <1>7, <1>t, GotoFields, FailToFields DEF StorageFails, Step, SameKnowledge, ExecutionError
    <2> QED
      BY <1>q, <2>1 DEF Early
  <1>8. CASE DropGuard \/ TerminateGroup
    <2>1. UNCHANGED journal /\ sup'.complete = sup.complete /\ sup'.pc \in {"supervisor.failure", "drop"}
      BY <1>8, <1>t, GotoFields DEF DropGuard, TerminateGroup, Step, SameKnowledge
    <2> QED
      BY <1>q, <2>1 DEF Early
  <1>9. CASE ReceiveRecord
    <2>1. CASE ~(journal' = Append(journal, Head(channel)) /\ Head(channel) \in Valid)
      BY <1>9, <1>q, <2>1, ReceivedRecord DEF Early, SameKnowledge
    <2>2. CASE journal' = Append(journal, Head(channel)) /\ Head(channel) \in Valid
      <3>1. /\ Recorded \in Nat /\ Recorded < Len(written) /\ Len(written) \in Nat
            /\ \A k \in 1 .. Recorded : journal[3 + k] = written[k]
        BY <1>9, <1>t, ReceivedRecord DEF JournalInv, TypeOK
      <3>2. /\ Recorded' = Recorded + 1 /\ RecordedAt' = 4 .. (3 + Recorded')
            /\ Len(journal') = 3 + Recorded'
            /\ \A k \in 1 .. Recorded : journal'[3 + k] = journal[3 + k]
            /\ journal'[3 + Recorded'] = Head(channel)
        BY <1>9, <1>t, <2>2, AppendRecord DEF ReceiveRecord
      <3>3. \A k \in 1 .. Recorded' : journal'[3 + k] = written'[k]
        <4> SUFFICES ASSUME NEW k \in 1 .. (Recorded + 1) PROVE journal'[3 + k] = written[k]
          BY <1>w, <3>2
        <4>1. k \in 1 .. Recorded \/ k = Recorded + 1
          BY <3>1
        <4> QED
          BY <1>9, <3>1, <3>2, <4>1, ReceivedRecord
      <3>4. sup'.complete <=> Recorded' > 0 /\ written'[Recorded'] = "completion"
        <4>1. written'[Recorded'] = Head(channel) /\ Recorded' > 0
          BY <1>9, <1>w, <3>1, <3>2, ReceivedRecord
        <4>2. sup'.complete = (Head(channel) = "completion")
          BY <1>9, <2>2, ReceivedRecord
        <4> QED
          BY <4>1, <4>2
      <3>5. sup'.pc \notin Early /\ (sup'.pc = "monitor" => Len(journal') = 3 + Recorded')
        BY <1>9, <3>2, ReceivedRecord DEF Early, IterationEnds
      <3>6. Recorded' \in Nat /\ Recorded' <= Len(written')
        BY <1>w, <3>1, <3>2
      <3> QED
        BY <3>2, <3>3, <3>4, <3>5, <3>6 DEF JournalInv
    <2> QED
      BY <2>1, <2>2
  <1>10. CASE ReceiveEnd
    BY <1>10, <1>j, <1>q, ReceivedEnd DEF Early, IterationEnds
  <1>11. CASE ReceiveFailure
    <2>1. UNCHANGED journal /\ sup'.pc = "terminate" /\ sup'.complete = sup.complete
      BY <1>11, <1>t, FailToFields DEF ReceiveFailure, Step, SameKnowledge, ExecutionError
    <2> QED
      BY <1>q, <2>1 DEF Early
  <1>12. CASE PollTimeout
    BY <1>12, <1>j, <1>q, Polled DEF Early, IterationEnds
  <1>13. CASE DropReceiver \/ JoinReaders
    <2>1. UNCHANGED journal /\ sup'.complete = sup.complete
            /\ sup'.pc \in {"join", "classify", "supervisor.failure"}
      BY <1>13, <1>t, GotoFields DEF DropReceiver, JoinReaders, Step, SameKnowledge
    <2> QED
      BY <1>q, <2>1 DEF Early
  <1>14. CASE Classify
    <2>1. UNCHANGED journal /\ sup'.complete = sup.complete
            /\ sup'.pc \in {"process.stderr", "process.exited", "supervisor.failure"}
      BY <1>14, <1>t, GotoFields, FailToFields DEF Classify, Step, SameKnowledge, ExecutionError
    <2> QED
      BY <1>q, <2>1 DEF Early
  <1>15. CASE MarkTerminal \/ MarkFailed
    <2>1. UNCHANGED journal /\ sup'.complete = sup.complete /\ sup'.pc = "returned"
      BY <1>15, <1>t, GotoFields DEF MarkTerminal, MarkFailed, Step, SameKnowledge
    <2> QED
      BY <1>q, <2>1 DEF Early
  <1>16. CASE DrainTimer
    <2>1. sup'.pc = sup.pc /\ sup'.complete = sup.complete /\ UNCHANGED journal
      BY <1>16, <1>t DEF DrainTimer, SupType
    <2> QED
      BY <1>j, <1>q, <2>1
  <1> QED
    BY <1>1, <1>2, <1>3, <1>4, <1>5, <1>6, <1>7, <1>8, <1>9, <1>10, <1>11, <1>12, <1>13,
       <1>14, <1>15, <1>16
    DEF Supervise

-----------------------------------------------------------------------------
(* No record is lost or doubled on its way. *)

\* The agent writes at the end of the pipe and read_stdout reads at its front.
LEMMA PipeStep ==
    ASSUME TypeOK, PipeInv,
           \/ UNCHANGED <<written, pipe>>
           \/ ReadStdout
           \/ \E r \in Record : Write(r)
    PROVE  PipeInv'
  <1>t. /\ written \in Seq(Record) /\ pipe \in Seq(Record) /\ Len(written) \in Nat /\ Len(pipe) \in Nat
        /\ DOMAIN pipe = 1 .. Len(pipe) /\ Len(pipe) <= Len(written)
        /\ \A i \in 1 .. Len(pipe) : pipe[i] = written[(Len(written) - Len(pipe)) + i]
    BY DEF TypeOK, PipeInv, Reads
  <1>1. CASE UNCHANGED <<written, pipe>>
    BY <1>1 DEF PipeInv, Reads
  <1>2. CASE ReadStdout
    <2>1. /\ pipe' \in Seq(Record) /\ Len(pipe') = Len(pipe) - 1 /\ Len(pipe) \in Nat \ {0}
          /\ \A i \in 1 .. Len(pipe') : i + 1 \in 1 .. Len(pipe) /\ pipe'[i] = pipe[i + 1]
          /\ DOMAIN pipe' = 1 .. Len(pipe') /\ written' = written
      <3>1. pipe' = Tail(pipe) /\ pipe # <<>> /\ written' = written
        BY <1>2 DEF ReadStdout, processes
      <3>2. pipe \in Seq(Record)
        BY <1>t
      <3> QED
        BY <3>1, <3>2
    <2>2. ASSUME NEW i \in 1 .. Len(pipe') PROVE pipe'[i] = written[(Len(written) - Len(pipe')) + i]
      <3>1. (Len(written) - Len(pipe)) + (i + 1) = (Len(written) - Len(pipe')) + i
        BY <1>t, <2>1
      <3> QED
        BY <1>t, <2>1, <3>1
    <2> QED
      BY <1>t, <2>1, <2>2 DEF PipeInv, Reads
  <1>3. ASSUME NEW r \in Record, Write(r) PROVE PipeInv'
    <2>1. /\ Len(pipe') = Len(pipe) + 1 /\ Len(written') = Len(written) + 1
          /\ \A i \in 1 .. Len(pipe) : pipe'[i] = pipe[i]
          /\ \A i \in 1 .. Len(written) : written'[i] = written[i]
          /\ pipe'[Len(pipe) + 1] = r /\ written'[Len(written) + 1] = r
          /\ DOMAIN pipe' = 1 .. (Len(pipe) + 1)
      <3>1. pipe' = Append(pipe, r) /\ written' = Append(written, r)
        BY <1>3 DEF Write
      <3>2. pipe \in Seq(Record) /\ written \in Seq(Record)
        BY <1>t
      <3> QED
        BY <3>1, <3>2
    <2>2. ASSUME NEW i \in DOMAIN pipe' PROVE pipe'[i] = written'[(Len(written') - Len(pipe')) + i]
      <3>1. i \in 1 .. Len(pipe) \/ i = Len(pipe) + 1
        BY <1>t, <2>1
      <3>2. Len(written') - Len(pipe') = Len(written) - Len(pipe)
        BY <1>t, <2>1
      <3>3. CASE i \in 1 .. Len(pipe)
        <4>1. (Len(written) - Len(pipe)) + i \in 1 .. Len(written)
          BY <1>t, <3>3
        <4> QED
          BY <1>t, <2>1, <3>2, <3>3, <4>1
      <3>4. CASE i = Len(pipe) + 1
        <4>1. (Len(written) - Len(pipe)) + i = Len(written) + 1
          BY <1>t, <3>4
        <4> QED
          BY <2>1, <3>2, <3>4, <4>1
      <3> QED
        BY <3>1, <3>3, <3>4
    <2> QED
      BY <1>t, <2>1, <2>2 DEF PipeInv, Reads
  <1> QED
    BY <1>1, <1>2, <1>3

\* A step that moves no record: the pipes may be closed but are not reopened.
LEMMA FlowStays ==
    ASSUME FlowInv, UNCHANGED <<written, pipe, out, err, channel>>, Recorded' = Recorded,
           sup'.pc \in Early \cup {"monitor"} =>
              /\ sup.pc \in Early \cup {"monitor"} /\ sup'.stdout_finished = sup.stdout_finished
              /\ holders' = {} \/ holders # {} \/ ReadersOff,
           sup'.pc \in Early => sup.pc \in Early,
           sup'.pc = "monitor" => receiving'
    PROVE  FlowInv'
  <1> SUFFICES ASSUME sup'.pc \in Early \cup {"monitor"} PROVE FlowInv'
    BY DEF FlowInv
  <1>1. Sent' = Sent /\ Reads' = Reads /\ Queued(channel') = Queued(channel)
    BY DEF Sent, Reads
  <1>2. (Eof => Eof') \/ (out.pc = "off" /\ ~sup.stdout_finished)
    BY DEF Eof, ReadersOff, Off
  <1>3. ReadersOff => ReadersOff'
    BY DEF ReadersOff
  <1> QED
    BY <1>1, <1>2, <1>3 DEF FlowInv

\* What read_stdout has sent, it has read; only the end of the stream it says
\* on its own, and only after everybody has closed the pipe.
LEMMA FlowBounds ==
    ASSUME TypeOK, JournalInv, PipeInv, FlowInv, sup.pc \in Early \cup {"monitor"}
    PROVE  /\ Sent \in Nat /\ Reads \in Nat /\ Reads <= Len(written) /\ Len(written) \in Nat
           /\ Queued(channel) \in Nat /\ Recorded \in Nat
           /\ ~Eof => Sent <= Reads
  <1>1. /\ channel \in Seq(ReaderMessage) /\ Len(written) \in Nat /\ Len(pipe) \in Nat
        /\ Recorded \in Nat /\ Len(pipe) <= Len(written)
        /\ out.pc \in {"off", "read", "send", "done"}
    BY DEF TypeOK, JournalInv, PipeInv
  <1>2. Queued(channel) \in Nat
    BY <1>1, RankBounds DEF FlowInv
  <1>3. Sent \in Nat /\ Reads \in Nat /\ Reads <= Len(written)
    BY <1>1, <1>2 DEF Sent, Reads
  <1>4. ~Eof => Sent <= Reads
    BY <1>1, <1>3 DEF FlowInv
  <1> QED
    BY <1>1, <1>2, <1>3, <1>4

\* The agent, its descendants and the readers move records along and lose none.
LEMMA OthersKeepFlow ==
    ASSUME RunInv, UNCHANGED sup, Recorded' = Recorded,
           \/ ReadOut \/ ReadErr \/ StderrTooLarge
           \/ \E r \in Record : Write(r)
           \/ \E d \in {"child", "escapee"} : Fork(d) \/ Detach(d) \/ DescendantExits(d)
           \/ \E status \in {"ok", "nonzero"} : Exit(status)
    PROVE  FlowInv'
  <1> SUFFICES ASSUME sup.pc \in Early \cup {"monitor"} PROVE FlowInv'
    BY DEF FlowInv
  <1> USE DEF readers, processes, rows
  <1>t. TypeOK /\ ProcessInv /\ ReaderInv /\ JournalInv /\ PipeInv /\ FlowInv
    BY DEF RunInv
  <1>b. /\ Sent \in Nat /\ Reads \in Nat /\ Reads <= Len(written) /\ Len(written) \in Nat
        /\ Queued(channel) \in Nat /\ Recorded \in Nat
        /\ ~Eof => Sent <= Reads
    BY <1>t, FlowBounds
  <1>f. /\ sup.pc \in Early => ReadersOff
        /\ sup.pc = "monitor" => receiving
        /\ ChannelOK(channel, written, Recorded)
        /\ err.pc # "done" => NoStderr(channel)
        /\ out.pc \in {"off", "read"} => Sent = Reads
        /\ out.pc = "send" => /\ out.message = Message(written, Sent + 1)
                              /\ Sent + 1 = Reads \/ (Sent = Reads /\ Eof)
        /\ out.pc = "done" => Sent = Reads \/ (Sent = Reads + 1 /\ Eof)
        /\ sup.stdout_finished =>
              Recorded = Len(written) /\ Queued(channel) = 0 /\ Eof /\ out.pc = "done"
    BY <1>t DEF FlowInv
  <1>y. /\ channel \in Seq(ReaderMessage) /\ written \in Seq(Record) /\ pipe \in Seq(Record)
        /\ out.pc \in {"off", "read", "send", "done"}
        /\ Sent = Recorded + Queued(channel) + (IF sup.stdout_finished THEN 1 ELSE 0)
    BY <1>t DEF TypeOK, Sent
  <1>1. ASSUME NEW r \in Record, Write(r) PROVE FlowInv'
    <2>1. holders # {} /\ UNCHANGED <<out, err, channel, receiving, holders>>
            /\ written' = Append(written, r) /\ pipe' = Append(pipe, r)
      BY <1>1, <1>t DEF Write, ProcessInv
    <2>2. ~Eof /\ ~sup.stdout_finished /\ Sent <= Reads
      BY <1>b, <1>f, <2>1 DEF Eof
    <2>3. Sent' = Sent /\ Reads' = Reads
      <3>1. Len(written') = Len(written) + 1 /\ Len(pipe') = Len(pipe) + 1
              /\ Len(pipe) \in Nat
        BY <1>y, <2>1
      <3> QED
        BY <1>b, <2>1, <3>1 DEF Sent, Reads
    <2>4. ChannelOK(channel', written', Recorded')
      <3>1. Recorded + Queued(channel) <= Len(written)
        BY <1>b, <1>y, <2>2
      <3> QED
        BY <1>b, <1>f, <1>y, <2>1, <3>1, WriteKeepsChannel
    <2>5. out.pc = "send" => Message(written', Sent + 1) = Message(written, Sent + 1) /\ Sent + 1 = Reads
      <3>1. \A k \in 1 .. Len(written) : Message(written', k) = Message(written, k)
        <4>1. /\ Len(written') = Len(written) + 1
              /\ \A k \in 1 .. Len(written) : written'[k] = written[k]
          BY <1>y, <2>1
        <4> QED
          BY <1>b, <4>1 DEF Message
      <3>2. out.pc = "send" => Sent + 1 = Reads /\ Sent + 1 \in 1 .. Len(written)
        BY <1>b, <1>f, <2>2
      <3> QED
        BY <3>1, <3>2
    <2>6. ReadersOff => ReadersOff'
      BY <2>1 DEF ReadersOff
    <2> QED
      BY <1>f, <2>1, <2>2, <2>3, <2>4, <2>5, <2>6 DEF FlowInv
  <1>2. ASSUME NEW d \in {"child", "escapee"}, Fork(d) \/ Detach(d) \/ DescendantExits(d)
        PROVE  FlowInv'
    <2>1. /\ UNCHANGED <<written, pipe, out, err, channel, receiving>>
          /\ holders' = {} \/ holders # {}
      BY <1>2, <1>t DEF Fork, Detach, DescendantExits, ProcessInv
    <2> QED
      BY <1>t, <1>f, <2>1, FlowStays
  <1>3. ASSUME NEW status \in {"ok", "nonzero"}, Exit(status) PROVE FlowInv'
    <2>1. /\ UNCHANGED <<written, pipe, out, err, channel, receiving>>
          /\ holders' = {} \/ holders # {}
      BY <1>3, <1>t DEF Exit, ProcessInv
    <2> QED
      BY <1>t, <1>f, <2>1, FlowStays
  \* The readers run in the loop only.
  <1>m. ReadOut \/ ReadErr \/ StderrTooLarge => sup.pc = "monitor" /\ receiving
    BY <1>f DEF ReadOut, ReadErr, ReadStdout, EndOfStdout, SendStdout, EndOfStderr, SendStderr,
                StderrTooLarge, ReadersOff, Off
  <1>n. "monitor" \notin Early
    BY DEF Early
  <1>4. CASE ReadStdout
    <2>1. /\ UNCHANGED <<written, err, channel, receiving, holders>> /\ out.pc = "read" /\ pipe # <<>>
          /\ pipe' = Tail(pipe) /\ out'.pc = "send"
          /\ out'.message = IF Head(pipe) = "junk" THEN "StdoutFailed" ELSE Head(pipe)
      BY <1>4 DEF ReadStdout
    <2>2. Len(pipe') = Len(pipe) - 1 /\ Len(pipe) \in Nat \ {0} /\ Head(pipe) = pipe[1] /\ 1 \in DOMAIN pipe
      BY <1>y, <2>1
    <2>3. Reads' = Reads + 1 /\ Reads < Len(written) /\ Sent' = Sent /\ Sent = Reads
      BY <1>b, <1>f, <2>1, <2>2 DEF Reads, Sent
    <2>4. Head(pipe) = written[Sent + 1]
      BY <1>t, <2>2, <2>3 DEF PipeInv
    <2>5. out'.message = Message(written, Sent + 1)
      BY <1>b, <2>1, <2>3, <2>4 DEF Message
    <2>6. ~sup.stdout_finished
      BY <1>f, <2>1
    <2>7. sup.pc = "monitor" /\ receiving
      BY <1>4, <1>m DEF ReadOut
    <2> QED
      BY <1>f, <1>n, <2>1, <2>3, <2>5, <2>6, <2>7 DEF FlowInv
  <1>5. CASE EndOfStdout
    <2>1. /\ UNCHANGED <<written, pipe, err, channel, receiving, holders>> /\ out.pc = "read"
          /\ pipe = <<>> /\ holders = {}
          /\ out'.pc = "send" /\ out'.message = "StdoutFinished"
      BY <1>5 DEF EndOfStdout
    <2>2. Reads' = Reads /\ Reads = Len(written) /\ Sent' = Sent /\ Sent = Reads /\ Eof /\ Eof'
      BY <1>b, <1>f, <2>1 DEF Reads, Sent, Eof
    <2>3. Message(written, Sent + 1) = "StdoutFinished"
      BY <1>b, <2>2 DEF Message
    <2>4. ~sup.stdout_finished
      BY <1>f, <2>1
    <2>5. sup.pc = "monitor" /\ receiving
      BY <1>5, <1>m DEF ReadOut
    <2> QED
      BY <1>f, <1>n, <2>1, <2>2, <2>3, <2>4, <2>5 DEF FlowInv
  <1>6. CASE SendStdout
    <2>1. sup.pc = "monitor" /\ receiving
      BY <1>6, <1>m DEF ReadOut
    <2>2. /\ UNCHANGED <<written, pipe, err, receiving, holders>> /\ out.pc = "send"
          /\ channel' = Append(channel, out.message)
          /\ out'.pc = IF out.message \in {"StdoutFinished", "StdoutFailed"} THEN "done" ELSE "read"
      BY <1>6, <2>1 DEF SendStdout
    <2>3. ~sup.stdout_finished /\ Sent = Recorded + Queued(channel)
      BY <1>b, <1>f, <1>y, <2>2
    <2>4. out.message = Message(written, Recorded + Queued(channel) + 1)
            /\ out.message \in ReaderMessage \ StderrMessage
      <3>1. out.message \in StdoutMessage
        BY <1>t, <2>2 DEF ReaderInv
      <3>2. StdoutMessage \subseteq ReaderMessage \ StderrMessage
        BY DEF StdoutMessage, ReaderMessage, StderrMessage, Record, Valid
      <3> QED
        BY <1>f, <2>2, <2>3, <3>1, <3>2
    <2>5. /\ ChannelOK(channel', written, Recorded) /\ Queued(channel') = Queued(channel) + 1
          /\ NoStderr(channel) => NoStderr(channel')
      BY <1>b, <1>f, <1>y, <2>2, <2>4, PutStdout
    <2>6. Sent' = Sent + 1 /\ Reads' = Reads /\ (Eof => Eof')
      BY <1>b, <2>2, <2>3, <2>5 DEF Sent, Reads, Eof
    <2>7. out'.pc = "read" => Sent' = Reads'
      <3>1. Sent = Reads /\ Eof => out.message = "StdoutFinished"
        <4>1. Eof => Reads = Len(written)
          BY <1>b DEF Eof, Reads
        <4> QED
          BY <1>b, <1>f, <2>2, <4>1 DEF Message
      <3> QED
        BY <1>b, <1>f, <2>2, <2>6, <3>1
    <2>8. out'.pc = "done" => Sent' = Reads' \/ (Sent' = Reads' + 1 /\ Eof')
      BY <1>b, <1>f, <2>2, <2>6
    <2>9. out'.pc \in {"read", "done"}
      BY <2>2
    <2> QED
      BY <1>f, <1>n, <2>1, <2>2, <2>3, <2>5, <2>6, <2>7, <2>8, <2>9 DEF FlowInv
  <1>7. CASE EndOfStderr \/ StderrTooLarge
    <2>1. /\ UNCHANGED <<written, pipe, out, channel, receiving, holders>> /\ err.pc = "read"
      BY <1>7 DEF EndOfStderr, StderrTooLarge
    <2>2. Sent' = Sent /\ Reads' = Reads /\ Eof' = Eof
      BY <2>1 DEF Sent, Reads, Eof
    <2>3. sup.pc = "monitor" /\ receiving
      BY <1>7, <1>m DEF ReadErr
    <2> QED
      BY <1>f, <1>n, <2>1, <2>2, <2>3 DEF FlowInv
  <1>8. CASE SendStderr
    <2>1. sup.pc = "monitor" /\ receiving
      BY <1>8, <1>m DEF ReadErr
    <2>2. /\ UNCHANGED <<written, pipe, out, receiving, holders>> /\ err.pc = "send"
          /\ channel' = Append(channel, err.message) /\ err'.pc = "done"
      BY <1>8, <2>1 DEF SendStderr
    <2>3. ChannelOK(channel', written, Recorded) /\ Queued(channel') = Queued(channel)
      BY <1>b, <1>f, <1>t, <1>y, <2>2, PutStderr DEF ReaderInv
    <2>4. Sent' = Sent /\ Reads' = Reads /\ Eof' = Eof
      BY <2>2, <2>3 DEF Sent, Reads, Eof
    <2> QED
      BY <1>f, <1>n, <2>1, <2>2, <2>3, <2>4 DEF FlowInv
  <1> QED
    BY <1>1, <1>2, <1>3, <1>4, <1>5, <1>6, <1>7, <1>8 DEF ReadOut, ReadErr

\* The supervisor takes messages out of the channel in their order, and what
\* it takes is on record when the iteration ends.
LEMMA SupervisorKeepsFlow ==
    ASSUME RunInv, Supervise \/ DrainTimer
    PROVE  FlowInv'
  <1> SUFFICES ASSUME sup'.pc \in Early \cup {"monitor"} PROVE FlowInv'
    BY DEF FlowInv
  <1> USE DEF readers, processes, rows, At
  <1>t. TypeOK /\ ProcessInv /\ JournalInv /\ PipeInv /\ FlowInv /\ sup \in SupType
    BY TypeParts DEF RunInv
  <1>n. "monitor" \notin Early /\ "terminate" \notin Early /\ Early \cap Late = {}
          /\ "guard" \notin Early /\ {"monitor", "terminate", "guard"} \cap Late = {}
    BY DEF Early, Late
  \* The journal has the same records, unless one is received.
  <1>r. ASSUME UNCHANGED journal PROVE Recorded' = Recorded
    BY <1>r DEF Recorded, RecordedAt
  <1>1. CASE CreateExecution \/ SpawnAgent \/ MarkSessionRunning
    <2>1. /\ UNCHANGED <<written, pipe, out, err, channel, receiving, journal>>
          /\ sup.pc \in Early /\ sup'.pc \in Early /\ sup'.stdout_finished = sup.stdout_finished
      BY <1>1, <1>t, GotoFields
      DEF CreateExecution, SpawnAgent, MarkSessionRunning, Step, SameKnowledge, Early
    <2>2. ReadersOff
      BY <1>t, <2>1 DEF FlowInv
    <2> QED
      BY <1>t, <1>n, <1>r, <2>1, <2>2, FlowStays
  <1>2. ASSUME NEW kind, NEW next, Journal(kind, next),
               <<kind, next>> \in
                  {<<"run_started", "spawn">>, <<"process.started", "process.manifest">>,
                   <<"process.manifest", "threads">>, <<"process.stderr", "process.exited">>,
                   <<"process.exited", "mark_terminal">>, <<"supervisor.failure", "mark_failed">>}
        PROVE  FlowInv'
    <2>1. kind \in EventKinds \ Valid /\ sup.pc = kind /\ journal' = Append(journal, kind)
            /\ sup'.pc = next /\ sup'.stdout_finished = sup.stdout_finished
            /\ UNCHANGED <<written, pipe, out, err, channel, receiving>>
      BY <1>2, <1>t, GotoFields DEF Journal, Step, SameKnowledge, EventKinds, Valid
    <2>2. sup.pc \in Early /\ sup'.pc \in Early
      BY <1>2, <2>1 DEF Early
    <2>3. Recorded' = Recorded
      BY <1>t, <2>1, AppendOther DEF Recorded
    <2>4. ReadersOff
      BY <1>t, <2>2 DEF FlowInv
    <2> QED
      BY <1>t, <1>n, <2>1, <2>2, <2>3, <2>4, FlowStays
  <1>3. CASE StartReaders
    <2>1. /\ UNCHANGED <<written, pipe, channel, holders, journal>>
          /\ sup.pc \in Early /\ sup'.pc = "monitor" /\ sup'.stdout_finished = sup.stdout_finished
          /\ out'.pc = "read" /\ err'.pc = "read" /\ receiving'
      BY <1>3, <1>t, GotoFields DEF StartReaders, Step, SameKnowledge, Early, Off
    <2>2. ReadersOff /\ out.pc = "off" /\ err.pc = "off"
      BY <1>t, <2>1 DEF FlowInv, ReadersOff, Off
    <2>3. Sent' = Sent /\ Reads' = Reads /\ Recorded' = Recorded /\ ~sup'.stdout_finished
      BY <1>r, <2>1, <2>2 DEF Sent, Reads, ReadersOff
    <2> QED
      BY <1>t, <1>n, <2>1, <2>2, <2>3 DEF FlowInv
  <1>4. CASE ReceiveRecord
    <2>1. sup'.pc = "monitor" /\ sup.pc = "monitor" /\ journal' = Append(journal, Head(channel))
            /\ Head(channel) \in Valid /\ ~sup.stdout_finished /\ ~sup'.stdout_finished
      BY <1>4, <1>n, ReceivedRecord DEF IterationEnds
    <2>2. UNCHANGED <<written, pipe, out, err, receiving, holders>> /\ Take
      BY <1>4 DEF ReceiveRecord
    <2>3. Recorded' = Recorded + 1
      BY <1>t, <2>1, AppendRecord
    <2>4. /\ channel \in Seq(ReaderMessage) /\ ChannelOK(channel, written, Recorded) /\ channel # <<>>
          /\ Recorded \in Nat /\ channel' = Tail(channel) /\ Head(channel) \notin StderrMessage
      BY <1>t, <2>1, <2>2 DEF TypeOK, FlowInv, JournalInv, Take, Valid, StderrMessage
    <2>5. /\ ChannelOK(channel', written, Recorded + 1) /\ Queued(channel') = Queued(channel) - 1
          /\ NoStderr(channel) => NoStderr(channel')
          /\ Queued(channel) \in Nat \ {0}
      BY <2>4, TakeStdout
    <2>6. Sent' = Sent /\ Reads' = Reads /\ Eof' = Eof
      BY <2>1, <2>2, <2>3, <2>4, <2>5 DEF Sent, Reads, Eof
    <2> QED
      BY <1>t, <1>n, <2>1, <2>2, <2>3, <2>5, <2>6 DEF FlowInv
  <1>5. CASE ReceiveEnd
    <2>1. sup'.pc = "monitor" /\ sup.pc = "monitor" /\ UNCHANGED journal
            /\ sup'.stdout_finished = (sup.stdout_finished \/ Head(channel) = "StdoutFinished")
      BY <1>5, <1>n, ReceivedEnd DEF IterationEnds, Late
    <2>2. UNCHANGED <<written, pipe, out, err, receiving, holders>> /\ Take
            /\ Head(channel) \in {"StdoutFinished", "StderrFinished"}
      BY <1>5 DEF ReceiveEnd
    <2>3. /\ channel \in Seq(ReaderMessage) /\ ChannelOK(channel, written, Recorded) /\ channel # <<>>
          /\ Recorded \in Nat /\ channel' = Tail(channel)
          /\ channel' \in Seq(ReaderMessage)
      BY <1>t, <2>1, <2>2, TakeKeepsTypes DEF TypeOK, FlowInv, JournalInv, Take
    <2>4. Recorded' = Recorded /\ Reads' = Reads /\ Eof' = Eof
      BY <1>r, <2>1, <2>2 DEF Reads, Eof
    <2>5. CASE Head(channel) = "StdoutFinished"
      <3>1. /\ ~sup.stdout_finished /\ Eof /\ Recorded = Len(written) /\ Queued(channel) = 1
            /\ out.pc = "done" /\ Head(channel) \notin StderrMessage
        BY <1>t, <2>1, <2>2, <2>5, HeadIsNext DEF StderrMessage
      <3>2. /\ ChannelOK(channel', written, Recorded + 1) /\ Queued(channel') = 0
            /\ NoStderr(channel) => NoStderr(channel')
        BY <2>3, <3>1, TakeStdout
      <3>3. ChannelOK(channel', written, Recorded)
        BY <2>3, <3>2, DrainedChannel
      <3>4. Sent' = Sent
        <4>1. sup'.stdout_finished
          BY <2>1, <2>5
        <4>2. Sent = Recorded + 1 /\ Sent' = Recorded + 1
          BY <2>3, <2>4, <3>1, <3>2, <4>1 DEF Sent
        <4> QED
          BY <4>2
      <3> QED
        BY <1>t, <1>n, <2>1, <2>2, <2>4, <3>1, <3>2, <3>3, <3>4 DEF FlowInv
    <2>6. CASE Head(channel) = "StderrFinished"
      <3>1. sup'.stdout_finished = sup.stdout_finished /\ Head(channel) \in StderrMessage
        BY <1>t, <2>1, <2>6 DEF StderrMessage, SupType
      <3>2. ChannelOK(channel', written, Recorded) /\ Queued(channel') = Queued(channel) /\ NoStderr(channel')
        BY <2>3, <3>1, TakeStderr
      <3>3. Sent' = Sent
        BY <2>4, <3>1, <3>2 DEF Sent
      <3> QED
        BY <1>t, <1>n, <2>1, <2>2, <2>4, <3>1, <3>2, <3>3 DEF FlowInv
    <2> QED
      BY <2>2, <2>5, <2>6
  <1>6. CASE PollTimeout
    <2>1. sup'.pc = "monitor" /\ sup.pc = "monitor" /\ UNCHANGED journal
            /\ sup'.stdout_finished = sup.stdout_finished
      BY <1>6, <1>n, Polled DEF IterationEnds, Late
    <2>2. UNCHANGED <<written, pipe, out, err, channel, receiving, holders>>
      BY <1>6 DEF PollTimeout
    <2>3. receiving
      BY <1>t, <2>1 DEF FlowInv
    <2> QED
      BY <1>t, <1>n, <1>r, <2>1, <2>2, <2>3, FlowStays
  <1>7. CASE DrainTimer
    <2>1. sup'.pc = "monitor" /\ sup.pc = "monitor" /\ sup'.stdout_finished = sup.stdout_finished
      BY <1>7, <1>t DEF DrainTimer, SupType
    <2>2. UNCHANGED <<written, pipe, out, err, channel, receiving, holders, journal>>
      BY <1>7 DEF DrainTimer
    <2>3. receiving
      BY <1>t, <2>1 DEF FlowInv
    <2> QED
      BY <1>t, <1>n, <1>r, <2>1, <2>2, <2>3, FlowStays
  \* The other steps are past the loop, or leave it for good.
  <1>8. CASE SpawnFails \/ ReceiveFailure
    BY <1>8, <1>t, FailToFields DEF SpawnFails, ReceiveFailure, Step, ExecutionError, Early
  <1>9. CASE StorageFails \/ DropGuard \/ TerminateGroup \/ DropReceiver \/ JoinReaders
    BY <1>9, <1>t, GotoFields, FailToFields
    DEF StorageFails, DropGuard, TerminateGroup, DropReceiver, JoinReaders, Step, ExecutionError, Early
  <1>10. CASE Classify \/ MarkTerminal \/ MarkFailed
    BY <1>10, <1>t, GotoFields, FailToFields
    DEF Classify, MarkTerminal, MarkFailed, Step, ExecutionError, Early
  <1> QED
    BY <1>1, <1>2, <1>3, <1>4, <1>5, <1>6, <1>7, <1>8, <1>9, <1>10 DEF Supervise

-----------------------------------------------------------------------------
(* What the supervisor knows. *)

\* Once a record has been refused, it stays refused, whatever follows it.
LEMMA RefusedStays ==
    ASSUME TypeOK, JournalInv, Refused, Recorded' = Recorded, sup'.complete = sup.complete,
           written' = written \/ \E r \in Record : written' = Append(written, r)
    PROVE  Refused'
  <1>1. /\ Len(written) \in Nat /\ Recorded \in Nat /\ Len(written) <= Len(written')
        /\ Len(written') \in Nat
        /\ \A k \in 1 .. Len(written) : written'[k] = written[k]
    BY DEF TypeOK, JournalInv
  <1>2. Recorded < Len(written) => Recorded + 1 \in 1 .. Len(written) /\ Recorded < Len(written')
    BY <1>1
  <1> QED
    BY <1>1, <1>2 DEF Refused

\* Once the supervisor has seen the exit and the end of the pipes, there is
\* nobody left to write.
LEMMA OthersKeepOutcome ==
    ASSUME RunInv, UNCHANGED sup, Recorded' = Recorded,
           \/ ReadOut \/ ReadErr \/ StderrTooLarge
           \/ \E r \in Record : Write(r)
           \/ \E d \in {"child", "escapee"} : Fork(d) \/ Detach(d) \/ DescendantExits(d)
           \/ \E status \in {"ok", "nonzero"} : Exit(status)
    PROVE  OutcomeInv'
  <1> USE DEF readers, processes, rows
  <1>t. TypeOK /\ ProcessInv /\ JournalInv /\ OutcomeInv
    BY DEF RunInv
  <1>1. /\ UNCHANGED <<journal, session>>
        /\ written' = written \/ \E r \in Record : written' = Append(written, r)
        /\ agent = "running" \/ (UNCHANGED <<agent, written>> /\ holders' \subseteq holders)
    BY DEF ReadOut, ReadErr, ReadStdout, EndOfStdout, SendStdout, EndOfStderr, SendStderr,
           StderrTooLarge, Write, Fork, Detach, DescendantExits, Exit
  <1>2. Refused => Refused'
    BY <1>t, <1>1, RefusedStays
  <1>3. agent = "running" => sup.pc \notin Late /\ sup.status = None
    BY <1>t DEF ProcessInv, OutcomeInv, TypeOK, None
  <1> QED
    BY <1>t, <1>1, <1>2, <1>3 DEF OutcomeInv

\* The supervisor goes on to an outcome only with everything on record, and to
\* a completed session only after the exit event of a clean exit.
LEMMA SupervisorKeepsOutcome ==
    ASSUME RunInv, Supervise \/ DrainTimer
    PROVE  OutcomeInv'
  <1> USE DEF readers, processes, rows, At
  <1>t. TypeOK /\ ProcessInv /\ JournalInv /\ FlowInv /\ OutcomeInv /\ sup \in SupType
    BY TypeParts DEF RunInv
  <1>w. UNCHANGED written
    BY DEF Supervise, DrainTimer, CreateExecution, Journal, SpawnAgent, SpawnFails,
           MarkSessionRunning, StartReaders, StorageFails, DropGuard, KillGroup, ReceiveRecord,
           ReceiveEnd, ReceiveFailure, PollTimeout, TerminateGroup, DropReceiver, JoinReaders,
           Classify, MarkTerminal, MarkFailed
  <1>r. ASSUME UNCHANGED journal PROVE Recorded' = Recorded
    BY <1>r DEF Recorded, RecordedAt
  <1>f. ASSUME Recorded' = Recorded, sup'.complete = sup.complete, Refused PROVE Refused'
    BY <1>f, <1>t, <1>w, RefusedStays
  <1>e. /\ sup.status # None => agent \notin {"absent", "running"}
        /\ agent = "absent" => sup.status = None
        /\ sup.pc \in {"create", "run_started", "spawn"} => agent = "absent"
        /\ session = "completed" => sup.pc = "returned"
    BY <1>t DEF OutcomeInv, ProcessInv, TypeOK, None
  <1> USE DEF Early, Late
  <1>1. CASE CreateExecution \/ MarkSessionRunning \/ StartReaders
    BY <1>1, <1>t, <1>w, <1>r, <1>f, <1>e, GotoFields
    DEF CreateExecution, MarkSessionRunning, StartReaders, Step, SameKnowledge, OutcomeInv, None
  <1>2. ASSUME NEW kind, NEW next, Journal(kind, next),
               <<kind, next>> \in
                  {<<"run_started", "spawn">>, <<"process.started", "process.manifest">>,
                   <<"process.manifest", "threads">>, <<"process.stderr", "process.exited">>,
                   <<"process.exited", "mark_terminal">>, <<"supervisor.failure", "mark_failed">>}
        PROVE  OutcomeInv'
    <2>1. /\ kind \in EventKinds \ Valid /\ sup.pc = kind /\ journal' = Append(journal, kind)
          /\ sup'.pc = next /\ sup'.error = sup.error /\ SameKnowledge
          /\ UNCHANGED <<agent, holders, written, session>>
      BY <1>2, <1>t, GotoFields DEF Journal, Step, EventKinds, Valid
    <2>2. Recorded' = Recorded /\ journal' # <<>> /\ Last(journal') = kind
      BY <1>t, <2>1, AppendOther DEF Recorded
    <2> QED
      BY <1>2, <1>t, <1>f, <1>e, <2>1, <2>2 DEF SameKnowledge, OutcomeInv
  <1>3. CASE SpawnAgent
    BY <1>3, <1>t, <1>w, <1>r, <1>f, <1>e, GotoFields
    DEF SpawnAgent, Step, SameKnowledge, OutcomeInv, None
  <1>4. CASE SpawnFails
    BY <1>4, <1>t, <1>w, <1>r, <1>f, <1>e, FailToFields
    DEF SpawnFails, Step, SameKnowledge, OutcomeInv, ExecutionError, None
  <1>5. CASE StorageFails
    <2>1. /\ UNCHANGED <<agent, holders, written, session, journal>> /\ SameKnowledge
          /\ \/ /\ sup'.error \in {"initialization", "persistence"}
                /\ sup'.pc \in {"returned", "supervisor.failure", "guard"}
             \/ sup.pc = "supervisor.failure" /\ sup'.pc = "mark_failed" /\ sup'.error = sup.error
             \/ sup.pc = "mark_failed" /\ sup'.pc = "returned" /\ sup'.error = sup.error
          /\ sup.pc # "returned"
      BY <1>5, <1>t, GotoFields, FailToFields DEF StorageFails, Step, ExecutionError
    <2> QED
      BY <1>t, <1>r, <1>f, <1>e, <2>1 DEF SameKnowledge, OutcomeInv, None
  <1>6. CASE DropGuard \/ TerminateGroup
    <2>1. /\ UNCHANGED <<written, session, journal>> /\ SameKnowledge /\ sup'.error = sup.error
          /\ sup.pc \in {"guard", "terminate"} /\ sup'.pc \in {"supervisor.failure", "drop"}
          /\ agent' = IF agent = "running" THEN "nonzero" ELSE agent
      BY <1>6, <1>t, GotoFields DEF DropGuard, TerminateGroup, KillGroup, Step
    <2> QED
      BY <1>t, <1>r, <1>f, <1>e, <2>1 DEF SameKnowledge, OutcomeInv
  <1>7. CASE ReceiveRecord
    <2>1. sup.pc = "monitor" /\ UNCHANGED <<agent, holders, written, session>>
      BY <1>7 DEF ReceiveRecord
    <2>2. CASE IterationEnds /\ StatusSeen /\ sup'.pc # "drop"
      BY <1>e, <2>1, <2>2 DEF IterationEnds, StatusSeen, OutcomeInv, None
    <2>3. CASE UNCHANGED journal /\ SameKnowledge /\ sup'.pc = "terminate" /\ sup'.error = "persistence"
      BY <1>t, <1>e, <2>1, <2>3 DEF SameKnowledge, OutcomeInv, None
    <2>4. CASE UNCHANGED journal /\ SameKnowledge /\ sup'.pc = "terminate" /\ sup'.error = "ingest"
                 /\ ~(Head(channel) \in Valid /\ ~sup.complete)
      <3>1. Refused
        BY <1>7, <2>4, ReceivedRecord DEF Refused, ReceiveRecord, Record
      <3> QED
        BY <1>t, <1>r, <1>f, <1>e, <2>1, <2>4, <3>1 DEF SameKnowledge, OutcomeInv, None
    <2> QED
      BY <1>7, <2>2, <2>3, <2>4, ReceivedRecord
  <1>8. CASE ReceiveEnd
    <2>1. UNCHANGED <<agent, holders, written, session>>
      BY <1>8 DEF ReceiveEnd
    <2> QED
      BY <1>8, <1>t, <1>r, <1>e, <2>1, ReceivedEnd DEF IterationEnds, StatusSeen, OutcomeInv, Eof, None
  <1>9. CASE ReceiveFailure
    <2>1. /\ UNCHANGED <<agent, holders, written, session, journal>> /\ SameKnowledge
          /\ sup.pc = "monitor" /\ sup'.pc = "terminate" /\ Take
          /\ sup'.error = IF Head(channel) = "StdoutFailed" THEN "protocol" ELSE "stderr"
      BY <1>9, <1>t, FailToFields DEF ReceiveFailure, Step, ExecutionError
    <2>2. Head(channel) = "StdoutFailed" => Refused
      BY <1>t, <2>1, HeadIsNext DEF StderrMessage, Refused
    <2> QED
      BY <1>t, <1>r, <1>f, <1>e, <2>1, <2>2 DEF SameKnowledge, OutcomeInv, None
  <1>10. CASE PollTimeout
    <2>1. UNCHANGED <<agent, holders, written, session>>
      BY <1>10 DEF PollTimeout
    <2> QED
      BY <1>10, <1>t, <1>r, <1>e, <2>1, Polled DEF IterationEnds, StatusSeen, OutcomeInv, Eof, None
  <1>11. CASE DropReceiver \/ JoinReaders
    <2>1. /\ UNCHANGED <<agent, holders, written, session, journal>> /\ SameKnowledge
          /\ sup'.error = sup.error /\ sup.pc \in {"drop", "join"}
          /\ \/ sup'.pc = "join"
             \/ sup'.pc = "classify" /\ sup.error = None
             \/ sup'.pc = "supervisor.failure" /\ sup.error # None
      BY <1>11, <1>t, GotoFields DEF DropReceiver, JoinReaders, Step
    <2> QED
      BY <1>t, <1>r, <1>f, <1>e, <2>1 DEF SameKnowledge, OutcomeInv
  <1>12. CASE Classify
    <2>1. /\ UNCHANGED <<agent, holders, written, session, journal>> /\ SameKnowledge
          /\ sup.pc = "classify"
          /\ \/ sup'.pc = "supervisor.failure" /\ sup'.error = "missing_completion"
             \/ /\ sup'.pc \in {"process.stderr", "process.exited"} /\ sup'.error = sup.error
                /\ sup.status = "ok" => sup.complete
      BY <1>12, <1>t, GotoFields, FailToFields DEF Classify, Step, ExecutionError
    <2> QED
      BY <1>t, <1>r, <1>f, <1>e, <2>1 DEF SameKnowledge, OutcomeInv, None
  <1>13. CASE MarkTerminal \/ MarkFailed
    <2>1. /\ UNCHANGED <<agent, holders, written, journal>> /\ SameKnowledge
          /\ sup'.pc = "returned" /\ sup'.error = sup.error
          /\ sup.pc \in {"mark_terminal", "mark_failed"}
          /\ session' = "completed" => sup.pc = "mark_terminal" /\ sup.status = "ok"
      BY <1>13, <1>t, GotoFields DEF MarkTerminal, MarkFailed, Terminal, Step
    <2> QED
      BY <1>t, <1>r, <1>f, <1>e, <2>1 DEF SameKnowledge, OutcomeInv
  <1>14. CASE DrainTimer
    <2>1. /\ sup'.pc = "monitor" /\ sup.pc = "monitor" /\ sup'.error = sup.error /\ SameKnowledge
          /\ UNCHANGED <<agent, holders, written, session, journal>>
      BY <1>14, <1>t DEF DrainTimer, SupType, SameKnowledge
    <2> QED
      BY <1>t, <1>r, <1>f, <1>e, <2>1 DEF SameKnowledge, OutcomeInv
  <1> QED
    BY <1>1, <1>2, <1>3, <1>4, <1>5, <1>6, <1>7, <1>8, <1>9, <1>10, <1>11, <1>12, <1>13, <1>14
    DEF Supervise

-----------------------------------------------------------------------------
(* The theorems. *)

\* A run that has not begun satisfies the invariant.
LEMMA RunInvInit == Init => RunInv
  <1> SUFFICES ASSUME Init PROVE RunInv
    OBVIOUS
  <1>1. TypeOK
    <2>1. sup \in SupType
      BY DEF Init, SupType, Step, ExecutionError
    <2>2. /\ written \in Seq(Record) /\ Len(written) <= MaxRecords
          /\ pipe \in Seq(Record) /\ Len(pipe) <= PipeCapacity
          /\ channel \in Seq(ReaderMessage) /\ Len(channel) <= ChannelCapacity
          /\ journal \in Seq(EventKinds)
      BY BoundsType, CapacityType DEF Init
    <2>3. receiving \in BOOLEAN
      BY Zenon DEF Init
    <2>4. RestType
      BY <2>2, <2>3 DEF Init, RestType, Off
    <2> QED
      BY <2>1, <2>4, TypeParts
  <1>2. ProcessInv /\ ReaderInv
    BY DEF Init, ProcessInv, ReaderInv, Started, Late, Off
  <1>3. RecordedAt = {} /\ Recorded = 0
    <2>1. RecordedAt = {}
      BY DEF Init, RecordedAt
    <2> QED
      BY <2>1, FS_EmptySet DEF Recorded
  <1>4. JournalInv
    BY <1>3 DEF Init, JournalInv, Preceding
  <1>5. PipeInv
    BY DEF Init, PipeInv
  <1>6. FlowInv
    <2>1. sup.pc = "create" /\ ~sup.stdout_finished /\ out = Off /\ err = Off /\ channel = <<>>
            /\ written = <<>> /\ pipe = <<>> /\ Off.pc = "off"
      BY DEF Init, Off
    <2>2. Queued(channel) = 0
      BY <2>1 DEF Queued, Rank
    <2>3. Sent = 0 /\ Reads = 0
      BY <1>3, <2>1, <2>2 DEF Sent, Reads
    <2>4. ChannelOK(channel, written, Recorded) /\ NoStderr(channel)
      BY <2>1 DEF ChannelOK, NoStderr
    <2> QED
      BY <2>1, <2>3, <2>4 DEF FlowInv, ReadersOff
  <1>7. OutcomeInv
    BY DEF Init, OutcomeInv, Late, None
  <1> QED
    BY <1>1, <1>2, <1>4, <1>5, <1>6, <1>7 DEF RunInv

\* Every step of every thread and process preserves it.
LEMMA RunInvNext == RunInv /\ [Next]_vars => RunInv'
  <1> SUFFICES ASSUME RunInv, [Next]_vars PROVE RunInv'
    OBVIOUS
  <1>t. TypeOK /\ ProcessInv /\ ReaderInv /\ JournalInv /\ PipeInv /\ FlowInv /\ OutcomeInv
    BY DEF RunInv
  <1>1. CASE Supervise \/ DrainTimer
    <2>1. UNCHANGED <<written, pipe>>
      BY <1>1 DEF Supervise, DrainTimer, CreateExecution, Journal, SpawnAgent, SpawnFails,
           MarkSessionRunning, StartReaders, StorageFails, DropGuard, KillGroup, ReceiveRecord,
           ReceiveEnd, ReceiveFailure, PollTimeout, TerminateGroup, DropReceiver, JoinReaders,
           Classify, MarkTerminal, MarkFailed, processes
    <2> QED
      BY <1>t, <1>1, <2>1, SupervisorKeepsTypes, SupervisorKeepsProcesses, SupervisorKeepsJournal,
         PipeStep, SupervisorKeepsFlow, SupervisorKeepsOutcome
      DEF RunInv
  <1>2. CASE \/ ReadOut \/ ReadErr \/ StderrTooLarge
             \/ \E r \in Record : Write(r)
             \/ \E d \in {"child", "escapee"} : Fork(d) \/ Detach(d) \/ DescendantExits(d)
             \/ \E status \in {"ok", "nonzero"} : Exit(status)
    <2>1. /\ UNCHANGED sup
          /\ UNCHANGED <<written, pipe>> \/ ReadStdout \/ \E r \in Record : Write(r)
      BY <1>2 DEF ReadOut, ReadErr, ReadStdout, EndOfStdout, SendStdout, EndOfStderr, SendStderr,
                  StderrTooLarge, Write, Fork, Detach, DescendantExits, Exit, processes
    <2>2. JournalInv' /\ Recorded' = Recorded
      BY <1>t, <1>2, <2>1, OthersKeepJournal
    <2>3. TypeOK' /\ ProcessInv' /\ ReaderInv'
      BY <1>t, <1>2, <2>1, OthersKeepTypes, OthersKeepProcesses
    <2>4. PipeInv'
      BY <1>t, <2>1, PipeStep
    <2>5. FlowInv' /\ OutcomeInv'
      BY <1>2, <2>1, <2>2, OthersKeepFlow, OthersKeepOutcome
    <2> QED
      BY <2>2, <2>3, <2>4, <2>5 DEF RunInv
  <1>3. CASE UNCHANGED vars
    <2>1. TypeOK' /\ ProcessInv' /\ ReaderInv' /\ PipeInv'
      BY <1>t, <1>3 DEF vars, TypeOK, ProcessInv, ReaderInv, PipeInv, Reads
    <2>2. RecordedAt' = RecordedAt /\ Recorded' = Recorded
      BY <1>3 DEF vars, RecordedAt, Recorded
    <2>3. JournalInv'
      BY <1>t, <1>3, <2>2 DEF vars, JournalInv
    <2>4. FlowInv'
      BY <1>t, <1>3, <2>2 DEF vars, FlowInv, ReadersOff, Sent, Reads, Eof
    <2>5. OutcomeInv'
      BY <1>t, <1>3, <2>2 DEF vars, OutcomeInv, Refused
    <2> QED
      BY <2>1, <2>3, <2>4, <2>5 DEF RunInv
  <1> QED
    BY <1>1, <1>2, <1>3 DEF Next

\* The inductive invariant of one supervised execution.
THEOREM RunInvariance == Spec => []RunInv
  BY RunInvInit, RunInvNext, PTL DEF Spec

\* The state of run_manifest, its threads and the processes is well formed.
THEOREM TypeCorrect == Spec => []TypeOK
  <1>1. RunInv => TypeOK
    BY DEF RunInv
  <1> QED
    BY <1>1, RunInvariance, PTL

\* The agent and the descendants of its group are gone when run_manifest
\* returns, however it ends: the ChildGuard, terminate_group and the end of
\* both pipes leave no other way out.
THEOREM GroupIsGone == Spec => []NothingLeftBehind
  <1>1. RunInv => NothingLeftBehind
    BY DEF RunInv, ProcessInv, NothingLeftBehind, Late, Cut, At
  <1> QED
    BY <1>1, RunInvariance, PTL

\* What append_event recorded of the agent is the beginning of its output.
LEMMA InOrder ==
    ASSUME JournalInv
    PROVE  RecordedInOrder
  <1>1. Recorded \in Nat /\ RecordedAt = 4 .. (3 + Recorded) /\ Recorded <= Len(written)
          /\ \A k \in 1 .. Recorded : journal[3 + k] = written[k]
    BY DEF JournalInv
  <1>2. ASSUME NEW i \in RecordedAt
        PROVE  journal[i] = written[Cardinality({j \in RecordedAt : j <= i})]
    <2>1. i \in Int /\ i - 3 \in 1 .. Recorded /\ i - 3 \in Nat /\ 3 + (i - 3) = i
      BY <1>1
    <2>2. {j \in RecordedAt : j <= i} = 4 .. (3 + (i - 3))
      BY <1>1, <2>1
    <2>3. Cardinality({j \in RecordedAt : j <= i}) = i - 3
      BY <2>1, <2>2, CardinalityOfRecorded
    <2> QED
      BY <1>1, <2>1, <2>3
  <1> QED
    BY <1>1, <1>2 DEF RecordedInOrder

\* A stream that decode_line or the validator refuses leaves its valid prefix on
\* record, in order, and nothing behind it.
THEOREM FailuresKeepTheirPrefix == Spec => []FailureKeepsPrefix
  <1>1. RunInv => FailureKeepsPrefix
    BY InOrder DEF RunInv, OutcomeInv, JournalInv, Refused, FailureKeepsPrefix, At
  <1> QED
    BY <1>1, RunInvariance, PTL

\* An outcome is never returned, and a session never completed, with a record
\* of the agent still in the pipe, in a reader or in the channel.
THEOREM OutcomesHaveEverything == Spec => []OutcomeHasEverything
  <1>1. RunInv => OutcomeHasEverything
    <2> SUFFICES ASSUME RunInv PROVE OutcomeHasEverything
      OBVIOUS
    <2>1. RecordedInOrder
      BY InOrder DEF RunInv
    <2>2. sup.pc = "returned" /\ sup.error = None => Recorded = Len(written)
      BY DEF RunInv, OutcomeInv, Late
    <2>3. ASSUME session = "completed"
          PROVE  /\ agent = "ok" /\ Recorded = Len(written) /\ written # <<>>
                 /\ Last(written) = "completion" /\ Last(journal) = "process.exited"
      <3>1. sup.pc = "returned" /\ sup.error = None /\ sup.status = "ok" /\ sup.complete
              /\ Last(journal) = "process.exited" /\ agent = "ok"
        BY <2>3 DEF RunInv, OutcomeInv, None
      <3>2. Recorded > 0 /\ written[Recorded] = "completion" /\ Recorded = Len(written)
        BY <2>2, <3>1 DEF RunInv, JournalInv
      <3>3. written # <<>> /\ Last(written) = "completion"
        BY <3>2 DEF Last
      <3> QED
        BY <3>1, <3>2, <3>3
    <2> QED
      BY <2>1, <2>2, <2>3 DEF OutcomeHasEverything, At
  <1> QED
    BY <1>1, RunInvariance, PTL
=============================================================================
