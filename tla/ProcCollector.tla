---------------------------- MODULE ProcCollector ----------------------------
(***************************************************************************)
(* The process collector (epoch-proc): a breadth-first walk of a process   *)
(* tree through procfs while its processes fork, exit and are adopted, and *)
(* while threads end and hand their children to another thread.  Every     *)
(* file is read by itself, so that a process may be gone halfway through.  *)
(*                                                                         *)
(* The kernel is external.  0 stands for every process outside the tree.   *)
(* Bad gives the files that exist and cannot be used, as                   *)
(* <<pid, section>> -> issue kind.  Children files list numbers only.      *)
(***************************************************************************)
EXTENDS Naturals, Sequences, FiniteSets, SequencesExt, FiniteSetsExt

CONSTANTS
    Pids,                     \* process identifiers, positive numbers
    Root,                     \* the process collection starts at
    Tree,                     \* initial child -> [parent, by]: its parent and the thread that lists it
    Threads,                  \* initial pid -> thread identifiers
    Bad,                      \* unusable files
    max_processes, max_threads_per_process,
    MaxEvents                 \* bound: steps of the kernel

\* At the start the root's parent is outside the tree, and every other process was
\* forked by a thread of one that is in it.
ASSUME TreeAssumption ==
    /\ Pids \subseteq Nat \ {0} /\ IsFiniteSet(Pids) /\ Root \in Pids
    /\ DOMAIN Tree \subseteq Pids \ {Root} /\ DOMAIN Threads = {Root} \union DOMAIN Tree
    /\ \A p \in DOMAIN Threads : Threads[p] \subseteq Nat /\ IsFiniteSet(Threads[p])
    /\ Tree \in [DOMAIN Tree -> [parent : DOMAIN Threads, by : Nat]]
    /\ \A c \in DOMAIN Tree : Tree[c].by \in Threads[Tree[c].parent]
    /\ \A S \in SUBSET DOMAIN Threads :
          (Root \in S /\ \A c \in DOMAIN Tree : Tree[c].parent \in S => c \in S) => S = DOMAIN Threads
ASSUME CollectorLimits == max_processes \in Nat /\ max_threads_per_process \in Nat

VARIABLES
    live,                     \* processes that exist
    tids,                     \* pid -> its threads
    parent,                   \* pid -> [parent, by]
    stable,                   \* history: processes tied to the root without a break since the start
    events,
    queue, seen, cur, collected, diagnostics, truncated, walking

kernel_vars == <<live, tids, parent, stable, events>>
collector_vars == <<queue, seen, cur, collected, diagnostics, truncated, walking>>
proc_vars == <<kernel_vars, collector_vars>>

Idle0 == [pid |-> 0, stage |-> "idle", todo |-> {}, threads |-> {}, children |-> {},
          sections |-> <<>>, missing |-> {}]
Sections == <<"maps", "fds", "namespaces", "cgroup", "network", "executable", "command">>

\* Numbers in a row, smallest first.
Ascending(S) == {s \in [1..Cardinality(S) -> S] :
                    ToSet(s) = S /\ \A i, j \in DOMAIN s : i < j => s[i] < s[j]}
Listed(p, t) == {c \in live : parent[c].parent = p /\ parent[c].by = t}

ProcInit ==
    /\ live = {Root} \union DOMAIN Tree
    /\ tids = [p \in Pids |-> IF p \in DOMAIN Threads THEN Threads[p] ELSE {}]
    /\ parent = [p \in Pids |-> IF p \in DOMAIN Tree THEN Tree[p] ELSE [parent |-> 0, by |-> 0]]
    /\ stable = live
    /\ events = 0
    /\ queue = <<Root>> /\ seen = {} /\ cur = Idle0
    /\ collected = <<>>
    /\ diagnostics = {} /\ truncated = FALSE /\ walking = TRUE

-----------------------------------------------------------------------------
(* The kernel. *)

KernelSteps == walking /\ events < MaxEvents /\ events' = events + 1 /\ UNCHANGED collector_vars

\* Whoever was below a process that exits is cut off from the root with it.
Closed(S) == \A c \in live : parent[c].parent \in S => c \in S
Below(p) == {q \in live : \A S \in SUBSET (Pids \union {0}) : p \in S /\ Closed(S) => q \in S}

Exits(p) ==
    /\ KernelSteps
    /\ p \in live
    /\ live' = live \ {p}
    /\ tids' = [tids EXCEPT ![p] = {}]
    /\ parent' = [c \in Pids |-> IF parent[c].parent = p THEN [parent |-> 0, by |-> 0] ELSE parent[c]]
    /\ stable' = stable \ Below(p)

\* A thread other than the first ends; another one adopts its children.
ThreadExits(p, t) ==
    /\ KernelSteps
    /\ p \in live /\ t \in tids[p] /\ t # p
    /\ tids' = [tids EXCEPT ![p] = @ \ {t}]
    /\ \E heir \in tids'[p] :
          parent' = [c \in Pids |-> IF parent[c] = [parent |-> p, by |-> t]
                                    THEN [parent |-> p, by |-> heir] ELSE parent[c]]
    /\ UNCHANGED <<live, stable>>

\* A free identifier, one that was in the tree included, is given to a new process.
Forks(p, c) ==
    /\ KernelSteps
    /\ c \notin live
    /\ \/ p = 0 /\ parent' = [parent EXCEPT ![c] = [parent |-> 0, by |-> 0]]
       \/ p \in live /\ \E t \in tids[p] : parent' = [parent EXCEPT ![c] = [parent |-> p, by |-> t]]
    /\ live' = live \union {c}
    /\ tids' = [tids EXCEPT ![c] = {c}]
    /\ UNCHANGED stable

-----------------------------------------------------------------------------
(* Reading one file. *)

Diagnostic(p, section, kind) == [pid |-> p, section |-> section, kind |-> kind]

\* A file that is not found means that its process has gone.
classify_io_error(p, section) ==
    IF p \notin live THEN "process_disappeared" ELSE Bad[<<p, section>>]

\* Opening and reading, the size limit, and the issues of what was read.
read_file(p, section) ==
    IF p \in live /\ <<p, section>> \notin DOMAIN Bad THEN "ok" ELSE classify_io_error(p, section)

\* A parse issue is reported and the value kept; the others lose the value.
Lost(kind) == kind \notin {"ok", "parse", "malformed_entry"}
Report(p, section, kind) ==
    /\ diagnostics' = IF kind = "ok" THEN diagnostics
                      ELSE diagnostics \union {Diagnostic(p, section, kind)}
    /\ truncated' = (truncated \/ kind = "limit_exceeded")

-----------------------------------------------------------------------------
(* The session. *)

CollectorSteps == walking /\ UNCHANGED kernel_vars

NextProcess ==
    /\ CollectorSteps
    /\ cur = Idle0 /\ queue # <<>>
    /\ LET p == Head(queue) IN
       /\ queue' = Tail(queue)
       /\ seen' = seen \union {p}
       /\ IF p \in seen THEN UNCHANGED <<cur, diagnostics, truncated, walking>>
          ELSE IF Len(collected) >= max_processes
               THEN /\ Report(0, "process_tree", "limit_exceeded") /\ walking' = FALSE
                    /\ UNCHANGED cur
               ELSE /\ cur' = [Idle0 EXCEPT !.pid = p, !.stage = "status"]
                    /\ UNCHANGED <<diagnostics, truncated, walking>>
    /\ UNCHANGED collected

\* A process that is gone by now leaves its diagnostic and nothing else.
ReadStatus ==
    /\ CollectorSteps
    /\ cur.stage = "status"
    /\ LET kind == read_file(cur.pid, "status") IN
       /\ Report(cur.pid, "status", kind)
       /\ cur' = IF kind = "process_disappeared" THEN Idle0
                 ELSE [cur EXCEPT !.stage = "task",
                                  !.missing = IF Lost(kind) THEN {"status"} ELSE {}]
    /\ UNCHANGED <<queue, seen, collected, walking>>

\* At most one entry more than the limit is looked at, in directory order.
numeric_directory ==
    /\ CollectorSteps
    /\ cur.stage = "task"
    /\ LET kind == read_file(cur.pid, "threads") IN
       \E entries \in SUBSET tids[cur.pid] :
          /\ Cardinality(entries) = IF Lost(kind) THEN 0
                                    ELSE Min({Cardinality(tids[cur.pid]), max_threads_per_process})
          /\ Report(cur.pid, "threads",
                    IF ~Lost(kind) /\ Cardinality(tids[cur.pid]) > max_threads_per_process
                    THEN "limit_exceeded" ELSE kind)
          /\ cur' = [cur EXCEPT !.stage = "threads", !.todo = entries]
    /\ UNCHANGED <<queue, seen, collected, walking>>

\* The status of one thread.
collect_threads ==
    /\ CollectorSteps
    /\ cur.stage = "threads"
    /\ IF cur.todo = {}
       THEN /\ cur' = [cur EXCEPT !.stage = "children", !.todo = cur.threads]
            /\ UNCHANGED <<diagnostics, truncated>>
       ELSE LET t == Min(cur.todo)
                kind == IF t \in tids[cur.pid] THEN "ok" ELSE "process_disappeared"
            IN  /\ Report(cur.pid, "threads", kind)
                /\ cur' = [cur EXCEPT !.todo = @ \ {t},
                                      !.threads = IF kind = "ok" THEN @ \union {t} ELSE @]
    /\ UNCHANGED <<queue, seen, collected, walking>>

ChildrenOf_MainThread(p, t) == IF t = p THEN Listed(p, t) ELSE {}

\* /proc/<pid>/task/<tid>/children.
ChildrenOf(p, t) == Listed(p, t)

collect_children ==
    /\ CollectorSteps
    /\ cur.stage = "children"
    /\ IF cur.todo = {}
       THEN /\ cur' = [cur EXCEPT !.stage = "files", !.sections = Sections]
            /\ UNCHANGED <<diagnostics, truncated>>
       ELSE LET t == Min(cur.todo)
                kind == IF t \in tids[cur.pid] THEN read_file(cur.pid, "children")
                                               ELSE "process_disappeared"
            IN  /\ Report(cur.pid, "children", kind)
                /\ cur' = [cur EXCEPT !.todo = @ \ {t},
                               !.children = IF Lost(kind) THEN @ ELSE @ \union ChildrenOf(cur.pid, t)]
    /\ UNCHANGED <<queue, seen, collected, walking>>

\* The network tables are read only for a process with a socket among its
\* descriptors; the executable link and the command line always.
FileKind(section) ==
    IF section = "network" /\ "fds" \in cur.missing THEN "ok" ELSE read_file(cur.pid, section)

\* The remaining files, in order.
collect_files ==
    /\ CollectorSteps
    /\ cur.stage = "files" /\ cur.sections # <<>>
    /\ LET section == Head(cur.sections)
           kind == FileKind(section)
       IN  /\ Report(cur.pid, section, kind)
           /\ cur' = [cur EXCEPT !.sections = Tail(@),
                          !.missing = IF Lost(kind) THEN @ \union {section} ELSE @]
    /\ UNCHANGED <<queue, seen, collected, walking>>

EndsProcess ==
    /\ CollectorSteps
    /\ cur.stage = "files" /\ cur.sections = <<>>
    /\ \E next \in Ascending(cur.children) : queue' = queue \o next
    /\ collected' = Append(collected, [pid |-> cur.pid, missing |-> cur.missing])
    /\ cur' = Idle0
    /\ UNCHANGED <<seen, diagnostics, truncated, walking>>

\* The manifest, its processes sorted by identifier.
EndsWalk ==
    /\ CollectorSteps
    /\ cur = Idle0 /\ queue = <<>>
    /\ walking' = FALSE
    /\ \E sorted \in [DOMAIN collected -> ToSet(collected)] :
          /\ ToSet(sorted) = ToSet(collected)
          /\ \A i, j \in DOMAIN sorted : i < j => sorted[i].pid < sorted[j].pid
          /\ collected' = sorted
    /\ UNCHANGED <<queue, seen, cur, diagnostics, truncated>>

ProcNext ==
    \/ \E p \in Pids : Exits(p) \/ (\E t \in tids[p] : ThreadExits(p, t))
    \/ \E p \in Pids \union {0}, c \in Pids : Forks(p, c)
    \/ NextProcess \/ ReadStatus \/ numeric_directory \/ collect_threads \/ collect_children
    \/ collect_files \/ EndsProcess \/ EndsWalk

ProcSpec == ProcInit /\ [][ProcNext]_proc_vars

-----------------------------------------------------------------------------
Found == {collected[i].pid : i \in DOMAIN collected}

\* Nothing is left out in silence: a process whose chain of parents to the root
\* held for the whole walk is in the manifest, or some diagnostic about a process
\* of that chain, or about the size of the tree, says why it may not be -- also
\* when the thread that had forked it ended while the walk was under way.
CompleteOrSaid ==
    ~walking =>
        \A p \in stable \ Found : \E d \in diagnostics :
            \/ d.section = "process_tree"
            \/ p \in Below(d.pid) /\ d.section \in {"status", "threads", "children"}

=============================================================================
