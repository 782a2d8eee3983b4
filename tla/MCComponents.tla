---------------------------- MODULE MCComponents ----------------------------
(* The components that share no state with each other, side by side: a       *)
(* behaviour picks one and is one of its behaviours.  The others are off: in *)
(* a fixed state in which they stay.                                         *)
EXTENDS AgentStream, Sandbox, MCCriu, ProcCollector, SemanticDiff, TrajectoryExport

-----------------------------------------------------------------------------
(* Sandbox: hosts, requests and paths. *)

Facilities == [uid |-> "root", tools |-> {"systemd-run", "bwrap", "systemctl"},
               cgroup_v2 |-> TRUE, controllers |-> {"cpu", "memory", "pids"},
               arch |-> "x86_64"]
MCHosts ==
    { Facilities, [Facilities EXCEPT !.uid = "other", !.tools = {"bwrap"}],
      [Facilities EXCEPT !.uid = "unreadable"], [Facilities EXCEPT !.cgroup_v2 = FALSE],
      [Facilities EXCEPT !.controllers = {"cpu", "pids"}, !.arch = "riscv64"] }

Exe == [type |-> "file", link |-> TRUE, exec |-> TRUE, owner |-> "user", shared |-> TRUE]
RootHelper == [type |-> "file", link |-> FALSE, exec |-> TRUE, owner |-> "root", shared |-> FALSE]
Dir(spelled, real) == [type |-> "dir", link |-> FALSE, spelled |-> spelled, at |-> real]
Good == [executable |-> Exe, trusted_helper |-> RootHelper,
         workspace |-> Dir(<<"w">>, <<"tmp", "w">>),
         working_directory |-> Dir(<<"w", "d">>, <<"tmp", "w", "d">>),
         arguments |-> [count |-> 128, longest |-> 4096, nul |-> FALSE],
         environment |-> {[key |-> "EPOCH_RUN", bytes |-> 4096, nul |-> FALSE]},
         limits |-> [memory_mib |-> 1, pids |-> 4096, cpu_percent |-> 1000]]
MCRequests ==
    { Good,
      [Good EXCEPT !.workspace = Dir(<<"w">>, <<"w">>), !.working_directory = Dir(<<"w">>, <<"w">>)],
      \* reached through a linked parent: inside the workspace only as text
      [Good EXCEPT !.working_directory = Dir(<<"w", "l", "d">>, <<"etc", "d">>)],
      [Good EXCEPT !.trusted_helper.link = TRUE], [Good EXCEPT !.trusted_helper.owner = "user"],
      [Good EXCEPT !.trusted_helper.shared = TRUE], [Good EXCEPT !.executable.exec = FALSE],
      [Good EXCEPT !.workspace.type = "missing"], [Good EXCEPT !.working_directory.type = "file"],
      [Good EXCEPT !.arguments.count = 129], [Good EXCEPT !.arguments.nul = TRUE],
      [Good EXCEPT !.environment = {[key |-> "EPOCH_SECRET", bytes |-> 1, nul |-> FALSE]}],
      [Good EXCEPT !.limits.cpu_percent = 1001] }
MCPaths == { <<"w">>, <<"w", "f">>, <<"etc", "d">>, <<"tmp", "x">>, <<"tmp", "w", "f">>,
             <<"run", "x">>, Helper, Workload }

-----------------------------------------------------------------------------
(* ProcCollector: the tree at the start, its threads and unusable files. *)

MCTree == [c \in {2, 3} |-> IF c = 2 THEN [parent |-> 1, by |-> 11] ELSE [parent |-> 2, by |-> 2]]
MCThreads == [p \in {1, 2, 3} |-> IF p = 1 THEN {1, 11} ELSE {p}]
MCBad == [f \in {<<2, "maps">>, <<3, "fds">>} |->
             IF f[1] = 2 THEN "permission_denied" ELSE "limit_exceeded"]

-----------------------------------------------------------------------------
(* SemanticDiff: contexts that differ in each section, with identifiers that *)
(* contain separators, escapes and the names of sections.                    *)

MCSpelling ==
    [id \in {"x", "x/role", "x~1role", "order"} |->
        CASE id = "x/role" -> <<"x", "/", "role">>
          [] id = "x~1role" -> <<"x", "~", "1", "role">>
          [] OTHER -> <<id>>]

Message(id, role, hash) == [id |-> id, role |-> role, hash |-> hash]
Task(id, type, hash) == [id |-> id, type |-> type, hash |-> hash]
MessageSet == {Message("x", "user", "h1"), Message("x", "tool", "h1"), Message("x", "user", "h2"),
               Message("x/role", "user", "h1"), Message("x~1role", "user", "h1"),
               Message("order", "user", "h1")}
TaskSet == {Task("x", "t1", "none"), Task("x", "t2", "h1"), Task("order", "t1", "none")}
UpTo(n, S) == UNION {[1 .. k -> S] : k \in 0 .. n}
Registries == UNION {[ids -> {"v1", "v2"}] : ids \in SUBSET {"x/role", "x~1role"}}

Base == [schema |-> 1, safe_point |-> "s1", model |-> "m1", summary |-> "none", seed |-> 1,
         revision |-> 0, boundary |-> 3, message |-> 2, tool |-> 0, task |-> 0,
         registry |-> [id \in {} |-> "v1"], messages |-> <<>>, tasks |-> <<>>,
         model_requests |-> <<>>, tool_calls |-> <<>>]
MCContexts ==
    {[Base EXCEPT !.messages = list] : list \in {l \in UpTo(2, MessageSet) : unique_ids(l)}}
    \cup {[Base EXCEPT !.tasks = list] : list \in {l \in UpTo(2, TaskSet) : unique_ids(l)}}
    \cup {[Base EXCEPT !.registry = map] : map \in Registries}
    \cup {[Base EXCEPT !.model_requests = ids, !.tool_calls = Reverse(ids)] :
             ids \in {<<"x">>, <<"x", "order">>, <<"order", "x">>, <<"x~1role", "x/role">>}}
    \cup {[Base EXCEPT !.safe_point = "s2", !.model = "m2", !.summary = "h1"],
          [Base EXCEPT !.seed = 2, !.revision = 1, !.boundary = 4, !.message = 3, !.tool = 1, !.task = 1],
          [Base EXCEPT !.schema = 2], [Base EXCEPT !.messages = <<Message("", "user", "h1")>>]}

-----------------------------------------------------------------------------
(* TrajectoryExport: what an export asks for. *)

Ask(group, session, b, e) == [group |-> group, session |-> session, branches |-> b, events |-> e]
MCWanted == {Ask(TRUE, TRUE, 2, 6), Ask(TRUE, TRUE, 1, 3), Ask(FALSE, TRUE, 2, 6)}

-----------------------------------------------------------------------------
VARIABLE picked
all_vars == <<picked, vars, sandbox_vars, criu_vars, proc_vars, diff_vars, export_vars>>

Components == {"stream", "sandbox", "criu", "proc", "diff", "export"}
On(c) == picked = c

ComponentsInit ==
    /\ picked \in Components
    /\ On("sandbox") \/ (kind = "direct" /\ host = Facilities /\ request = Good)
    /\ On("criu") \/ (config = Config /\ machine = CHOOSE m \in Machines : m.criu /\ m.fixture)
    /\ \/ On("diff") /\ DiffInit
       \/ ~On("diff") /\ sides = <<>> /\ store = <<>> /\ at = "off" /\ outcome = NoOutcome
    /\ Init /\ SandboxInit /\ CriuInit /\ ProcInit /\ ExportInit

ComponentsNext ==
    /\ UNCHANGED picked
    /\ \/ On("stream") /\ Next /\ UNCHANGED <<sandbox_vars, criu_vars, proc_vars, diff_vars, export_vars>>
       \/ On("sandbox") /\ SandboxNext /\ UNCHANGED <<vars, criu_vars, proc_vars, diff_vars, export_vars>>
       \/ On("criu") /\ CriuNext /\ UNCHANGED <<vars, sandbox_vars, proc_vars, diff_vars, export_vars>>
       \/ On("proc") /\ ProcNext /\ UNCHANGED <<vars, sandbox_vars, criu_vars, diff_vars, export_vars>>
       \/ On("diff") /\ DiffNext /\ UNCHANGED <<vars, sandbox_vars, criu_vars, proc_vars, export_vars>>
       \/ On("export") /\ ExportNext /\ UNCHANGED <<vars, sandbox_vars, criu_vars, proc_vars, diff_vars>>

ComponentsSpec == ComponentsInit /\ [][ComponentsNext]_all_vars /\ SandboxFairness
=============================================================================
