------------------------------- MODULE Sandbox -------------------------------
(***************************************************************************)
(* Execution backends (epoch-sandbox): a request is validated, a backend   *)
(* prepares a literal command plan, launches it, and controls and cleans   *)
(* up the processes it started.  The direct backend owns one child; the    *)
(* Linux backend owns a transient systemd scope whose leader is bwrap, and *)
(* the workload below it may fork.                                         *)
(*                                                                         *)
(* The kernel, systemd and bwrap are external: a scope is collected when   *)
(* its last process is gone, and a PID namespace dies with its leader.     *)
(* One owner calls the backend (every operation takes &mut), while the     *)
(* workload and systemd take their own steps.                              *)
(***************************************************************************)
EXTENDS Naturals, Sequences, FiniteSets, SequencesExt

CONSTANTS
    Hosts,          \* hosts the backend may be discovered on
    Requests,       \* launch data a caller may present
    Descendants,    \* processes the workload may fork
    Paths,          \* host paths the mount plan is asked about
    ATTEMPTS,       \* polls of wait_linux_unit_collected
    ShowMayFail,    \* whether `systemctl show` may fail, printing nothing
    MaxOps          \* bound: control operations on one process

ASSUME BoundsAssumption == ATTEMPTS \in Nat \ {0} /\ MaxOps \in Nat

\* A canonical path is a sequence of names.
ASSUME PathAssumption ==
    /\ Paths \subseteq Seq(STRING)
    /\ \A r \in Requests : r.workspace.at \in Seq(STRING)

VARIABLES
    kind,           \* BackendKind of the backend in use
    host,           \* facts discovery reads
    request,        \* the launch data
    plan,           \* the PreparedLaunch
    phase,          \* "new", "validated", "prepared", "launched", "refused"
    leader,         \* the child: "none", "running", "stopped", "zombie", "reaped"
    image,          \* what the child executes: "none", "helper", "workload"
    filtered,       \* whether the helper has installed the seccomp filter
    kids,           \* descendant -> "none", "running", "stopped", "gone"
    unit,           \* the scope: "none", "loaded", "collected"
    call,           \* the operation in progress: [op, left]
    result,         \* result of the last completed operation
    ops             \* operations started

sandbox_vars == <<kind, host, request, plan, phase, leader, image, filtered, kids, unit, call, result, ops>>

\* The error of the first check that fails, in order, or "ok".
FirstError(checks) ==
    LET failed == {i \in DOMAIN checks : ~checks[i][1]}
    IN  IF failed = {} THEN "ok" ELSE checks[Min(failed)][2]

-----------------------------------------------------------------------------
(* Request validation. *)

MAX_ARGUMENTS == 128
MAX_ARGUMENT_BYTES == 4096
MAX_ENVIRONMENT_ENTRIES == 64
MAX_ENVIRONMENT_VALUE_BYTES == 4096
MAX_MEMORY_MIB == 1024 * 1024
MAX_PIDS == 4096
MAX_CPU_PERCENT == 1000

\* Memory limits are whole MiB here, the lower bound being one of them.
ResourceLimits(l) == FirstError(<<
    <<l.memory_mib \in 1..MAX_MEMORY_MIB, "invalid_limit">>,
    <<l.pids \in 1..MAX_PIDS, "invalid_limit">>,
    <<l.cpu_percent \in 1..MAX_CPU_PERCENT, "invalid_limit">> >>)

\* A file is [type, link, exec, owner, shared]; canonicalize follows links,
\* so that only the last component is refused for being one, and the
\* components of a canonical path are never links.
canonical_regular_executable(f, reject_symlinks) == FirstError(<<
    <<~(reject_symlinks /\ f.link), "symlink_rejected">>,
    <<f.type # "missing", "path">>,
    <<f.type = "file" /\ f.exec, "invalid_executable">> >>)

\* A directory is [type, link, spelled, at]: the text given, and the
\* canonical path it resolves to.
canonical_directory(d) == FirstError(<<
    <<~d.link, "symlink_rejected">>,
    <<d.type # "missing", "path">>,
    <<d.type = "dir", "invalid_directory">> >>)

sensitive_environment_name(key) == key = "EPOCH_SECRET"

\* A name is uppercase and starts with EPOCH_.
validate_environment(env) == FirstError(<<
    <<Cardinality(env) <= MAX_ENVIRONMENT_ENTRIES, "too_many_environment_entries">>,
    <<\A e \in env : /\ e.key \notin {"HOME", "EPOCH_lower"}
                     /\ ~sensitive_environment_name(e.key)
                     /\ e.bytes <= MAX_ENVIRONMENT_VALUE_BYTES /\ ~e.nul,
      "invalid_environment">> >>)

LaunchRequest(r) == FirstError(<<
    <<ResourceLimits(r.limits) = "ok", "limits">>,
    <<canonical_regular_executable(r.executable, FALSE) = "ok", "executable">>,
    <<canonical_regular_executable(r.trusted_helper, TRUE) = "ok", "trusted_helper">>,
    <<canonical_directory(r.workspace) = "ok", "workspace">>,
    <<canonical_directory(r.working_directory) = "ok", "working_directory">>,
    <<IsPrefix(r.workspace.at, r.working_directory.at), "outside_workspace">>,
    <<r.arguments.count <= MAX_ARGUMENTS, "too_many_arguments">>,
    <<r.arguments.longest <= MAX_ARGUMENT_BYTES /\ ~r.arguments.nul, "invalid_argument">>,
    <<validate_environment(r.environment) = "ok", "environment">> >>)

-----------------------------------------------------------------------------
(* Discovery of the Linux backend. *)

\* The effective UID, or "unreadable".
effective_uid_from_proc(h) == h.uid

Diagnose(holds, code) == IF holds THEN <<>> ELSE <<code>>

discover_linux_backend(h) ==
    LET uid == effective_uid_from_proc(h)
        diagnostics ==
            Diagnose(uid \in {"root", "unreadable"}, "privilege_required")
            \o Diagnose(uid # "unreadable", "kernel_probe_failed")
            \o Diagnose("systemd-run" \in h.tools, "missing_tool")
            \o Diagnose("bwrap" \in h.tools, "missing_tool")
            \o Diagnose("systemctl" \in h.tools, "missing_tool")
            \o Diagnose(h.cgroup_v2, "missing_cgroup_v2")
            \o Diagnose(h.cgroup_v2 => "cpu" \in h.controllers, "missing_cgroup_controller")
            \o Diagnose(h.cgroup_v2 => "memory" \in h.controllers, "missing_cgroup_controller")
            \o Diagnose(h.cgroup_v2 => "pids" \in h.controllers, "missing_cgroup_controller")
            \o Diagnose(h.arch \in {"x86_64", "aarch64"}, "unsupported_architecture")
    IN  [status |-> IF diagnostics = <<>> THEN "supported" ELSE "unsupported",
         diagnostics |-> diagnostics, tools |-> diagnostics = <<>>]

\* No diagnostics at all on the direct backend.
capabilities ==
    IF kind = "direct" THEN [status |-> "supported", diagnostics |-> <<>>, tools |-> FALSE]
                       ELSE discover_linux_backend(host)

-----------------------------------------------------------------------------
(* Plans. *)

Mount(m, from, to) == [mode |-> m, from |-> from, to |-> to]
Helper == <<"run", "epoch-sandbox-init">>
Workload == <<"run", "epoch-workload">>

NoPlan == [backend |-> "none", mounts |-> <<>>, flags |-> {}, cgroup_unit |-> FALSE,
           cwd |-> <<>>, cleared |-> FALSE]

plan_direct(r) == [NoPlan EXCEPT !.backend = "direct", !.cwd = r.working_directory.at,
                                 !.cleared = TRUE]

\* The options of systemd-run and bwrap the workload's life depends on.
BwrapFlags == {"scope", "collect", "die-with-parent", "unshare-pid", "seccomp-profile-v1"}

\* bwrap applies its mounts in order.
plan_linux_launch(r) ==
    [backend |-> "linux",
     mounts |-> << Mount("ro-bind", <<>>, <<>>),
                   Mount("tmpfs", <<>>, <<"tmp">>), Mount("tmpfs", <<>>, <<"run">>),
                   Mount("bind", r.workspace.at, r.workspace.at),
                   Mount("ro-bind", <<"helper">>, Helper),
                   Mount("ro-bind", <<"exe">>, Workload) >>,
     flags |-> BwrapFlags,
     cgroup_unit |-> TRUE, cwd |-> r.working_directory.at, cleared |-> TRUE]

\* Root-owned and not writable by group or others.
validate_trusted_helper_security(f) == f.owner = "root" /\ ~f.shared

\* LinuxBackend::prepare: the first diagnostic, then the tools, then the helper.
linux_prepare(r) == FirstError(<<
    <<capabilities.status = "supported",
      IF capabilities.diagnostics = <<>> THEN "kernel_probe_failed"
                                         ELSE Head(capabilities.diagnostics)>>,
    <<capabilities.tools, "kernel_probe_failed">>,
    <<validate_trusted_helper_security(r.trusted_helper), "kernel_probe_failed">> >>)

-----------------------------------------------------------------------------
(* What a plan shows its workload: the last mount that covers a path. *)

Covering(p) == {i \in DOMAIN plan.mounts : IsPrefix(plan.mounts[i].to, p)}
Seen(p) ==
    LET m == plan.mounts[Max(Covering(p))] IN
    [mode |-> m.mode,
     from |-> IF m.mode = "tmpfs" THEN <<>> ELSE m.from \o SubSeq(p, Len(m.to) + 1, Len(p))]

Alive(s) == s \in {"running", "stopped"}
KidAlive(k) == kids[k] \in {"running", "stopped"}
NoKids == \A k \in Descendants : ~KidAlive(k)
Uncalled == phase = "launched" /\ call.op = "idle"
NoCall == [op |-> "idle", left |-> 0]

-----------------------------------------------------------------------------
SandboxInit ==
    /\ kind \in {"direct", "linux"}
    /\ host \in Hosts
    /\ request \in Requests
    /\ plan = NoPlan
    /\ phase = "new"
    /\ leader = "none" /\ image = "none" /\ filtered = FALSE
    /\ kids = [k \in Descendants |-> "none"]
    /\ unit = "none"
    /\ call = NoCall
    /\ result = "none"
    /\ ops = 0

Processes == <<leader, image, filtered, kids, unit>>

\* LaunchRequest::new.
NewRequest ==
    /\ phase = "new"
    /\ result' = LaunchRequest(request)
    /\ phase' = IF result' = "ok" THEN "validated" ELSE "refused"
    /\ UNCHANGED <<kind, host, request, plan, Processes, call, ops>>

prepare ==
    /\ phase = "validated"
    /\ LET r == IF kind = "direct" THEN "ok" ELSE linux_prepare(request) IN
       /\ result' = r
       /\ phase' = IF r = "ok" THEN "prepared" ELSE "refused"
       /\ plan' = IF r # "ok" THEN plan
                  ELSE IF kind = "direct" THEN plan_direct(request)
                                          ELSE plan_linux_launch(request)
    /\ UNCHANGED <<kind, host, request, Processes, call, ops>>

\* LinuxBackend::launch asks for its capabilities again, which are those of its
\* discovery; spawn itself may fail.
launch ==
    /\ phase = "prepared"
    /\ \/ /\ capabilities.status = "supported"
          /\ result' = "ok" /\ phase' = "launched"
          /\ leader' = "running"
          /\ image' = IF plan.cgroup_unit THEN "helper" ELSE "workload"
          /\ unit' = IF plan.cgroup_unit THEN "loaded" ELSE "none"
       \/ /\ result' = IF capabilities.status = "supported" THEN "launch" ELSE "backend_unsupported"
          /\ phase' = "refused"
          /\ UNCHANGED <<leader, image, unit>>
    /\ UNCHANGED <<kind, host, request, plan, filtered, kids, call, ops>>

-----------------------------------------------------------------------------
(* The workload, the helper, the kernel and systemd. *)

InitHelper_ExecFirst ==
    /\ leader = "running" /\ image = "helper"
    /\ image' = "workload"
    /\ UNCHANGED <<kind, host, request, plan, phase, leader, filtered, kids, unit, call, result, ops>>

\* epoch-sandbox-init: the filter is installed, then the workload replaces the
\* helper; on every failure the helper exits instead (LeaderExits).
InitHelper ==
    /\ leader = "running" /\ image = "helper"
    /\ \/ ~filtered /\ filtered' = TRUE /\ UNCHANGED image
       \/ filtered /\ image' = "workload" /\ UNCHANGED filtered
    /\ UNCHANGED <<kind, host, request, plan, phase, leader, kids, unit, call, result, ops>>

WorkloadForks(k) ==
    /\ leader = "running" /\ image = "workload" /\ kids[k] = "none"
    /\ kids' = [kids EXCEPT ![k] = "running"]
    /\ UNCHANGED <<kind, host, request, plan, phase, leader, image, filtered, unit, call, result, ops>>

LeaderExits ==
    /\ leader = "running"
    /\ leader' = "zombie"
    /\ UNCHANGED <<kind, host, request, plan, phase, image, filtered, kids, unit, call, result, ops>>

\* A descendant ends by itself or, once the leader of its PID namespace is
\* gone, at the hands of the kernel.
Namespaced == {"die-with-parent", "unshare-pid"} \subseteq plan.flags
NamespaceDies(k) ==
    /\ Namespaced /\ ~Alive(leader) /\ KidAlive(k)
    /\ kids' = [kids EXCEPT ![k] = "gone"]
    /\ UNCHANGED <<kind, host, request, plan, phase, leader, image, filtered, unit, call, result, ops>>

DescendantExits(k) ==
    /\ kids[k] = "running"
    /\ kids' = [kids EXCEPT ![k] = "gone"]
    /\ UNCHANGED <<kind, host, request, plan, phase, leader, image, filtered, unit, call, result, ops>>

\* --collect: an empty scope is unloaded.  A zombie still counts as gone.
UnitCollected ==
    /\ unit = "loaded" /\ ~Alive(leader) /\ NoKids
    /\ unit' = "collected"
    /\ UNCHANGED <<kind, host, request, plan, phase, leader, image, filtered, kids, call, result, ops>>

-----------------------------------------------------------------------------
(* Operations of the owner. *)

Reap(s) == IF s = "zombie" THEN "reaped" ELSE s     \* Child::try_wait

Begin == Uncalled /\ ops < MaxOps /\ ops' = ops + 1
Return(r) == result' = r /\ call' = NoCall

inspect ==
    /\ Begin
    /\ leader' = Reap(leader)
    /\ Return(IF leader \in {"zombie", "reaped"} THEN "exited" ELSE "live")
    /\ UNCHANGED <<kind, host, request, plan, phase, image, filtered, kids, unit>>

Signalled(s, from, to) == IF s = from THEN to ELSE s

\* kill(2) reaches the leader alone; a reaped child no longer has its pid.
signal_process(from, to) ==
    /\ leader' = Signalled(leader, from, to)
    /\ Return(IF leader = "reaped" THEN "signal" ELSE "ok")
    /\ UNCHANGED <<image, filtered, kids, unit>>

\* systemctl kill --kill-whom=all reaches every process of a loaded unit, or fails.
control_linux_unit(from, to) ==
    \/ /\ unit = "loaded"
       /\ leader' = Signalled(leader, from, to)
       /\ kids' = [k \in Descendants |-> Signalled(kids[k], from, to)]
       /\ Return("ok")
       /\ UNCHANGED <<image, filtered, unit>>
    \/ /\ Return("control_failed")
       /\ UNCHANGED Processes

suspend ==
    /\ Begin
    /\ IF kind = "direct" THEN signal_process("running", "stopped")
                          ELSE control_linux_unit("running", "stopped")
    /\ UNCHANGED <<kind, host, request, plan, phase>>

resume ==
    /\ Begin
    /\ IF kind = "direct" THEN signal_process("stopped", "running")
                          ELSE control_linux_unit("stopped", "running")
    /\ UNCHANGED <<kind, host, request, plan, phase>>

Killed(s) == IF Alive(s) THEN "zombie" ELSE s

terminate_process_Polite ==
    /\ leader' = IF leader = "running" THEN "zombie" ELSE leader
    /\ UNCHANGED <<image, filtered, kids, unit>>

\* try_wait, and kill(SIGKILL) if the child has not exited.
terminate_process ==
    /\ leader' = IF Alive(leader) THEN "zombie" ELSE Reap(leader)
    /\ UNCHANGED <<image, filtered, kids, unit>>

\* systemctl stop returns once no process of the unit is left; it fails for a
\* unit that is not loaded, and may fail for reasons of its own.
StopUnit ==
    /\ unit = "loaded"
    /\ leader' = Killed(leader)
    /\ kids' = [k \in Descendants |-> IF KidAlive(k) THEN "gone" ELSE kids[k]]
    /\ unit' \in {"loaded", "collected"}
    /\ UNCHANGED <<image, filtered>>

terminate ==
    /\ Begin
    /\ \/ kind = "direct" /\ terminate_process /\ Return("ok")
       \/ kind = "linux" /\ StopUnit /\ Return("ok")
       \/ kind = "linux" /\ Return("control_failed") /\ UNCHANGED Processes
    /\ UNCHANGED <<kind, host, request, plan, phase>>

Goto(op, left) == call' = [op |-> op, left |-> left] /\ UNCHANGED result

\* cleanup starts: the direct backend kills, the Linux backend looks first.
cleanup ==
    /\ Begin
    /\ \/ kind = "direct" /\ terminate_process /\ Goto("wait", 0)
       \/ /\ kind = "linux" /\ leader' = Reap(leader)
          /\ Goto(IF Alive(leader) THEN "stop" ELSE "wait", 0)
          /\ UNCHANGED <<image, filtered, kids, unit>>
    /\ UNCHANGED <<kind, host, request, plan, phase>>

\* The unit may have emptied and gone since try_wait: then stop fails, and
\* cleanup returns with the child not reaped.
stop_linux_unit ==
    /\ call.op = "stop"
    /\ \/ StopUnit /\ Goto("wait", 0)
       \/ Return("control_failed") /\ UNCHANGED Processes
    /\ UNCHANGED <<kind, host, request, plan, phase, ops>>

cleanup_wait_Returns ==
    /\ call.op = "wait"
    /\ leader \in {"zombie", "reaped"}
    /\ leader' = "reaped"
    /\ Return("cleaned")
    /\ UNCHANGED <<kind, host, request, plan, phase, image, filtered, kids, unit, ops>>

\* Child::wait blocks until the child has exited, and reaps it.
cleanup_wait ==
    /\ call.op = "wait"
    /\ leader \in {"zombie", "reaped"}
    /\ leader' = "reaped"
    /\ IF kind = "direct" THEN Return("cleaned") ELSE Goto("poll", ATTEMPTS)
    /\ UNCHANGED <<kind, host, request, plan, phase, image, filtered, kids, unit, ops>>

\* systemctl show: a unit that is not loaded is "not-found"; empty output, which
\* a failing systemctl prints too, is taken for the same.
wait_linux_unit_collected ==
    /\ call.op = "poll"
    /\ \/ (unit = "collected" \/ ShowMayFail) /\ Return("cleaned")
       \/ /\ unit = "loaded"
          /\ IF call.left > 1 THEN Goto("poll", call.left - 1)
                              ELSE Return("unit_collection_timeout")
    /\ UNCHANGED <<kind, host, request, plan, phase, Processes, ops>>

-----------------------------------------------------------------------------
SandboxNext ==
    \/ NewRequest \/ prepare \/ launch
    \/ InitHelper \/ LeaderExits \/ UnitCollected
    \/ \E k \in Descendants : WorkloadForks(k) \/ DescendantExits(k) \/ NamespaceDies(k)
    \/ inspect \/ suspend \/ resume \/ terminate \/ cleanup
    \/ stop_linux_unit \/ cleanup_wait \/ wait_linux_unit_collected

\* The owner's thread runs on inside a call; the kernel and systemd do their
\* part.  The workload owes nothing.
SandboxFairness ==
    /\ WF_sandbox_vars(stop_linux_unit) /\ WF_sandbox_vars(cleanup_wait) /\ WF_sandbox_vars(wait_linux_unit_collected)
    /\ WF_sandbox_vars(UnitCollected)
    /\ \A k \in Descendants : WF_sandbox_vars(NamespaceDies(k))

SandboxSpec == SandboxInit /\ [][SandboxNext]_sandbox_vars /\ SandboxFairness

-----------------------------------------------------------------------------
\* Fail closed, from validation to the running workload: a process of the Linux
\* backend exists only on a host with every facility, with the working directory
\* inside the canonical workspace and a root-owned helper; its workload runs only
\* behind the filter, and among the paths it sees the ones it can write on the
\* host are those of the workspace, except what is mounted over it: the helper
\* and the workload, which it finds at their places.
LinuxIsConfined ==
    (kind = "linux" /\ leader # "none") =>
        /\ discover_linux_backend(host).status = "supported"
        /\ plan.backend = "linux" /\ unit # "none"
        /\ IsPrefix(request.workspace.at, request.working_directory.at)
        /\ request.trusted_helper.owner = "root"
        /\ image = "workload" => filtered
        /\ \A p \in Paths : (Seen(p).mode = "bind" /\ Seen(p).from = p)
                               <=> /\ IsPrefix(request.workspace.at, p)
                                   /\ ~IsPrefix(Helper, p) /\ ~IsPrefix(Workload, p)
        /\ Seen(Helper).from = <<"helper">> /\ Seen(Workload).from = <<"exe">>

\* A cleanup that reports success has reaped the child and, on the Linux
\* backend, left neither a process of the scope nor the scope, also where the
\* leader had already exited and its descendants had not.  It is checked with
\* ShowMayFail = FALSE: where systemctl show may fail while cleanup polls, whose
\* exit status lib.rs:763 ignores, a scope with processes counts as collected.
CleanedLeavesNothing ==
    (result = "cleaned" /\ call.op = "idle") =>
        /\ leader = "reaped"
        /\ kind = "linux" => unit = "collected" /\ NoKids

\* A cleanup that waits for the child is never stuck with one that is stopped or
\* runs on: what cleanup waits for has already been killed.
CleanupReturns == (call.op # "idle") ~> (call.op = "idle")

=============================================================================
