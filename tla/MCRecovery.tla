------------------------------ MODULE MCRecovery ------------------------------
EXTENDS Recovery, TLC

\* The processes that call the supervisor are told apart by nothing.
ProcSymmetry == Permutations(Procs)

State == [seed |-> 7, tools |-> <<"t">>]
Ctx(schema, hash) ==
    [schema |-> schema, safe_point |-> "sp", seed |-> 7, revision |-> 1, boundary |-> 4,
     message |-> 2, tool |-> 1, task |-> 1, registry |-> {"t"},
     messages |-> <<[id |-> "m", hash |-> hash]>>, tasks |-> <<>>, summary |-> "none"]

Ev(kind, seq, data) == [kind |-> kind, seq |-> seq, data |-> data]
Started == Ev("run_started", 0, [x |-> 0])
Response == Ev("model.response", 1, [x |-> 0])
Result == Ev("tool.result", 2, [x |-> 0])
Update == Ev("context.update", 3, [hash |-> State, revision |-> 1])
Safe == Ev("safe_point", 4, [hash |-> State, id |-> "sp"])
Stderr(ctx, count) ==
    Ev("process.stderr", 0, [summary |-> TRUE, state |-> State, state_hash |-> State,
                             event_count |-> count, ctx |-> ctx])
Noise == Ev("process.stderr", 0, [summary |-> FALSE])

Good == <<Started, Result, Response, Update, Safe, Stderr(Ctx(1, "h"), 6)>>
Run(events, ends, refs, taken) ==
    [events |-> events, ends |-> ends, refs |-> refs, taken |-> taken]

MCScripts == { Run(Good, "completed", {"h"}, {}), Run(Good, "failed", {"h"}, {}),
               Run(Good, "completed", {"h"}, {ContextBlob(Ctx(1, "h"), TRUE)}),
               Run(Good, "completed", {}, {}),
               Run(<<Started, Safe, Update, Stderr(Ctx(1, "h"), 6)>>, "completed", {"h"}, {}),
               Run(<<Started, Update, Safe, Stderr(Ctx(1, "h"), 5)>>, "completed", {"h"}, {}),
               Run(<<Started, Update, Safe, Stderr(Ctx(2, "h"), 6)>>, "completed", {"h"}, {}),
               Run(<<Update, Safe, Stderr(Ctx(1, "h"), 6)>>, "completed", {"h"}, {}),
               Run(<<Started, Noise>>, "completed", {"h"}, {}) }
=============================================================================
