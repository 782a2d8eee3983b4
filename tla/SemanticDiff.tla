----------------------------- MODULE SemanticDiff -----------------------------
(***************************************************************************)
(* The semantic diff of two application checkpoints (epoch-diff): both     *)
(* sides are restored and validated, then compared section by section.     *)
(*                                                                         *)
(* A path is the sequence of its parts, "/" and "~" being parts of their   *)
(* own wherever they occur, so that two paths are equal as texts exactly   *)
(* when the sequences are.  Spelling gives the parts of an identifier,     *)
(* which may contain both.  A value is tagged with its sort.  The list of  *)
(* changes, which the code sorts by path, is the set of its members.       *)
(***************************************************************************)
EXTENDS ApplicationCheckpoint, SequencesExt

CONSTANTS
    Contexts,       \* the contexts that may be compared
    Spelling        \* identifier -> its parts

\* Two identifiers are spelt differently, and Spelling has those a context may hold;
\* the blank ones are refused.
ASSUME SpellingAssumption ==
    /\ \A id \in DOMAIN Spelling : Spelling[id] \in Seq(STRING)
    /\ IsInjective(Spelling)
    /\ \A ctx \in Contexts :
          /\ DOMAIN ctx.registry \cup ToSet(ctx.model_requests) \cup ToSet(ctx.tool_calls)
               \subseteq DOMAIN Spelling
          /\ Ids(ctx.messages) \cup Ids(ctx.tasks) \subseteq DOMAIN Spelling \cup {""}

VARIABLES
    sides,          \* the two artifacts compared, "before" and "after"
    store,          \* the blob store they are restored from
    at,             \* the side restored next, then "done"
    outcome         \* the changes, or the refusal
diff_vars == <<sides, store, at, outcome>>

Before(change) == change.before[2]
After(change) == change.after[2]

-----------------------------------------------------------------------------
(* Paths. *)

\* Where part i comes to stand when every c before it becomes two parts.
Moved(parts, c, i) == i + Cardinality({j \in 1 .. i - 1 : parts[j] = c})

\* Every c becomes the two parts of by.
Replace(parts, c, by) ==
    [k \in 1 .. Moved(parts, c, Len(parts) + 1) - 1 |->
        LET i == Max({j \in DOMAIN parts : Moved(parts, c, j) <= k})
        IN  IF parts[i] = c THEN by[k + 1 - Moved(parts, c, i)] ELSE parts[i]]

json_pointer_token_SlashFirst(id) == Replace(Replace(Spelling[id], "/", <<"~", "1">>), "~", <<"~", "0">>)

\* The tilde is escaped before the slash, whose escape contains one.
json_pointer_token(id) == Replace(Replace(Spelling[id], "~", <<"~", "0">>), "/", <<"~", "1">>)

entity_path(root, id) == <<root, "/">> \o json_pointer_token(id)

-----------------------------------------------------------------------------
(* Comparing. *)

Absent == <<"absent">>
Change(section, path, class, before, after) ==
    [section |-> section, path |-> path, class |-> class, before |-> before, after |-> after]
added(section, path, after) == Change(section, path, "added", Absent, after)
removed(section, path, before) == Change(section, path, "removed", before, Absent)

changed_value(section, path, before, after) ==
    IF before = after THEN {} ELSE {Change(section, path, "changed", before, after)}

compare_string_map(section, root, before, after) ==
    (UNION {changed_value(section, entity_path(root, id), <<"text", before[id]>>, <<"text", after[id]>>) :
               id \in DOMAIN before \cap DOMAIN after})
    \cup {removed(section, entity_path(root, id), <<"text", before[id]>>) :
              id \in DOMAIN before \ DOMAIN after}
    \cup {added(section, entity_path(root, id), <<"text", after[id]>>) :
              id \in DOMAIN after \ DOMAIN before}

Order(list) == [i \in DOMAIN list |-> list[i].id]
ById(list, id) == CHOOSE entity \in ToSet(list) : entity.id = id

\* A reorder is a change only if nothing was added or removed.
compare_stable_id_order(section, path, before, after) ==
    IF Ids(before) = Ids(after)
    THEN changed_value(section, path, <<"order", Order(before)>>, <<"order", Order(after)>>)
    ELSE {}

\* What compare_messages and compare_tasks have in common: order, then the
\* fields of the entities on both sides, then the ones on one side only.
compare_entities(section, root, fields, before, after) ==
    compare_stable_id_order(section, <<root, "/", "order">>, before, after)
    \cup (UNION {changed_value(section, entity_path(root, id) \o <<"/", f>>,
                               <<"text", ById(before, id)[f]>>, <<"text", ById(after, id)[f]>>) :
                    id \in Ids(before) \cap Ids(after), f \in fields})
    \cup {removed(section, entity_path(root, id), <<section, ById(before, id)>>) :
                   id \in Ids(before) \ Ids(after)}
    \cup {added(section, entity_path(root, id), <<section, ById(after, id)>>) :
                   id \in Ids(after) \ Ids(before)}

compare_messages(before, after) ==
    compare_entities("messages", "/messages", {"role", "hash"}, before, after)
compare_tasks(before, after) ==
    compare_entities("pending_tasks", "/pending_tasks", {"type", "hash"}, before, after)

\* Pending operations are sets: their order is not compared.
compare_id_collection(section, root, before, after) ==
    {removed(section, entity_path(root, id), <<"text", id>>) : id \in ToSet(before) \ ToSet(after)}
    \cup {added(section, entity_path(root, id), <<"text", id>>) : id \in ToSet(after) \ ToSet(before)}

Texts == {"safe_point", "model", "summary"}
Numbers == {"seed", "revision", "boundary", "message", "tool", "task"}
SectionOf(f) == CASE f \in {"safe_point", "model", "seed", "revision"} -> "application"
                  [] f = "summary" -> "memory_references" [] OTHER -> "cursors"
Tag(f) == IF f \in Texts THEN "text" ELSE "number"

compare_contexts(b, a) ==
    (UNION {changed_value(SectionOf(f), <<f>>, <<Tag(f), b[f]>>, <<Tag(f), a[f]>>) :
               f \in Texts \cup Numbers})
    \cup compare_string_map("tool_registry", "/tool_registry", b.registry, a.registry)
    \cup compare_messages(b.messages, a.messages)
    \cup compare_tasks(b.tasks, a.tasks)
    \cup compare_id_collection("pending_model_requests", "/pending_model_request_ids",
                               b.model_requests, a.model_requests)
    \cup compare_id_collection("pending_tool_calls", "/pending_tool_call_ids",
                               b.tool_calls, a.tool_calls)

-----------------------------------------------------------------------------
(* The call. *)

Refusal(side, code) ==
    [side |-> side, code |-> code,
     kind |-> IF code = "schema_version" THEN "unsupported_schema" ELSE "invalid_checkpoint"]
NoOutcome == [refused |-> {}, changes |-> {}, identical |-> FALSE]

Stored(ctx) == {ContextBlob(ctx, TRUE)} \cup {ReferenceBlob(h) : h \in context_references(ctx)}

DiffInit ==
    /\ \E b, a \in Contexts :
          /\ sides = [before |-> ArtifactOf(b), after |-> ArtifactOf(a)]
          /\ store = [blob \in Stored(b) \cup Stored(a) |-> "whole"]
    /\ at = "before" /\ outcome = NoOutcome

Undamaged == [blob \in Stored(sides.before.blob[2]) \cup Stored(sides.after.blob[2]) |-> "whole"]

\* A blob is damaged or lost meanwhile; one at most.
Damage(blob) ==
    /\ at # "done" /\ store = Undamaged
    /\ \/ store' = [store EXCEPT ![blob] = "bad"]
       \/ store' = [other \in DOMAIN store \ {blob} |-> store[other]]
    /\ UNCHANGED <<sides, at, outcome>>

\* The first side that cannot be restored is the one reported.
validated_context(side) == restore(store, sides[side])

Refuse(side) ==
    /\ at = side /\ validated_context(side) # "ok"
    /\ at' = "done"
    /\ outcome' = [NoOutcome EXCEPT !.refused = {Refusal(side, validated_context(side))}]
    /\ UNCHANGED <<sides, store>>

LoadBefore ==
    /\ at = "before" /\ validated_context("before") = "ok"
    /\ at' = "after"
    /\ UNCHANGED <<sides, store, outcome>>

diff_application_checkpoints ==
    /\ at = "after" /\ validated_context("after") = "ok"
    /\ LET changes == compare_contexts(sides.before.blob[2], sides.after.blob[2])
       IN  outcome' = [refused |-> {}, changes |-> changes, identical |-> changes = {}]
    /\ at' = "done"
    /\ UNCHANGED <<sides, store>>

DiffNext ==
    \/ \E blob \in DOMAIN store : Damage(blob)
    \/ \E side \in {"before", "after"} : Refuse(side)
    \/ LoadBefore \/ diff_application_checkpoints

DiffSpec == DiffInit /\ [][DiffNext]_diff_vars

-----------------------------------------------------------------------------
ChangesAt(path) == {c \in outcome.changes : c.path = path}

\* What a reader that looks changes up by path makes of one value, and of
\* whether an entity is there.
ValueAfter(path, tag, v) ==
    IF ChangesAt(path) = {} THEN <<tag, v>> ELSE (CHOOSE c \in ChangesAt(path) : TRUE).after
ThereAfter(path, there) ==
    \/ there /\ ~\E c \in ChangesAt(path) : c.class = "removed"
    \/ \E c \in ChangesAt(path) : c.class = "added"

ListFollows(section, root, fields, b, a) ==
    /\ \A id \in DOMAIN Spelling :
          /\ ThereAfter(entity_path(root, id), id \in Ids(b)) <=> id \in Ids(a)
          /\ id \in Ids(a) \ Ids(b) =>
                ValueAfter(entity_path(root, id), section, <<>>) = <<section, ById(a, id)>>
          /\ id \in Ids(a) \cap Ids(b) => \A f \in fields :
                ValueAfter(entity_path(root, id) \o <<"/", f>>, "text", ById(b, id)[f])
                  = <<"text", ById(a, id)[f]>>
    /\ Ids(a) = Ids(b) => ValueAfter(<<root, "/", "order">>, "order", Order(b)) = <<"order", Order(a)>>

SetFollows(root, b, a) ==
    \A id \in DOMAIN Spelling : ThereAfter(entity_path(root, id), id \in ToSet(b)) <=> id \in ToSet(a)

\* A diff tells all of it: every path occurs once, and a reader that has the
\* context before and looks the changes up by path gets the context after --
\* its fields, registry, messages, tasks, pending operations, and the order of
\* messages and tasks when the same ones are on both sides -- whatever slashes,
\* tildes or section names the identifiers contain.  A diff is refused instead
\* when either side does not restore.
DiffDeterminesAfter ==
    (at = "done" /\ outcome.refused = {}) =>
        LET b == sides.before.blob[2]
            a == sides.after.blob[2]
        IN  /\ \A c, d \in outcome.changes : c.path = d.path => c = d
            /\ \A f \in Texts \cup Numbers : ValueAfter(<<f>>, Tag(f), b[f]) = <<Tag(f), a[f]>>
            /\ \A id \in DOMAIN Spelling :
                  LET path == entity_path("/tool_registry", id) IN
                  /\ ThereAfter(path, id \in DOMAIN b.registry) <=> id \in DOMAIN a.registry
                  /\ id \in DOMAIN a.registry =>
                        ValueAfter(path, "text", IF id \in DOMAIN b.registry THEN b.registry[id] ELSE "")
                          = <<"text", a.registry[id]>>
            /\ ListFollows("messages", "/messages", {"role", "hash"}, b.messages, a.messages)
            /\ ListFollows("pending_tasks", "/pending_tasks", {"type", "hash"}, b.tasks, a.tasks)
            /\ SetFollows("/pending_model_request_ids", b.model_requests, a.model_requests)
            /\ SetFollows("/pending_tool_call_ids", b.tool_calls, a.tool_calls)
=============================================================================
