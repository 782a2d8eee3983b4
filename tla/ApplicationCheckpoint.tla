------------------------ MODULE ApplicationCheckpoint ------------------------
(***************************************************************************)
(* The application checkpoint backend (epoch-checkpoint): what capture and *)
(* restore accept, as operators over a context and the blob store.         *)
(*                                                                         *)
(* The store is a function from the blobs on disk to "whole" or "bad".  A  *)
(* blob is named by what it holds, so a hash is the value it is taken of.  *)
(* A context is a record of the fields below; a text is abstracted to a    *)
(* member of a small set in which "" stands for a blank or oversized one.  *)
(***************************************************************************)
EXTENDS Naturals, Sequences, FiniteSets

CONSTANT MaxInteger     \* SQLite's largest signed integer

SchemaVersion == 1

\* The encoding of a context as a stored blob.
ContextBlob(ctx, canonical) == <<"ctx", ctx, canonical>>

Ids(list) == {list[i].id : i \in DOMAIN list}
unique_ids(list) == Cardinality(Ids(list)) = Len(list)

\* Integers fit SQLite, identifiers are not blank, and no list names an
\* identifier twice.
validate_context_shape(ctx) ==
    /\ ctx.safe_point # ""
    /\ {ctx.seed, ctx.revision, ctx.boundary, ctx.message, ctx.tool, ctx.task}
         \subseteq 0 .. MaxInteger
    /\ unique_ids(ctx.messages) /\ "" \notin Ids(ctx.messages)
    /\ unique_ids(ctx.tasks) /\ "" \notin Ids(ctx.tasks)

\* Every blob the context points at: message contents, task payloads and the
\* summary shown to the user.
context_references(ctx) ==
    {ctx.messages[i].hash : i \in DOMAIN ctx.messages}
      \cup ({ctx.tasks[i].hash : i \in DOMAIN ctx.tasks} \ {"none"})
      \cup ({ctx.summary} \ {"none"})

ReferenceBlob(h) == <<"ref", h>>

validate_references(disk, ctx) ==
    LET refs == {ReferenceBlob(h) : h \in context_references(ctx)}
    IN  IF ~(refs \subseteq DOMAIN disk) THEN "missing_reference"
        ELSE IF \E h \in refs : disk[h] = "bad" THEN "integrity"
        ELSE "ok"

\* Checks shared by capture and restore once the schema version is known.
ContextCode(disk, ctx) ==
    IF ~validate_context_shape(ctx) THEN "invalid_context" ELSE validate_references(disk, ctx)

capture(disk, ctx) ==
    IF ctx.schema # SchemaVersion THEN "schema_version"
    ELSE IF ContextCode(disk, ctx) # "ok" THEN ContextCode(disk, ctx)
    ELSE IF ContextBlob(ctx, TRUE) \in DOMAIN disk /\ disk[ContextBlob(ctx, TRUE)] = "bad"
    THEN "storage" ELSE "ok"

\* The artifact names a blob and repeats three fields of the context in it.
ArtifactOf(ctx) == [blob |-> ContextBlob(ctx, TRUE), schema |-> ctx.schema,
                    safe_point |-> ctx.safe_point, revision |-> ctx.revision,
                    boundary |-> ctx.boundary]

restore(disk, art) ==
    LET ctx == art.blob[2]
    IN  IF art.schema # SchemaVersion THEN "schema_version"
        ELSE IF art.blob \notin DOMAIN disk THEN "storage"
        ELSE IF disk[art.blob] = "bad" THEN "integrity"
        ELSE IF ctx.schema # SchemaVersion THEN "schema_version"
        ELSE IF ContextCode(disk, ctx) # "ok" THEN ContextCode(disk, ctx)
        ELSE IF ~art.blob[3] THEN "non_canonical"
        ELSE IF <<art.safe_point, art.revision, art.boundary>>
                  # <<ctx.safe_point, ctx.revision, ctx.boundary>> THEN "metadata_mismatch"
        ELSE "ok"
=============================================================================
