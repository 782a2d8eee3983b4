------------------------------ MODULE Workspace ------------------------------
(***************************************************************************)
(* Workspace snapshots (epoch-workspace): one capture of a tree that a     *)
(* writer may still be changing, and restorers that build a private        *)
(* staging tree and rename it to the same target directory.                *)
(*                                                                         *)
(* A path is the sequence of its components, a file's content the sequence *)
(* of its bytes, and a blob is named by its content.  An entry is          *)
(* [kind, mode, exec, data] where data is a file's content or a link's     *)
(* target components.  The writer gives every change of a file a new       *)
(* stamp, which stands for (dev, ino, mtime).                              *)
(***************************************************************************)
EXTENDS Integers, FiniteSets, Sequences, SequencesExt

CONSTANTS
    Sources,      \* the trees a capture may start from
    Sorted,       \* every path, in the byte order of its text
    BlobRoot,     \* the path of the managed blob store, if nested in the tree
    Contents,     \* what the writer may write
    Foreign,      \* manifests stored by something else than this capture
    Restorers,    \* processes calling restore
    Spellings,    \* path texts that name the one target directory
    MaxEntries, MaxFileBytes, MaxTotalBytes, MaxDepth,   \* WorkspaceLimits
    MaxWrites,    \* bound: changes of the source during the capture
    MaxLosses     \* bound: blobs lost, restorers killed

VARIABLES
    source,       \* path -> entry with its stamp and presence
    writes,       \* number of writer steps
    held,         \* history: path -> contents the file had during the capture
    cap,          \* the capture: [phase, todo, entries, total, seen, buf]
    blobs,        \* file contents readable in the blob store
    losses,       \* number of blob losses and kills
    target,       \* the target directory: NoTree or a tree
    locks,        \* spelling -> the restorer whose lock file exists, or None
    rest,         \* restorer -> [pc, as, man, staged, result]
    winners       \* history: restorers whose rename took place

\* validate_limits, which opening a backend demands.
validate_limits ==
    /\ {MaxEntries, MaxFileBytes, MaxTotalBytes, MaxDepth} \subseteq Nat \ {0}
    /\ MaxFileBytes <= MaxTotalBytes

ASSUME LimitsAssumption == validate_limits

Byte == 0..255

\* A directory lists a name once.
ASSUME SortedAssumption ==
    /\ Sorted \in Seq(Range(Sorted))
    /\ \A i, j \in DOMAIN Sorted : Sorted[i] = Sorted[j] => i = j
ASSUME ContentsAssumption == Contents \subseteq Seq(Byte)
ASSUME SourcesAssumption ==
    \A t \in Sources : \A p \in DOMAIN t :
        /\ DOMAIN t[p] = {"kind", "mode", "data", "stamp", "present"}
        /\ t[p].stamp = 0
        /\ t[p].kind = "file" => t[p].data \in Seq(Byte)
ASSUME ForeignAssumption == \A man \in Foreign : man.entries \in Seq(Range(man.entries))

None == "none"
ASSUME RestorersAssumption == None \notin Restorers

vars == <<source, writes, held, cap, blobs, losses, target, locks, rest, winners>>

NoTree == [made |-> FALSE]
Modes == {"r", "rw", "rwx"}          \* permission bits below 0o1000
Private == "rwx"                     \* 0o700 and 0o600 while staging

-----------------------------------------------------------------------------
(* Paths, modes and limits. *)

PathParent(p) == SubSeq(p, 1, Len(p) - 1)

\* The order of two paths' texts.
Before(p, q) == \E i, j \in DOMAIN Sorted : i < j /\ Sorted[i] = p /\ Sorted[j] = q

\* Mode bits outside 0o777 (set-user-id and the like) are masked on capture
\* and refused in a manifest.
metadata_mode(mode) == IF mode = "suid" THEN "rwx" ELSE mode
validate_mode(mode) == mode \in Modes
Executable(mode) == mode = "rwx"

\* The depth below the root after each component of a link's target, read
\* from the directory of the link; going above the root is an escape.
validate_symlink_target(link, to) ==
    LET step(depth, c) == CASE depth = -1 -> -1
                            [] c = ".epoch" -> -1
                            [] c \in {"", "."} -> depth
                            [] c = ".." -> depth - 1
                            [] OTHER -> depth + 1
    IN  /\ to # <<>> /\ to[1] # "/"
        /\ FoldLeft(step, Len(link) - 1, to) # -1

validate_manifest_path(p) ==
    /\ p # <<>>
    /\ \A i \in DOMAIN p : p[i] \notin {"", ".", "..", ".epoch", "/"}
    /\ Len(p) <= MaxDepth

TotalBytes(entries) ==
    FoldLeft(LAMBDA n, e : IF e.kind = "file" THEN n + Len(e.data) ELSE n, 0, entries)

\* What restore and snapshot both demand of a manifest: modes, sizes, strictly
\* ascending paths, an executable bit that agrees with the mode, links that
\* stay inside, and every parent present as a directory.
validate_manifest(man) ==
    LET es == man.entries
        PathAt(i) == es[i].path
    IN  /\ validate_mode(man.root)
        /\ Len(es) <= MaxEntries
        /\ \A i \in DOMAIN es :
            /\ validate_manifest_path(PathAt(i))
            /\ i > 1 => Before(PathAt(i - 1), PathAt(i))
            /\ es[i].kind # "link" => validate_mode(es[i].mode)
            /\ es[i].kind = "file" =>
                 /\ es[i].exec = Executable(es[i].mode)
                 /\ Len(es[i].data) <= MaxFileBytes
            /\ es[i].kind = "link" => validate_symlink_target(PathAt(i), es[i].data)
            /\ Len(PathAt(i)) > 1 =>
                 \E j \in DOMAIN es : PathAt(j) = PathParent(PathAt(i)) /\ es[j].kind = "dir"
        /\ TotalBytes(es) <= MaxTotalBytes

-----------------------------------------------------------------------------
(* The source tree and its writer. *)

Present(p) == p \in DOMAIN source /\ source[p].present

\* The children of a directory in the order the walk visits them.  Siblings
\* sort by name, so a directory's subtree comes before its next sibling even
\* where the text of the paths sorts the other way round.
Children(dir) ==
    SelectSeq(Sorted, LAMBDA p : Len(p) = Len(dir) + 1 /\ PathParent(p) = dir /\ Present(p))

Capturing == cap.phase \in {"walk", "open", "read"}

\* The agent, or anything it left running, rewrites a file or removes it.
WriteFile(p, c) ==
    /\ Capturing /\ writes < MaxWrites
    /\ Present(p) /\ source[p].kind = "file" /\ source[p].data # c
    /\ source' = [source EXCEPT ![p].data = c, ![p].stamp = writes + 1]
    /\ held' = [held EXCEPT ![p] = @ \cup {c}]
    /\ writes' = writes + 1
    /\ UNCHANGED <<cap, blobs, losses, target, locks, rest, winners>>

RemoveFile(p) ==
    /\ Capturing /\ writes < MaxWrites
    /\ Present(p) /\ source[p].kind = "file"
    /\ source' = [source EXCEPT ![p].present = FALSE]
    /\ writes' = writes + 1
    /\ UNCHANGED <<held, cap, blobs, losses, target, locks, rest, winners>>

-----------------------------------------------------------------------------
(* The capture. *)

CaptureRest == <<source, writes, held, losses, target, locks, rest, winners>>

\* snapshot: the root must be a real directory that is not inside the store.
snapshot(root) ==
    /\ cap.phase = "idle"
    /\ cap' = IF root = "dir"
              THEN [cap EXCEPT !.phase = "walk", !.todo = Children(<<>>)]
              ELSE [cap EXCEPT !.phase = "failed"]
    /\ UNCHANGED <<blobs, CaptureRest>>

CaptureFails == cap' = [cap EXCEPT !.phase = "failed", !.entries = <<>>]

Entry(p, kind, mode, data) ==
    [path |-> p, kind |-> kind, mode |-> mode, exec |-> kind = "file" /\ Executable(mode),
     data |-> data]

\* walk, for a name that is skipped, a directory, a link or an unsupported
\* file; a directory's children are listed when it is visited.
WalkEntry ==
    /\ cap.phase = "walk" /\ cap.todo # <<>>
    /\ LET p == Head(cap.todo)
           rec == Entry(p, source[p].kind, metadata_mode(source[p].mode), source[p].data)
           after == [cap EXCEPT !.todo = Tail(@)]
           full == Len(cap.entries) + 1 > MaxEntries
       IN CASE Last(p) = ".epoch" -> cap' = after
            [] Last(p) # ".epoch" /\ Len(p) > MaxDepth -> CaptureFails
            [] Last(p) # ".epoch" /\ Len(p) <= MaxDepth /\ p = BlobRoot -> cap' = after
            [] OTHER ->
                 \/ /\ ~Present(p) \/ full \/ source[p].kind = "fifo"
                    /\ CaptureFails
                 \/ /\ Present(p) /\ ~full /\ source[p].kind = "dir"
                    /\ cap' = [after EXCEPT !.entries = Append(@, rec),
                                            !.todo = Children(p) \o @]
                 \/ /\ Present(p) /\ ~full /\ source[p].kind = "link"
                    /\ IF validate_symlink_target(p, source[p].data)
                       THEN cap' = [after EXCEPT !.entries = Append(@, rec)]
                       ELSE CaptureFails
                 \/ /\ Present(p) /\ ~full /\ source[p].kind = "file"
                    /\ IF Len(source[p].data) <= MaxFileBytes
                       THEN cap' = [cap EXCEPT !.phase = "open", !.seen = source[p].stamp,
                                               !.size = Len(source[p].data)]
                       ELSE CaptureFails
    /\ UNCHANGED <<blobs, CaptureRest>>

same_file(p) == source[p].stamp = cap.seen /\ Len(source[p].data) = cap.size

\* read_regular_file, the open: the path may be gone, or name other contents
\* than the ones that were observed.
OpenFile ==
    /\ cap.phase = "open"
    /\ LET p == Head(cap.todo)
       IN IF Present(p) /\ same_file(p)
          THEN cap' = [cap EXCEPT !.phase = "read", !.buf = <<>>]
          ELSE CaptureFails
    /\ UNCHANGED <<blobs, CaptureRest>>

\* One read call returns some of the bytes the file has now; a file that is
\* unlinked stays readable.
ReadSome ==
    /\ cap.phase = "read"
    /\ LET p == Head(cap.todo)
       IN /\ Len(cap.buf) < Len(source[p].data) /\ Len(cap.buf) < MaxFileBytes + 1
          /\ cap' = [cap EXCEPT !.buf = Append(@, source[p].data[Len(@) + 1])]
    /\ UNCHANGED <<blobs, CaptureRest>>

ReadEnds_NoRecheck ==
    /\ cap.phase = "read"
    /\ LET p == Head(cap.todo)
       IN /\ Len(cap.buf) >= Len(source[p].data)
          /\ cap' = [cap EXCEPT !.phase = "walk", !.todo = Tail(@), !.total = @ + Len(cap.buf),
                 !.entries = Append(@, Entry(p, "file", metadata_mode(source[p].mode), cap.buf))]
    /\ blobs' = blobs \cup {cap.buf}
    /\ UNCHANGED CaptureRest

\* End of file: limits, the second look at the metadata, and the blob.
ReadEnds ==
    /\ cap.phase = "read"
    /\ LET p == Head(cap.todo)
           n == Len(cap.buf)
       IN /\ n >= Len(source[p].data) \/ n = MaxFileBytes + 1
          /\ IF /\ n <= MaxFileBytes
                /\ same_file(p) /\ Len(source[p].data) = n
                /\ cap.total + n <= MaxTotalBytes
             THEN /\ cap' = [cap EXCEPT !.phase = "walk", !.todo = Tail(@), !.total = @ + n,
                        !.entries = Append(@, Entry(p, "file", metadata_mode(source[p].mode), cap.buf))]
                  /\ blobs' = blobs \cup {cap.buf}
             ELSE CaptureFails /\ UNCHANGED blobs
    /\ UNCHANGED CaptureRest

\* The ways to put n entries in another order.
Orders(n) == {pi \in [1..n -> 1..n] : \A i, j \in 1..n : pi[i] = pi[j] => i = j}

\* The tail of snapshot: sort by path, validate the manifest, store it.  The
\* walk order is not the order of the paths' texts.
SnapshotEnds ==
    /\ cap.phase = "walk" /\ cap.todo = <<>>
    /\ \E pi \in Orders(Len(cap.entries)) :
       LET es == [i \in DOMAIN pi |-> cap.entries[pi[i]]] IN
       /\ \A i, j \in DOMAIN es : i < j => Before(es[i].path, es[j].path)
       /\ IF validate_manifest([schema |-> 1, root |-> "rwx", canonical |-> TRUE, entries |-> es])
          THEN cap' = [cap EXCEPT !.phase = "stored", !.entries = es]
          ELSE CaptureFails
    /\ UNCHANGED <<blobs, CaptureRest>>

-----------------------------------------------------------------------------
(* Restoring. *)

Captured == [schema |-> 1, root |-> "rwx", canonical |-> TRUE, entries |-> cap.entries]

\* manifest: the schema version, a canonical encoding and a valid content.
manifest(man) == man.schema = 1 /\ man.canonical /\ validate_manifest(man)

Regular(man) == {i \in DOMAIN man.entries : man.entries[i].kind = "file"}

\* prepare_files: every referenced blob is read before anything is created.
prepare_files(man) == \A i \in Regular(man) : man.entries[i].data \in blobs

\* validate: what restore demands of a snapshot before it touches the target.
validate(man) == manifest(man) /\ prepare_files(man)

\* Directories are built first, by depth, then everything else in manifest order.
BuiltBefore(a, b) ==
    \/ a.kind = "dir" /\ (b.kind # "dir" \/ Len(a.path) < Len(b.path))
    \/ /\ (a.kind = "dir") = (b.kind = "dir")
       /\ a.kind = "dir" => Len(a.path) = Len(b.path)
       /\ Before(a.path, b.path)

\* What a directory holding exactly the manifest looks like.
TreeOf(man) ==
    [made |-> TRUE, root |-> man.root,
     has |-> {[path |-> man.entries[i].path, kind |-> man.entries[i].kind,
               mode |-> man.entries[i].mode, data |-> man.entries[i].data]
              : i \in DOMAIN man.entries}]

Empty(tree) == tree.made /\ tree.has = {}

Goes(r, pc) == rest' = [rest EXCEPT ![r].pc = pc]
Returns(r, result) == rest' = [rest EXCEPT ![r].pc = "done", ![r].result = result]
Fails(r, result) == rest' = [rest EXCEPT ![r].pc = "clean", ![r].result = result]
RestoreRest == <<source, writes, held, cap, blobs, losses>>

\* restore_with_fault up to validate_restore_target: nothing is created yet.
RestoreBegins(r, s, man) ==
    /\ rest[r].pc = "idle" /\ cap.phase \in {"stored", "failed"}
    /\ CASE ~validate(man) -> Returns(r, "invalid")
         [] validate(man) /\ target.made -> Returns(r, "exists")
         [] OTHER -> rest' = [rest EXCEPT ![r].pc = "lock", ![r].as = s, ![r].man = man]
    /\ UNCHANGED <<RestoreRest, target, locks, winners>>

RestoreLock_acquire_Ignored(r) ==
    /\ rest[r].pc = "lock"
    /\ locks' = [locks EXCEPT ![rest[r].as] = r]
    /\ Goes(r, "stage")
    /\ UNCHANGED <<RestoreRest, target, winners>>

\* RestoreLock::acquire creates the lock file of this spelling of the target.
RestoreLock_acquire(r) ==
    /\ rest[r].pc = "lock"
    /\ IF locks[rest[r].as] = None
       THEN locks' = [locks EXCEPT ![rest[r].as] = r] /\ Goes(r, "stage")
       ELSE Returns(r, "exists") /\ UNCHANGED locks
    /\ UNCHANGED <<RestoreRest, target, winners>>

\* The target is looked at again under the lock, and staging is created.
CreateStaging(r) ==
    /\ rest[r].pc = "stage"
    /\ IF target.made
       THEN Fails(r, "exists")
       ELSE rest' = [rest EXCEPT ![r].pc = "build",
               ![r].staged = [made |-> TRUE, root |-> Private, has |-> {}],
               ![r].todo = Range(rest[r].man.entries)]
    /\ UNCHANGED <<RestoreRest, target, locks, winners>>

\* One entry: directories stay private until everything is written, a file
\* gets its mode at once.  Creating it needs its parent, still writable.
CreateEntry(r) ==
    /\ rest[r].pc = "build"
    /\ \E e \in rest[r].todo :
       LET dirs == {x \in rest[r].staged.has : x.kind = "dir"}
           room == Len(e.path) = 1 \/ \E x \in dirs : x.path = PathParent(e.path) /\ x.mode # "r"
           new == [path |-> e.path, kind |-> e.kind, data |-> e.data,
                   mode |-> IF e.kind = "dir" THEN Private ELSE e.mode]
       IN /\ \A f \in rest[r].todo \ {e} : BuiltBefore(e, f)
          /\ IF room
             THEN rest' = [rest EXCEPT ![r].staged.has = @ \cup {new}, ![r].todo = @ \ {e}]
             ELSE Fails(r, "io")
    /\ UNCHANGED <<RestoreRest, target, locks, winners>>

\* After the tree is synced: the last look at the target.
CheckTarget(r) ==
    /\ rest[r].pc = "build" /\ rest[r].todo = {}
    /\ IF target.made THEN Fails(r, "exists") ELSE Goes(r, "modes")
    /\ UNCHANGED <<RestoreRest, target, locks, winners>>

\* Directories get their modes deepest first, the root last, so that none is
\* closed before what lies below it; then every handle is synced.
ApplyModes(r) ==
    /\ rest[r].pc = "modes"
    /\ LET es == rest[r].man.entries
           mode(x) == (CHOOSE i \in DOMAIN es : es[i].path = x.path)
       IN rest' = [rest EXCEPT ![r].pc = "rename",
             ![r].staged.root = rest[r].man.root,
             ![r].staged.has = {[x EXCEPT !.mode = es[mode(x)].mode] : x \in @}]
    /\ UNCHANGED <<RestoreRest, target, locks, winners>>

\* rename(2) replaces an empty directory and refuses any other.
Publish(r) ==
    /\ rest[r].pc = "rename"
    /\ IF target.made /\ ~Empty(target)
       THEN Fails(r, "exists") /\ UNCHANGED <<target, winners>>
       ELSE /\ target' = rest[r].staged
            /\ winners' = winners \cup {r}
            /\ rest' = [rest EXCEPT ![r].pc = "sync", ![r].staged = NoTree]
    /\ UNCHANGED <<RestoreRest, locks>>

\* The parent is synced; an error is returned although the target stands.
SyncParent(r, ok) ==
    /\ rest[r].pc = "sync"
    /\ rest' = [rest EXCEPT ![r].pc = "unlock", ![r].result = IF ok THEN "ok" ELSE "io"]
    /\ UNCHANGED <<RestoreRest, target, locks, winners>>

\* An injected fault or an I/O error at any step that works on staging.
RestoreError(r) ==
    /\ rest[r].pc \in {"build", "modes", "rename"}
    /\ Fails(r, "io")
    /\ UNCHANGED <<RestoreRest, target, locks, winners>>

make_tree_removable_AsIs(tree) == tree

\* Cleaning up first gives the owner access to everything that was staged:
\* a directory may already have a final mode that forbids removing entries.
make_tree_removable(tree) ==
    IF tree.made
    THEN [tree EXCEPT !.root = Private,
             !.has = {IF x.kind = "link" THEN x ELSE [x EXCEPT !.mode = Private] : x \in @}]
    ELSE tree

remove_dir_all(tree) ==
    IF tree.made /\ (tree.root = "r" \/ \E x \in tree.has : x.kind = "dir" /\ x.mode = "r")
    THEN tree ELSE NoTree

\* The guards run in reverse order of declaration: first the staging tree is
\* removed (a failure to do so is ignored), then the lock file.
StagingGuard_drop(r) ==
    /\ rest[r].pc = "clean"
    /\ rest' = [rest EXCEPT ![r].pc = "unlock",
                            ![r].staged = remove_dir_all(make_tree_removable(@))]
    /\ UNCHANGED <<RestoreRest, target, locks, winners>>

RestoreLock_drop(r) ==
    /\ rest[r].pc = "unlock"
    /\ locks' = [locks EXCEPT ![rest[r].as] = None]
    /\ Goes(r, "done")
    /\ UNCHANGED <<RestoreRest, target, winners>>

\* A kill leaves the lock file and the staging tree behind.
Kill(r) ==
    /\ rest[r].pc \notin {"idle", "done", "dead"} /\ losses < MaxLosses
    /\ losses' = losses + 1
    /\ Goes(r, "dead")
    /\ UNCHANGED <<source, writes, held, cap, blobs, target, locks, winners>>

\* The operator removes the lock file of a restore that was killed.
OperatorUnlocks(s) ==
    /\ locks[s] # None /\ rest[locks[s]].pc = "dead"
    /\ locks' = [locks EXCEPT ![s] = None]
    /\ UNCHANGED <<RestoreRest, target, rest, winners>>

\* A blob is lost or no longer matches its hash.
LoseBlob(c) ==
    /\ cap.phase = "stored" /\ losses < MaxLosses
    /\ blobs' = blobs \ {c} /\ c \in blobs
    /\ losses' = losses + 1
    /\ UNCHANGED <<source, writes, held, cap, target, locks, rest, winners>>

-----------------------------------------------------------------------------
Init ==
    /\ \E t \in Sources : source = t
    /\ writes = 0
    /\ held = [p \in DOMAIN source |-> IF source[p].kind = "file" THEN {source[p].data} ELSE {}]
    /\ cap = [phase |-> "idle", todo |-> <<>>, entries |-> <<>>, total |-> 0,
              seen |-> 0, size |-> 0, buf |-> <<>>]
    /\ blobs = {} /\ losses = 0 /\ target = NoTree
    /\ locks = [s \in Spellings |-> None]
    /\ rest = [r \in Restorers |-> [pc |-> "idle", as |-> None, man |-> None,
                                    staged |-> NoTree, todo |-> {}, result |-> None]]
    /\ winners = {}

Manifests == Foreign \cup (IF cap.phase = "stored" THEN {Captured} ELSE {})

RestoreStep(r) ==
    \/ \E s \in Spellings, man \in Manifests : RestoreBegins(r, s, man)
    \/ RestoreLock_acquire(r) \/ CreateStaging(r) \/ CreateEntry(r) \/ CheckTarget(r)
    \/ ApplyModes(r) \/ Publish(r) \/ (\E ok \in BOOLEAN : SyncParent(r, ok))
    \/ RestoreError(r) \/ StagingGuard_drop(r) \/ RestoreLock_drop(r) \/ Kill(r)

Next ==
    \/ \E root \in {"dir", "link", "inside store"} : snapshot(root)
    \/ WalkEntry \/ OpenFile \/ ReadSome \/ ReadEnds \/ SnapshotEnds
    \/ \E p \in DOMAIN source : RemoveFile(p) \/ \E c \in Contents : WriteFile(p, c)
    \/ \E r \in Restorers : RestoreStep(r)
    \/ \E s \in Spellings : OperatorUnlocks(s)
    \/ \E c \in blobs : LoseBlob(c)

Spec == Init /\ [][Next]_vars

-----------------------------------------------------------------------------
(* Properties. *)

\* A snapshot that was stored can be restored (its manifest passes the checks
\* restore makes, so the walk order was sorted away and no limit of restore is
\* tighter than one of snapshot), and every file in it is one the source held
\* during the capture, never a mix of two writes.
SnapshotIsFaithful ==
    cap.phase = "stored" =>
      /\ manifest(Captured)
      /\ \A i \in Regular(Captured) :
            Captured.entries[i].data \in held[Captured.entries[i].path]

\* The target is absent or holds exactly one manifest with its final modes:
\* whatever failed or was killed, no partly built tree is visible.  And of the
\* restorers of one target one at most publishes, the empty workspace included,
\* which rename alone would let be replaced.
PublishedIsComplete ==
    /\ target.made => \E r \in winners : target = TreeOf(rest[r].man)
    /\ Cardinality(winners) <= 1

\* A restore that returned left no staging tree and no lock file, and said ok
\* only if its own tree was published.
ReturnsLeaveNothing ==
    \A r \in Restorers : rest[r].pc = "done" =>
      /\ rest[r].staged = NoTree
      /\ \A s \in Spellings : locks[s] # r
      /\ rest[r].result = "ok" => r \in winners
=============================================================================
