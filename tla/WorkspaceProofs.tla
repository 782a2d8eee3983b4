--------------------------- MODULE WorkspaceProofs ---------------------------
(***************************************************************************)
(* Proofs about Workspace, for any source trees, contents, manifests,      *)
(* limits and restorers.                                                   *)
(***************************************************************************)
EXTENDS Workspace, FiniteSetTheorems, WellFoundedInduction, TLAPS

IsSequence(s) == s \in Seq(Range(s))

-----------------------------------------------------------------------------
(* The capture. *)

\* The tree: a file's bytes now are among those it had, and the stamps of the
\* writer never run ahead of it.
SourceInv ==
    /\ writes \in Nat
    /\ DOMAIN held = DOMAIN source
    /\ \A p \in DOMAIN source :
        /\ DOMAIN source[p] = {"kind", "mode", "data", "stamp", "present"}
        /\ source[p].stamp \in 0..writes
        /\ source[p].kind = "file" => source[p].data \in Seq(Byte) /\ source[p].data \in held[p]

\* An entry that is a file names bytes the file had.
EntryIsFaithful(e) == e.kind = "file" => e.path \in DOMAIN source /\ e.data \in held[e.path]

\* Between the first look at a file and the last, as long as the stamp is the
\* one seen, what was read is how the file begins.
ReadInv ==
    /\ cap.phase \in {"open", "read"} =>
          /\ Head(cap.todo) \in DOMAIN source
          /\ source[Head(cap.todo)].kind = "file"
          /\ cap.seen \in 0..writes
    /\ cap.phase = "read" =>
          /\ cap.buf \in Seq(Byte)
          /\ source[Head(cap.todo)].stamp = cap.seen =>
                \A k \in 1..Len(cap.buf) :
                    k <= Len(source[Head(cap.todo)].data) =>
                        cap.buf[k] = source[Head(cap.todo)].data[k]

CaptureInv ==
    /\ SourceInv
    /\ DOMAIN cap = {"phase", "todo", "entries", "total", "seen", "size", "buf"}
    /\ IsSequence(cap.entries)
    /\ \A i \in DOMAIN cap.entries : EntryIsFaithful(cap.entries[i])
    /\ ReadInv
    /\ cap.phase = "stored" => manifest(Captured)

\* Appending to a sequence.
LEMMA AppendIsSequence ==
  ASSUME NEW s, IsSequence(s), NEW x
  PROVE  /\ IsSequence(Append(s, x)) /\ Len(s) \in Nat
         /\ DOMAIN s = 1..Len(s) /\ DOMAIN Append(s, x) = 1..(Len(s) + 1)
         /\ \A i \in DOMAIN s : Append(s, x)[i] = s[i]
         /\ Append(s, x)[Len(s) + 1] = x
<1> DEFINE T == Range(s) \cup {x}
           t == Append(s, x)
<1>1. s \in Seq(T)
  BY DEF IsSequence
<1>2. /\ t \in Seq(T) /\ Len(s) \in Nat /\ DOMAIN s = 1..Len(s) /\ DOMAIN t = 1..(Len(s) + 1)
      /\ \A i \in DOMAIN s : t[i] = s[i]
      /\ t[Len(s) + 1] = x
  BY <1>1
<1>3. \A i \in DOMAIN t : t[i] \in Range(t)
  BY DEF Range
<1>4. t \in Seq(Range(t))
  <2> HIDE DEF t
  <2> QED
    BY <1>2, <1>3
<1> QED
  BY <1>2, <1>4 DEF IsSequence

\* What one step of the writer does to the tree.
LEMMA WriterDoes ==
  ASSUME SourceInv, NEW p \in DOMAIN source,
         RemoveFile(p) \/ \E c \in Contents : WriteFile(p, c)
  PROVE  /\ DOMAIN source' = DOMAIN source /\ DOMAIN held' = DOMAIN source
         /\ writes \in Nat /\ writes' = writes + 1
         /\ \A q \in DOMAIN source :
             /\ DOMAIN source'[q] = {"kind", "mode", "data", "stamp", "present"}
             /\ source'[q].kind = source[q].kind
             /\ held[q] \subseteq held'[q]
             /\ \/ source'[q].stamp = source[q].stamp /\ source'[q].data = source[q].data
                \/ /\ source'[q].stamp = writes + 1
                   /\ source'[q].data \in Contents /\ source'[q].data \in held'[q]
<1>1. DOMAIN source[p] = {"kind", "mode", "data", "stamp", "present"}
  BY DEF SourceInv
<1>2. CASE RemoveFile(p)
  <2>1. PICK row : row = [source[p] EXCEPT !.present = FALSE]
    OBVIOUS
  <2>2. /\ DOMAIN row = DOMAIN source[p]
        /\ row.kind = source[p].kind /\ row.stamp = source[p].stamp /\ row.data = source[p].data
    BY <1>1, <2>1
  <2>3. source' = [source EXCEPT ![p] = row] /\ held' = held /\ writes' = writes + 1
    BY <1>2, <2>1 DEF RemoveFile
  <2> QED
    BY <1>1, <2>2, <2>3 DEF SourceInv
<1>3. ASSUME NEW c \in Contents, WriteFile(p, c)
      PROVE  /\ DOMAIN source' = DOMAIN source /\ DOMAIN held' = DOMAIN source
             /\ writes' = writes + 1
             /\ \A q \in DOMAIN source :
                 /\ DOMAIN source'[q] = {"kind", "mode", "data", "stamp", "present"}
                 /\ source'[q].kind = source[q].kind
                 /\ held[q] \subseteq held'[q]
                 /\ \/ source'[q].stamp = source[q].stamp /\ source'[q].data = source[q].data
                    \/ /\ source'[q].stamp = writes + 1
                       /\ source'[q].data \in Contents /\ source'[q].data \in held'[q]
  <2>1. PICK row : row = [source[p] EXCEPT !.data = c, !.stamp = writes + 1]
    OBVIOUS
  <2>2. /\ DOMAIN row = DOMAIN source[p]
        /\ row.kind = source[p].kind /\ row.stamp = writes + 1 /\ row.data = c
    BY <1>1, <2>1
  <2>3. source' = [source EXCEPT ![p] = row] /\ writes' = writes + 1
    BY <1>3, <2>1 DEF WriteFile
  <2>4. held' = [held EXCEPT ![p] = held[p] \cup {c}]
    BY <1>3 DEF WriteFile
  <2> QED
    BY <1>1, <2>2, <2>3, <2>4 DEF SourceInv
<1> QED
  BY <1>2, <1>3 DEF SourceInv

\* The writer changes a file while it is being captured.
LEMMA WriterCaptures ==
  ASSUME CaptureInv, NEW p \in DOMAIN source,
         RemoveFile(p) \/ \E c \in Contents : WriteFile(p, c)
  PROVE  CaptureInv'
<1>0. SourceInv
  BY DEF CaptureInv
<1>1. SourceInv'
  <2>1. ASSUME NEW q \in DOMAIN source
        PROVE  /\ source'[q].stamp \in 0..(writes + 1)
               /\ source'[q].kind = "file" => source'[q].data \in Seq(Byte) /\ source'[q].data \in held'[q]
    <3>1. /\ writes \in Nat /\ source[q].stamp \in 0..writes
          /\ source[q].kind = "file" => source[q].data \in Seq(Byte) /\ source[q].data \in held[q]
      BY <1>0 DEF SourceInv
    <3> QED
      BY <1>0, <3>1, WriterDoes, ContentsAssumption
  <2>2. /\ DOMAIN source' = DOMAIN source /\ DOMAIN held' = DOMAIN source
        /\ writes' \in Nat /\ writes' = writes + 1
        /\ \A q \in DOMAIN source : DOMAIN source'[q] = {"kind", "mode", "data", "stamp", "present"}
    BY <1>0, WriterDoes
  <2> QED
    BY <2>1, <2>2 DEF SourceInv
<1>2. \A e : EntryIsFaithful(e) => EntryIsFaithful(e)'
  BY <1>0, WriterDoes DEF EntryIsFaithful
<1>3. cap' = cap
  BY DEF RemoveFile, WriteFile
<1>4. ReadInv'
  <2>1. cap.phase \in {"open", "read"} => cap.seen \in 0..(writes + 1) /\ cap.seen # writes + 1
    BY DEF CaptureInv, SourceInv, ReadInv
  <2> QED
    BY <1>0, <1>3, <2>1, WriterDoes DEF CaptureInv, ReadInv
<1>5. \A i \in DOMAIN cap.entries : EntryIsFaithful(cap.entries[i])'
  BY <1>2, <1>3 DEF CaptureInv
<1> QED
  BY <1>1, <1>3, <1>4, <1>5 DEF CaptureInv, IsSequence, Range, manifest, Captured

\* The capture gives up.
LEMMA FailCaptures ==
  ASSUME CaptureInv, CaptureFails, UNCHANGED CaptureRest
  PROVE  CaptureInv'
<1>1. /\ DOMAIN cap' = DOMAIN cap /\ cap'.phase = "failed" /\ cap'.entries = <<>>
  BY DEF CaptureFails, CaptureInv
<1>2. IsSequence(<<>>) /\ DOMAIN <<>> = {}
  BY DEF IsSequence
<1>3. UNCHANGED <<source, writes, held>>
  BY DEF CaptureRest
<1> QED
  BY <1>1, <1>2, <1>3 DEF CaptureInv, SourceInv, ReadInv, IsSequence, Range

\* The capture goes on to another name, keeping what it has.
LEMMA MoveCaptures ==
  ASSUME CaptureInv, UNCHANGED CaptureRest, DOMAIN cap' = DOMAIN cap,
         cap'.phase \in {"walk", "failed"}, cap'.entries = cap.entries
  PROVE  CaptureInv'
<1>1. UNCHANGED <<source, writes, held>>
  BY DEF CaptureRest
<1> QED
  BY <1>1 DEF CaptureInv, SourceInv, ReadInv, IsSequence, Range, EntryIsFaithful

\* An entry is added to the manifest.
LEMMA AppendCaptures ==
  ASSUME CaptureInv, UNCHANGED CaptureRest, DOMAIN cap' = DOMAIN cap, cap'.phase = "walk",
         NEW e, EntryIsFaithful(e), cap'.entries = Append(cap.entries, e)
  PROVE  CaptureInv'
<1>1. UNCHANGED <<source, writes, held>>
  BY DEF CaptureRest
<1>2. IsSequence(cap.entries)
  BY DEF CaptureInv
<1>3. IsSequence(cap'.entries)
  BY <1>2, AppendIsSequence
<1>4. \A i \in DOMAIN cap'.entries : EntryIsFaithful(cap'.entries[i])
  BY <1>2, AppendIsSequence DEF CaptureInv
<1>5. \A i \in DOMAIN cap'.entries : EntryIsFaithful(cap.entries[i])'
  BY <1>1, <1>4 DEF EntryIsFaithful
<1> QED
  BY <1>1, <1>3, <1>5 DEF CaptureInv, SourceInv, ReadInv, IsSequence, Range

\* walk visits a name.
LEMMA WalkEntryCaptures ==
  ASSUME CaptureInv, WalkEntry
  PROVE  CaptureInv'
<1>1. PICK p : p = Head(cap.todo)
  OBVIOUS
<1>2. PICK rec : rec = Entry(p, source[p].kind, metadata_mode(source[p].mode), source[p].data)
  OBVIOUS
<1>3. rec.kind = source[p].kind
  BY <1>2 DEF Entry
<1>4. DOMAIN cap = {"phase", "todo", "entries", "total", "seen", "size", "buf"}
  BY DEF CaptureInv
<1>5. CASE CaptureFails
  BY <1>5, FailCaptures DEF WalkEntry
<1>6. CASE cap' = [cap EXCEPT !.todo = Tail(@)]
  <2>1. DOMAIN cap' = DOMAIN cap /\ cap'.phase = "walk" /\ cap'.entries = cap.entries
    BY <1>4, <1>6 DEF WalkEntry
  <2> QED
    BY <2>1, MoveCaptures DEF WalkEntry
<1>7. CASE /\ source[p].kind \in {"dir", "link"}
           /\ \/ cap' = [[cap EXCEPT !.todo = Tail(@)] EXCEPT !.entries = Append(@, rec), !.todo = Children(p) \o @]
              \/ cap' = [[cap EXCEPT !.todo = Tail(@)] EXCEPT !.entries = Append(@, rec)]
  <2>1. /\ DOMAIN cap' = DOMAIN cap /\ cap'.phase = cap.phase
        /\ cap'.entries = Append(cap.entries, rec)
    BY <1>4, <1>7
  <2>2. EntryIsFaithful(rec)
    BY <1>3, <1>7 DEF EntryIsFaithful
  <2>3. cap'.phase = "walk"
    BY <2>1 DEF WalkEntry
  <2> QED
    BY <2>1, <2>2, <2>3, AppendCaptures DEF WalkEntry
<1>8. CASE /\ Present(p) /\ source[p].kind = "file"
           /\ cap' = [cap EXCEPT !.phase = "open", !.seen = source[p].stamp,
                                 !.size = Len(source[p].data)]
  <2>1. /\ DOMAIN cap' = DOMAIN cap /\ cap'.phase = "open" /\ cap'.entries = cap.entries
        /\ cap'.todo = cap.todo /\ cap'.seen = source[p].stamp
    BY <1>4, <1>8
  <2>2. UNCHANGED <<source, writes, held>>
    BY DEF WalkEntry, CaptureRest
  <2>3. p \in DOMAIN source /\ source[p].stamp \in 0..writes
    BY <1>8 DEF Present, CaptureInv, SourceInv
  <2> QED
    BY <1>1, <1>8, <2>1, <2>2, <2>3 DEF CaptureInv, SourceInv, ReadInv, IsSequence, Range, EntryIsFaithful
<1> QED
  BY <1>1, <1>2, <1>5, <1>6, <1>7, <1>8 DEF WalkEntry

\* read_regular_file opens the file it looked at.
LEMMA OpenFileCaptures ==
  ASSUME CaptureInv, OpenFile
  PROVE  CaptureInv'
<1>1. DOMAIN cap = {"phase", "todo", "entries", "total", "seen", "size", "buf"}
  BY DEF CaptureInv
<1>2. CASE CaptureFails
  BY <1>2, FailCaptures DEF OpenFile
<1>3. CASE cap' = [cap EXCEPT !.phase = "read", !.buf = <<>>]
  <2>1. /\ DOMAIN cap' = DOMAIN cap /\ cap'.phase = "read" /\ cap'.entries = cap.entries
        /\ cap'.todo = cap.todo /\ cap'.seen = cap.seen /\ cap'.buf = <<>>
    BY <1>1, <1>3
  <2>2. UNCHANGED <<source, writes, held>>
    BY DEF OpenFile, CaptureRest
  <2>3. cap.phase = "open"
    BY DEF OpenFile
  <2>4. ReadInv'
    BY <2>1, <2>2, <2>3 DEF CaptureInv, ReadInv
  <2> QED
    BY <2>1, <2>2, <2>4 DEF CaptureInv, SourceInv, IsSequence, Range, EntryIsFaithful
<1> QED
  BY <1>2, <1>3 DEF OpenFile

\* One read call.
LEMMA ReadSomeCaptures ==
  ASSUME CaptureInv, ReadSome
  PROVE  CaptureInv'
<1>1. DOMAIN cap = {"phase", "todo", "entries", "total", "seen", "size", "buf"}
  BY DEF CaptureInv
<1>2. PICK d : d = source[Head(cap.todo)].data
  OBVIOUS
<1>3. PICK b \in Seq(Byte) : b = cap.buf
  BY DEF CaptureInv, ReadInv, ReadSome
<1>4. d \in Seq(Byte) /\ Len(b) < Len(d)
  BY <1>2, <1>3 DEF CaptureInv, ReadInv, SourceInv, ReadSome
<1>5. PICK x \in Byte : x = d[Len(b) + 1]
  BY <1>4
<1>6. /\ DOMAIN cap' = DOMAIN cap /\ cap'.phase = "read" /\ cap'.entries = cap.entries
      /\ cap'.todo = cap.todo /\ cap'.seen = cap.seen /\ cap'.buf = Append(b, x)
  BY <1>1, <1>2, <1>3, <1>5 DEF ReadSome
<1>7. UNCHANGED <<source, writes, held>>
  BY DEF ReadSome, CaptureRest
<1>8. /\ Append(b, x) \in Seq(Byte) /\ Len(Append(b, x)) = Len(b) + 1
      /\ \A k \in 1..Len(b) : Append(b, x)[k] = b[k]
      /\ Append(b, x)[Len(b) + 1] = x
  OBVIOUS
<1>9. source[Head(cap.todo)].stamp = cap.seen =>
         \A k \in 1..(Len(b) + 1) : k <= Len(d) => Append(b, x)[k] = d[k]
  <2> SUFFICES ASSUME source[Head(cap.todo)].stamp = cap.seen,
                      NEW k \in 1..(Len(b) + 1), k <= Len(d)
               PROVE  Append(b, x)[k] = d[k]
    OBVIOUS
  <2>1. CASE k = Len(b) + 1
    BY <1>5, <1>8, <2>1
  <2>2. CASE k \in 1..Len(b)
    BY <1>2, <1>3, <1>8, <2>2 DEF CaptureInv, ReadInv, ReadSome
  <2> QED
    BY <2>1, <2>2
<1>10. ReadInv'
  BY <1>2, <1>6, <1>7, <1>8, <1>9 DEF CaptureInv, ReadInv, ReadSome
<1> QED
  BY <1>6, <1>7, <1>10 DEF CaptureInv, SourceInv, IsSequence, Range, EntryIsFaithful

\* End of file: what is kept was the whole file at one moment.
LEMMA ReadEndsCaptures ==
  ASSUME CaptureInv, ReadEnds
  PROVE  CaptureInv'
<1>1. DOMAIN cap = {"phase", "todo", "entries", "total", "seen", "size", "buf"}
  BY DEF CaptureInv
<1>2. CASE CaptureFails
  BY <1>2, FailCaptures DEF ReadEnds
<1>3. CASE /\ same_file(Head(cap.todo)) /\ Len(source[Head(cap.todo)].data) = Len(cap.buf)
           /\ cap' = [cap EXCEPT !.phase = "walk", !.todo = Tail(@), !.total = @ + Len(cap.buf),
                 !.entries = Append(@, Entry(Head(cap.todo), "file",
                                             metadata_mode(source[Head(cap.todo)].mode), cap.buf))]
  <2>1. PICK p : p = Head(cap.todo)
    OBVIOUS
  <2>2. PICK e : e = Entry(p, "file", metadata_mode(source[p].mode), cap.buf)
    OBVIOUS
  <2>3. /\ DOMAIN cap' = DOMAIN cap /\ cap'.phase = "walk"
        /\ cap'.entries = Append(cap.entries, e)
    BY <1>1, <1>3, <2>1, <2>2
  <2>4. p \in DOMAIN source /\ source[p].data \in Seq(Byte) /\ source[p].data \in held[p]
    BY <2>1 DEF CaptureInv, SourceInv, ReadInv, ReadEnds
  <2>5. cap.buf \in Seq(Byte) /\ \A k \in 1..Len(cap.buf) : cap.buf[k] = source[p].data[k]
    BY <1>3, <2>1, <2>4 DEF CaptureInv, ReadInv, ReadEnds, same_file
  <2>6. cap.buf = source[p].data
    BY <1>3, <2>1, <2>4, <2>5
  <2>7. EntryIsFaithful(e)
    BY <2>2, <2>4, <2>6 DEF Entry, EntryIsFaithful
  <2> QED
    BY <2>3, <2>7, AppendCaptures DEF ReadEnds
<1> QED
  BY <1>2, <1>3 DEF ReadEnds

\* Sorting moves entries and makes none up; the checks of restore have passed.
LEMMA SnapshotEndsCaptures ==
  ASSUME CaptureInv, SnapshotEnds
  PROVE  CaptureInv'
<1>1. DOMAIN cap = {"phase", "todo", "entries", "total", "seen", "size", "buf"}
  BY DEF CaptureInv
<1>2. CASE CaptureFails
  BY <1>2, FailCaptures DEF SnapshotEnds
<1>3. ASSUME NEW pi \in Orders(Len(cap.entries)),
             NEW es, es = [i \in DOMAIN pi |-> cap.entries[pi[i]]],
             validate_manifest([schema |-> 1, root |-> "rwx", canonical |-> TRUE, entries |-> es]),
             cap' = [cap EXCEPT !.phase = "stored", !.entries = es]
      PROVE  CaptureInv'
  <2>1. DOMAIN cap' = DOMAIN cap /\ cap'.phase = "stored" /\ cap'.entries = es
    BY <1>1, <1>3
  <2>2. UNCHANGED <<source, writes, held>>
    BY DEF SnapshotEnds, CaptureRest
  <2>3. PICK n \in Nat : n = Len(cap.entries) /\ DOMAIN cap.entries = 1..n
    BY DEF CaptureInv, IsSequence
  <2>4. pi \in [1..n -> 1..n] /\ DOMAIN es = 1..n /\ \A i \in 1..n : es[i] = cap.entries[pi[i]]
    BY <1>3, <2>3 DEF Orders
  <2>5. IsSequence(es)
    <3>1. es = [i \in 1..n |-> es[i]]
      BY <1>3, <2>4
    <3>2. es \in [1..n -> Range(es)]
      BY <2>4, <3>1 DEF Range
    <3> QED
      BY <3>2 DEF IsSequence
  <2>6. \A i \in DOMAIN es : EntryIsFaithful(es[i])
    BY <2>3, <2>4 DEF CaptureInv
  <2>7. \A i \in DOMAIN es : EntryIsFaithful(es[i])'
    BY <2>1, <2>2, <2>6 DEF EntryIsFaithful
  <2>8. manifest(Captured)'
    <3>1. manifest([schema |-> 1, root |-> "rwx", canonical |-> TRUE, entries |-> es])
      BY <1>3 DEF manifest
    <3>2. Captured' = [schema |-> 1, root |-> "rwx", canonical |-> TRUE, entries |-> es]
      BY <2>1 DEF Captured
    <3> QED
      BY <3>1, <3>2 DEF manifest
  <2> QED
    BY <2>1, <2>2, <2>5, <2>7, <2>8 DEF CaptureInv, SourceInv, ReadInv, IsSequence, Range
<1> QED
  BY <1>2, <1>3 DEF SnapshotEnds

\* snapshot looks at the root.
LEMMA SnapshotBeginsCaptures ==
  ASSUME CaptureInv, NEW root, snapshot(root)
  PROVE  CaptureInv'
<1>1. DOMAIN cap = {"phase", "todo", "entries", "total", "seen", "size", "buf"}
  BY DEF CaptureInv
<1>2. /\ DOMAIN cap' = DOMAIN cap /\ cap'.phase \in {"walk", "failed"}
      /\ cap'.entries = cap.entries
  BY <1>1 DEF snapshot
<1> QED
  BY <1>2, MoveCaptures DEF snapshot

\* Restorers, losses and the operator leave the capture alone.
LEMMA OthersCapture ==
  ASSUME CaptureInv, UNCHANGED <<source, writes, held, cap>>
  PROVE  CaptureInv'
BY DEF CaptureInv, SourceInv, ReadInv, IsSequence, Range, EntryIsFaithful, manifest, Captured

\* Every step of a restorer is one of those.
LEMMA RestoreStepIsOther ==
  ASSUME NEW r \in Restorers, RestoreStep(r)
  PROVE  UNCHANGED <<source, writes, held, cap>>
<1> USE DEF RestoreRest
<1>1. CASE \E s \in Spellings, man \in Manifests : RestoreBegins(r, s, man)
  BY <1>1 DEF RestoreBegins
<1>2. CASE RestoreLock_acquire(r) \/ CreateStaging(r) \/ CreateEntry(r) \/ CheckTarget(r)
  BY <1>2 DEF RestoreLock_acquire, CreateStaging, CreateEntry, CheckTarget
<1>3. CASE ApplyModes(r) \/ Publish(r) \/ \E ok \in BOOLEAN : SyncParent(r, ok)
  BY <1>3 DEF ApplyModes, Publish, SyncParent
<1>4. CASE RestoreError(r) \/ StagingGuard_drop(r) \/ RestoreLock_drop(r) \/ Kill(r)
  BY <1>4 DEF RestoreError, StagingGuard_drop, RestoreLock_drop, Kill
<1> QED
  BY <1>1, <1>2, <1>3, <1>4 DEF RestoreStep

\* Every step keeps the capture's invariant.
LEMMA NextCaptures ==
  ASSUME CaptureInv, [Next]_vars
  PROVE  CaptureInv'
<1>1. ASSUME NEW root, snapshot(root) PROVE CaptureInv'
  BY <1>1, SnapshotBeginsCaptures
<1>2. CASE WalkEntry \/ OpenFile \/ ReadSome \/ ReadEnds \/ SnapshotEnds
  BY <1>2, WalkEntryCaptures, OpenFileCaptures, ReadSomeCaptures, ReadEndsCaptures, SnapshotEndsCaptures
<1>3. ASSUME NEW p \in DOMAIN source, RemoveFile(p) \/ \E c \in Contents : WriteFile(p, c)
      PROVE  CaptureInv'
  BY <1>3, WriterCaptures
<1>4. ASSUME NEW r \in Restorers, RestoreStep(r) PROVE CaptureInv'
  BY <1>4, RestoreStepIsOther, OthersCapture
<1>5. ASSUME NEW s \in Spellings, OperatorUnlocks(s) PROVE CaptureInv'
  BY <1>5, OthersCapture DEF OperatorUnlocks, RestoreRest
<1>6. ASSUME NEW c, LoseBlob(c) PROVE CaptureInv'
  BY <1>6, OthersCapture DEF LoseBlob
<1>7. CASE UNCHANGED vars
  BY <1>7, OthersCapture DEF vars
<1> QED
  BY <1>1, <1>2, <1>3, <1>4, <1>5, <1>6, <1>7 DEF Next

\* Before the capture every file has been what it is.
LEMMA InitCaptures == Init => CaptureInv
<1> SUFFICES ASSUME Init PROVE CaptureInv
  OBVIOUS
<1>1. PICK t \in Sources : source = t
  BY DEF Init
<1>2. SourceInv
  BY <1>1, SourcesAssumption DEF Init, SourceInv
<1>3. IsSequence(<<>>) /\ DOMAIN <<>> = {}
  BY DEF IsSequence
<1>4. cap = [phase |-> "idle", todo |-> <<>>, entries |-> <<>>, total |-> 0,
             seen |-> 0, size |-> 0, buf |-> <<>>]
  BY DEF Init
<1> QED
  BY <1>2, <1>3, <1>4 DEF CaptureInv, ReadInv

\* The inductive invariant of the capture.
THEOREM CaptureInvariance == Spec => []CaptureInv
BY InitCaptures, NextCaptures, PTL DEF Spec

\* A stored snapshot passes the checks of restore, and each of its files is one
\* the source held during the capture, whatever a writer did meanwhile.
THEOREM SnapshotsAreFaithful == Spec => []SnapshotIsFaithful
<1>1. CaptureInv => SnapshotIsFaithful
  <2> SUFFICES ASSUME CaptureInv, cap.phase = "stored"
               PROVE  /\ manifest(Captured)
                      /\ \A i \in Regular(Captured) :
                            Captured.entries[i].data \in held[Captured.entries[i].path]
    BY DEF SnapshotIsFaithful
  <2>1. Captured.entries = cap.entries
    BY DEF Captured
  <2> QED
    BY <2>1 DEF CaptureInv, Regular, EntryIsFaithful
<1> QED
  BY <1>1, CaptureInvariance, PTL

-----------------------------------------------------------------------------
(* The restorers. *)

Fields == {"pc", "as", "man", "staged", "todo", "result"}
Steps == {"idle", "lock", "stage", "build", "modes", "rename", "sync", "clean",
          "unlock", "done", "dead"}
Locked == {"stage", "build", "modes", "rename", "sync", "clean", "unlock"}
Working == {"build", "modes", "rename"}

\* How an entry of a manifest stands in the staging tree before ApplyModes.
Staged(e) == [path |-> e.path, kind |-> e.kind, data |-> e.data,
              mode |-> IF e.kind = "dir" THEN Private ELSE e.mode]

\* No path twice: what makes the mode of a staged entry unique.
PathsDiffer(man) ==
    \A i, j \in DOMAIN man.entries : man.entries[i].path = man.entries[j].path => i = j

\* The staging tree of a restorer before ApplyModes, holding the entries n.
Built(n) == [made |-> TRUE, root |-> Private, has |-> {Staged(e) : e \in n}]

\* The locals of a restore: the staging tree is as far as the program counter
\* says, and there is none when the restore has not begun one or has returned.
Local(l) ==
    LET all == Range(l.man.entries) IN
    /\ DOMAIN l = Fields /\ l.pc \in Steps
    /\ l.pc \in {"lock", "stage"} \cup Working => PathsDiffer(l.man)
    /\ l.pc = "build" => l.todo \subseteq all /\ l.staged = Built(all \ l.todo)
    /\ l.pc = "modes" => l.staged = Built(all)
    /\ l.pc = "rename" => l.staged = TreeOf(l.man)
    /\ l.pc \notin Working \cup {"clean", "dead"} => l.staged = NoTree
    /\ \/ l.staged = NoTree
       \/ /\ l.staged.made /\ DOMAIN l.staged = {"made", "root", "has"}
          /\ \A x \in l.staged.has : DOMAIN x = {"path", "kind", "data", "mode"}

\* A lock file exists for as long as its restorer works or lies dead.
LockInv ==
    /\ locks \in [Spellings -> Restorers \cup {None}]
    /\ \A r \in Restorers :
        /\ rest[r].pc \in Locked \cup {"lock"} => rest[r].as \in Spellings
        /\ rest[r].pc \in Locked => locks[rest[r].as] = r
        /\ \A s \in Spellings : locks[s] = r => rest[r].pc \in Locked \cup {"dead"}
                                                /\ rest[r].as = s

\* Who published, and what stands.
WinnerInv ==
    /\ winners \subseteq Restorers
    /\ \A r \in winners : rest[r].pc \in {"sync", "unlock", "done", "dead"}
    /\ \A r \in Restorers : rest[r].pc = "sync" \/ rest[r].result = "ok" => r \in winners
    /\ target.made => \E r \in winners : target = TreeOf(rest[r].man)

RestoreInv ==
    /\ DOMAIN rest = Restorers
    /\ \A r \in Restorers : Local(rest[r])
    /\ LockInv
    /\ WinnerInv

\* Order of paths is transitive, and no path comes before itself.
LEMMA BeforeIsStrict ==
  ASSUME NEW p, NEW q, NEW u, Before(p, q)
  PROVE  p # q /\ (Before(q, u) => Before(p, u))
<1>1. DOMAIN Sorted = 1..Len(Sorted) /\ Len(Sorted) \in Nat
  BY SortedAssumption
<1>2. PICK i, j \in DOMAIN Sorted : i < j /\ Sorted[i] = p /\ Sorted[j] = q
  BY DEF Before
<1>3. ASSUME Before(q, u) PROVE Before(p, u)
  <2>1. PICK k, l \in DOMAIN Sorted : k < l /\ Sorted[k] = q /\ Sorted[l] = u
    BY <1>3 DEF Before
  <2>2. k = j
    BY <1>2, <2>1, SortedAssumption
  <2>3. i < l
    BY <1>1, <1>2, <2>1, <2>2
  <2> QED
    BY <1>2, <2>1, <2>3 DEF Before
<1>4. p # q
  BY <1>1, <1>2, SortedAssumption
<1> QED
  BY <1>3, <1>4

\* validate_manifest compares neighbours only; that is enough: no two entries
\* of a manifest that passes have the same path.
LEMMA NeighboursSuffice ==
  ASSUME NEW es, IsSequence(es),
         \A i \in DOMAIN es : i > 1 => Before(es[i - 1].path, es[i].path)
  PROVE  \A i, j \in DOMAIN es : i < j => Before(es[i].path, es[j].path)
<1>1. DOMAIN es = 1..Len(es) /\ Len(es) \in Nat
  BY DEF IsSequence
<1> DEFINE Bad == {j \in 1..Len(es) : \E i \in 1..Len(es) : i < j /\ ~Before(es[i].path, es[j].path)}
           R == OpToRel(<, Nat)
<1>2. Bad = {}
  <2> SUFFICES ASSUME Bad # {} PROVE FALSE
    OBVIOUS
  <2>1. Bad \subseteq Nat
    BY <1>1
  <2>0. IsWellFoundedOn(R, Nat)
    BY NatLessThanWellFounded, Zenon
  <2>2. PICK j \in Bad : \A k \in Bad : ~(<<k, j>> \in R)
    <3> HIDE DEF Bad, R
    <3> QED
      BY <2>1, <2>0, WFMin
  <2>3. \A k \in Bad : ~(k < j)
    BY <2>1, <2>2 DEF OpToRel
  <2>4. PICK i \in 1..Len(es) : i < j /\ ~Before(es[i].path, es[j].path)
    OBVIOUS
  <2>5. j \in 1..Len(es) /\ j > 1 /\ j - 1 \in 1..Len(es)
    BY <1>1, <2>4
  <2>6. Before(es[j - 1].path, es[j].path)
    BY <1>1, <2>5
  <2>7. i # j - 1
    BY <2>4, <2>6
  <2>8. i < j - 1
    BY <1>1, <2>4, <2>5, <2>7
  <2>9. j - 1 \notin Bad
    BY <2>3, <2>5
  <2>10. Before(es[i].path, es[j - 1].path)
    BY <2>5, <2>8, <2>9
  <2> QED
    BY <2>4, <2>6, <2>10, BeforeIsStrict
<1> QED
  BY <1>1, <1>2

\* A manifest restore accepts names no path twice.
LEMMA ValidPathsDiffer ==
  ASSUME CaptureInv, NEW man \in Manifests, validate(man)
  PROVE  PathsDiffer(man)
<1>1. IsSequence(man.entries)
  BY ForeignAssumption DEF Manifests, CaptureInv, Captured, IsSequence
<1>2. \A i \in DOMAIN man.entries : i > 1 => Before(man.entries[i - 1].path, man.entries[i].path)
  BY DEF validate, manifest, validate_manifest
<1>3. \A i, j \in DOMAIN man.entries : i < j => Before(man.entries[i].path, man.entries[j].path)
  BY <1>1, <1>2, NeighboursSuffice
<1>4. DOMAIN man.entries = 1..Len(man.entries) /\ Len(man.entries) \in Nat
  BY <1>1 DEF IsSequence
<1> QED
  BY <1>3, <1>4, BeforeIsStrict DEF PathsDiffer

Published == {"sync", "unlock", "done", "dead"}

\* A step of one restorer that touches neither locks nor target.
LEMMA QuietRestores ==
  ASSUME RestoreInv, NEW r \in Restorers, NEW l, Local(l), rest' = [rest EXCEPT ![r] = l],
         UNCHANGED <<locks, target, winners>>,
         l.as = rest[r].as \/ rest[r].pc = "idle",
         l.pc = "lock" => l.as \in Spellings,
         l.pc \in Locked => rest[r].pc \in Locked,
         rest[r].pc \in Locked \cup {"dead"} => l.pc \in Locked \cup {"dead"},
         l.pc = "sync" \/ l.result = "ok" => r \in winners,
         r \in winners => l.pc \in Published /\ l.man = rest[r].man
  PROVE  RestoreInv'
<1>1. /\ DOMAIN rest = Restorers /\ DOMAIN rest' = Restorers /\ rest'[r] = l
      /\ \A q \in Restorers \ {r} : rest'[q] = rest[q]
  BY DEF RestoreInv
<1>2. \A q \in Restorers : Local(rest'[q])
  BY <1>1 DEF RestoreInv
<1>3. LockInv'
  BY <1>1 DEF RestoreInv, LockInv, Locked
<1>4. WinnerInv'
  BY <1>1 DEF RestoreInv, WinnerInv, Published
<1> QED
  BY <1>1, <1>2, <1>3, <1>4 DEF RestoreInv

\* The locals of a restore before a step of it.
LEMMA LocalsOf ==
  ASSUME RestoreInv, NEW r \in Restorers
  PROVE  /\ Local(rest[r]) /\ DOMAIN rest[r] = Fields
         /\ DOMAIN rest = Restorers
         /\ rest[r].result = "ok" => r \in winners
         /\ r \in winners => rest[r].pc \in Published
BY DEF RestoreInv, Local, WinnerInv, Published

\* restore validates the snapshot and looks at the target.
LEMMA RestoreBeginsRestores ==
  ASSUME CaptureInv, RestoreInv, NEW r \in Restorers, NEW s \in Spellings, NEW man \in Manifests,
         RestoreBegins(r, s, man)
  PROVE  RestoreInv'
<1>1. rest[r].pc = "idle" /\ UNCHANGED <<locks, target, winners>>
  BY DEF RestoreBegins
<1>2. PICK k : k = rest[r]
  OBVIOUS
<1>3. Local(k) /\ DOMAIN k = Fields /\ r \notin winners /\ k.pc = "idle" /\ k.staged = NoTree
  BY <1>1, <1>2, LocalsOf DEF Published, Local, Working
<1>4. ASSUME NEW result, result # "ok", Returns(r, result) PROVE RestoreInv'
  <2>1. PICK l : l = [k EXCEPT !.pc = "done", !.result = result]
    OBVIOUS
  <2>2. /\ DOMAIN l = Fields /\ l.pc = "done" /\ l.result = result
        /\ l.as = k.as /\ l.staged = NoTree
    BY <1>3, <2>1 DEF Fields
  <2>3. rest' = [rest EXCEPT ![r] = l]
    BY <1>2, <1>4, <2>1 DEF Returns
  <2>4. Local(l)
    BY <2>2 DEF Local, Steps, Working
  <2> QED
    BY <1>1, <1>2, <1>3, <1>4, <2>2, <2>3, <2>4, QuietRestores DEF Locked
<1>5. ASSUME validate(man), rest' = [rest EXCEPT ![r].pc = "lock", ![r].as = s, ![r].man = man]
      PROVE  RestoreInv'
  <2>1. PICK l : l = [k EXCEPT !.pc = "lock", !.as = s, !.man = man]
    OBVIOUS
  <2>2. /\ DOMAIN l = Fields /\ l.pc = "lock" /\ l.as = s /\ l.man = man
        /\ l.staged = NoTree /\ l.result = k.result
    BY <1>3, <2>1 DEF Fields
  <2>3. rest' = [rest EXCEPT ![r] = l]
    BY <1>2, <1>5, <2>1
  <2>4. Local(l)
    BY <1>5, <2>2, ValidPathsDiffer DEF Local, Steps, Working
  <2>5. l.result # "ok"
    BY <1>2, <1>3, <2>2, LocalsOf
  <2> QED
    BY <1>1, <1>2, <1>3, <2>2, <2>3, <2>4, <2>5, QuietRestores DEF Locked
<1> QED
  BY <1>4, <1>5 DEF RestoreBegins

\* A restore fails after it has the lock: the guards will run.
LEMMA FailsRestores ==
  ASSUME RestoreInv, NEW r \in Restorers, NEW result, result # "ok", Fails(r, result),
         rest[r].pc \in {"stage"} \cup Working, UNCHANGED <<locks, target, winners>>
  PROVE  RestoreInv'
<1>1. PICK k : k = rest[r]
  OBVIOUS
<1>2. Local(k) /\ DOMAIN k = Fields /\ r \notin winners
  BY <1>1, LocalsOf DEF Published, Working
<1>3. PICK l : l = [k EXCEPT !.pc = "clean", !.result = result]
  OBVIOUS
<1>4. /\ DOMAIN l = Fields /\ l.pc = "clean" /\ l.result = result
      /\ l.as = k.as /\ l.staged = k.staged
  BY <1>2, <1>3 DEF Fields
<1>5. rest' = [rest EXCEPT ![r] = l]
  BY <1>1, <1>3 DEF Fails
<1>6. Local(l)
  BY <1>2, <1>4 DEF Local, Steps, Working
<1> QED
  BY <1>1, <1>2, <1>4, <1>5, <1>6, QuietRestores DEF Locked, Working

\* Only the program counter moves.
LEMMA GoesRestores ==
  ASSUME RestoreInv, NEW r \in Restorers, NEW pc \in Steps, Goes(r, pc),
         UNCHANGED <<locks, target, winners>>, pc # "lock", pc # "sync",
         pc \in Locked => rest[r].pc \in Locked,
         rest[r].pc \in Locked \cup {"dead"} => pc \in Locked \cup {"dead"},
         r \in winners => pc \in Published,
         Local([rest[r] EXCEPT !.pc = pc])
  PROVE  RestoreInv'
<1>1. PICK k : k = rest[r]
  OBVIOUS
<1>2. Local(k) /\ DOMAIN k = Fields /\ (k.result = "ok" => r \in winners)
  BY <1>1, LocalsOf
<1>3. PICK l : l = [k EXCEPT !.pc = pc]
  OBVIOUS
<1>4. /\ DOMAIN l = Fields /\ l.pc = pc /\ l.result = k.result /\ l.as = k.as /\ l.man = k.man
  BY <1>2, <1>3 DEF Fields
<1>5. rest' = [rest EXCEPT ![r] = l] /\ Local(l)
  BY <1>1, <1>3 DEF Goes
<1> QED
  BY <1>1, <1>2, <1>4, <1>5, QuietRestores

\* RestoreLock::acquire creates the lock file or returns.
LEMMA AcquireRestores ==
  ASSUME RestoreInv, NEW r \in Restorers, RestoreLock_acquire(r)
  PROVE  RestoreInv'
<1>1. PICK k : k = rest[r]
  OBVIOUS
<1>2. /\ Local(k) /\ DOMAIN k = Fields /\ r \notin winners /\ k.pc = "lock" /\ k.staged = NoTree
      /\ k.result # "ok" /\ PathsDiffer(k.man) /\ UNCHANGED <<target, winners>>
  BY <1>1, LocalsOf DEF RestoreLock_acquire, Published, Local, Working
<1>3. CASE Returns(r, "exists") /\ UNCHANGED locks
  <2>1. PICK l : l = [k EXCEPT !.pc = "done", !.result = "exists"]
    OBVIOUS
  <2>2. /\ DOMAIN l = Fields /\ l.pc = "done" /\ l.result = "exists"
        /\ l.as = k.as /\ l.staged = NoTree
    BY <1>2, <2>1 DEF Fields
  <2>3. rest' = [rest EXCEPT ![r] = l]
    BY <1>1, <1>3, <2>1 DEF Returns
  <2>4. Local(l)
    BY <2>2 DEF Local, Steps, Working
  <2> QED
    BY <1>1, <1>2, <1>3, <2>2, <2>3, <2>4, QuietRestores DEF Locked
<1>4. CASE /\ locks[rest[r].as] = None
           /\ locks' = [locks EXCEPT ![rest[r].as] = r] /\ Goes(r, "stage")
  <2>1. PICK l : l = [k EXCEPT !.pc = "stage"]
    OBVIOUS
  <2>2. /\ DOMAIN l = Fields /\ l.pc = "stage" /\ l.result = k.result
        /\ l.as = k.as /\ l.staged = NoTree /\ l.man = k.man
    BY <1>2, <2>1 DEF Fields
  <2>3. rest' = [rest EXCEPT ![r] = l]
    BY <1>1, <1>4, <2>1 DEF Goes
  <2>4. Local(l)
    BY <1>2, <2>2 DEF Local, Steps, Working
  <2>5. /\ DOMAIN rest = Restorers /\ DOMAIN rest' = Restorers /\ rest'[r] = l
        /\ \A q \in Restorers \ {r} : rest'[q] = rest[q]
    BY <2>3 DEF RestoreInv
  <2>6. k.as \in Spellings /\ \A s \in Spellings : locks[s] # r
    BY <1>1, <1>2 DEF RestoreInv, LockInv, Locked
  <2>7. /\ locks' \in [Spellings -> Restorers \cup {None}] /\ locks'[k.as] = r
        /\ \A s \in Spellings \ {k.as} : locks'[s] = locks[s]
    BY <1>1, <1>4, <2>6 DEF RestoreInv, LockInv
  <2>8. \A q \in Restorers \ {r} : rest[q].pc \in Locked => rest[q].as # k.as
    BY <1>1, <1>4, RestorersAssumption DEF RestoreInv, LockInv
  <2>9. LockInv'
    <3>1. ASSUME NEW q \in Restorers
          PROVE  /\ rest'[q].pc \in Locked \cup {"lock"} => rest'[q].as \in Spellings
                 /\ rest'[q].pc \in Locked => locks'[rest'[q].as] = q
                 /\ \A s \in Spellings : locks'[s] = q => rest'[q].pc \in Locked \cup {"dead"}
                                                          /\ rest'[q].as = s
      <4>1. CASE q = r
        BY <2>2, <2>5, <2>6, <2>7, <4>1 DEF Locked
      <4>2. CASE q # r
        BY <2>5, <2>6, <2>7, <2>8, <4>2 DEF RestoreInv, LockInv
      <4> QED
        BY <4>1, <4>2
    <3> QED
      BY <2>7, <3>1 DEF LockInv
  <2>10. WinnerInv'
    BY <1>1, <1>2, <2>2, <2>5 DEF RestoreInv, WinnerInv
  <2> QED
    BY <2>4, <2>5, <2>9, <2>10 DEF RestoreInv
<1> QED
  BY <1>3, <1>4 DEF RestoreLock_acquire

\* The staging directory is created.
LEMMA CreateStagingRestores ==
  ASSUME RestoreInv, NEW r \in Restorers, CreateStaging(r)
  PROVE  RestoreInv'
<1>1. PICK k : k = rest[r]
  OBVIOUS
<1>2. /\ Local(k) /\ DOMAIN k = Fields /\ r \notin winners /\ k.pc = "stage"
      /\ k.result # "ok" /\ PathsDiffer(k.man) /\ UNCHANGED <<locks, target, winners>>
  BY <1>1, LocalsOf DEF CreateStaging, Published, Local
<1>3. CASE Fails(r, "exists")
  BY <1>1, <1>2, <1>3, FailsRestores
<1>4. CASE ~Fails(r, "exists")
  <2>1. PICK tree : tree = [made |-> TRUE, root |-> Private, has |-> {}]
    OBVIOUS
  <2>2. PICK l : l = [k EXCEPT !.pc = "build", !.staged = tree, !.todo = Range(k.man.entries)]
    OBVIOUS
  <2>3. /\ DOMAIN l = Fields /\ l.pc = "build" /\ l.result = k.result /\ l.as = k.as
        /\ l.staged = tree /\ l.man = k.man /\ l.todo = Range(k.man.entries)
    BY <1>2, <2>2 DEF Fields
  <2>4. rest' = [rest EXCEPT ![r] = l]
    BY <1>1, <1>4, <2>1, <2>2 DEF CreateStaging
  <2>5. Local(l)
    <3>1. tree.made /\ DOMAIN tree = {"made", "root", "has"} /\ tree.has = {}
      BY <2>1
    <3>2. tree = Built(Range(k.man.entries) \ Range(k.man.entries))
      BY <2>1 DEF Built
    <3> QED
      BY <1>2, <2>3, <3>1, <3>2 DEF Local, Steps, Working
  <2> QED
    BY <1>1, <1>2, <2>3, <2>4, <2>5, QuietRestores DEF Locked
<1> QED
  BY <1>3, <1>4

\* One entry is written.
LEMMA CreateEntryRestores ==
  ASSUME RestoreInv, NEW r \in Restorers, CreateEntry(r)
  PROVE  RestoreInv'
<1>1. PICK k : k = rest[r]
  OBVIOUS
<1>2. /\ Local(k) /\ DOMAIN k = Fields /\ r \notin winners /\ k.pc = "build"
      /\ k.result # "ok" /\ PathsDiffer(k.man) /\ UNCHANGED <<locks, target, winners>>
  BY <1>1, LocalsOf DEF CreateEntry, Published, Local, Working
<1>3. CASE Fails(r, "io")
  BY <1>1, <1>2, <1>3, FailsRestores DEF Working
<1>4. ASSUME NEW e \in k.todo,
             rest' = [rest EXCEPT ![r].staged.has = @ \cup {Staged(e)}, ![r].todo = @ \ {e}]
      PROVE  RestoreInv'
  <2>1. PICK all : all = Range(k.man.entries)
    OBVIOUS
  <2>2. k.todo \subseteq all /\ k.staged = Built(all \ k.todo)
    BY <1>2, <2>1 DEF Local
  <2>3. PICK tree : tree = [k.staged EXCEPT !.has = @ \cup {Staged(e)}]
    OBVIOUS
  <2>4. PICK l : l = [k EXCEPT !.staged = tree, !.todo = @ \ {e}]
    OBVIOUS
  <2>5. /\ DOMAIN l = Fields /\ l.pc = "build" /\ l.result = k.result /\ l.as = k.as
        /\ l.staged = tree /\ l.man = k.man /\ l.todo = k.todo \ {e}
    BY <1>2, <2>4 DEF Fields
  <2>6. rest' = [rest EXCEPT ![r] = l]
    BY <1>1, <1>4, <2>3, <2>4
  <2>7. tree = Built(all \ (k.todo \ {e}))
    <3>1. {Staged(x) : x \in all \ k.todo} \cup {Staged(e)} = {Staged(x) : x \in all \ (k.todo \ {e})}
      BY <1>4, <2>2
    <3>2. tree = [made |-> TRUE, root |-> Private, has |-> {Staged(x) : x \in all \ k.todo} \cup {Staged(e)}]
      <4>1. PICK H, n : H = {Staged(x) : x \in all \ k.todo} /\ n = Staged(e)
        OBVIOUS
      <4>2. k.staged = [made |-> TRUE, root |-> Private, has |-> H]
        BY <2>2, <4>1 DEF Built
      <4>3. PICK both : both = H \cup {n}
        OBVIOUS
      <4>4. tree = [k.staged EXCEPT !.has = both]
        BY <2>3, <4>1, <4>2, <4>3
      <4>5. tree = [made |-> TRUE, root |-> Private, has |-> both]
        <5>1. PICK m : m = TRUE
          OBVIOUS
        <5>2. k.staged = [made |-> m, root |-> Private, has |-> H]
          BY <4>2, <5>1, Zenon
        <5>3. tree = [made |-> m, root |-> Private, has |-> both]
          BY ONLY <4>4, <5>2
        <5> QED
          BY <5>1, <5>3, Zenon
      <4>6. tree = [made |-> TRUE, root |-> Private, has |-> H \cup {n}]
        BY <4>3, <4>5
      <4> QED
        BY <4>1, <4>6
    <3> QED
      BY <3>1, <3>2 DEF Built
  <2>8. /\ tree.made /\ DOMAIN tree = {"made", "root", "has"}
        /\ \A x \in tree.has : DOMAIN x = {"path", "kind", "data", "mode"}
    BY <2>7 DEF Built, Staged
  <2>9. Local(l)
    BY <1>2, <2>1, <2>2, <2>5, <2>7, <2>8 DEF Local, Steps, Working
  <2> QED
    BY <1>1, <1>2, <2>5, <2>6, <2>9, QuietRestores DEF Locked
<1> QED
  BY <1>1, <1>3, <1>4 DEF CreateEntry, Staged

\* Everything is synced and the target looked at once more.
LEMMA CheckTargetRestores ==
  ASSUME RestoreInv, NEW r \in Restorers, CheckTarget(r)
  PROVE  RestoreInv'
<1>1. /\ Local(rest[r]) /\ DOMAIN rest[r] = Fields /\ r \notin winners /\ rest[r].pc = "build"
      /\ rest[r].todo = {} /\ UNCHANGED <<locks, target, winners>>
  BY LocalsOf DEF CheckTarget, Published
<1>2. CASE Fails(r, "exists")
  BY <1>1, <1>2, FailsRestores DEF Working
<1>3. CASE Goes(r, "modes")
  <2>1. PICK l : l = [rest[r] EXCEPT !.pc = "modes"]
    OBVIOUS
  <2>2. /\ DOMAIN l = Fields /\ l.pc = "modes" /\ l.staged = rest[r].staged /\ l.man = rest[r].man
    BY <1>1, <2>1 DEF Fields
  <2>3. Local(l)
    BY <1>1, <2>2 DEF Local, Steps, Working
  <2> QED
    BY <1>1, <1>3, <2>1, <2>3, GoesRestores DEF Steps, Locked
<1> QED
  BY <1>2, <1>3 DEF CheckTarget

\* The staged entries with the modes of the manifest's entries es.
Moded(es, H) ==
    {[x EXCEPT !.mode = es[CHOOSE i \in DOMAIN es : es[i].path = x.path].mode] : x \in H}

\* With its mode applied a staged entry is as the manifest has it.
LEMMA ModesAreFinal ==
  ASSUME NEW man, PathsDiffer(man), NEW es, es = man.entries, NEW H, H = {Staged(e) : e \in Range(es)}
  PROVE  Moded(es, H) = TreeOf(man).has
<1> DEFINE Final(x) == [x EXCEPT !.mode = es[CHOOSE i \in DOMAIN es : es[i].path = x.path].mode]
           Plain(i) == [path |-> es[i].path, kind |-> es[i].kind, mode |-> es[i].mode, data |-> es[i].data]
<1>1. ASSUME NEW i \in DOMAIN es PROVE Final(Staged(es[i])) = Plain(i)
  <2>1. PICK x : x = Staged(es[i])
    OBVIOUS
  <2>2. /\ x.path = es[i].path /\ x.kind = es[i].kind /\ x.data = es[i].data
        /\ DOMAIN x = {"path", "kind", "data", "mode"}
    BY <2>1 DEF Staged
  <2>3. (CHOOSE j \in DOMAIN es : es[j].path = x.path) = i
    BY <2>2 DEF PathsDiffer
  <2>4. Final(x) = [x EXCEPT !.mode = es[i].mode]
    BY <2>3
  <2>5. PICK p, k, d, m, n : /\ p = es[i].path /\ k = es[i].kind /\ d = es[i].data
                             /\ m = es[i].mode /\ n = IF k = "dir" THEN Private ELSE m
    OBVIOUS
  <2>6. x = [path |-> p, kind |-> k, data |-> d, mode |-> n]
    BY <2>1, <2>5 DEF Staged
  <2>7. [x EXCEPT !.mode = m] = [path |-> p, kind |-> k, mode |-> m, data |-> d]
    BY ONLY <2>6
  <2> QED
    BY <2>1, <2>4, <2>5, <2>7
<1>2. TreeOf(man).has = {Plain(i) : i \in DOMAIN es}
  BY DEF TreeOf
<1>3. H = {Staged(es[i]) : i \in DOMAIN es}
  BY DEF Range
<1> HIDE DEF Final, Plain
<1>4. {Final(x) : x \in H} = {Plain(i) : i \in DOMAIN es}
  <2>1. ASSUME NEW x \in H PROVE \E i \in DOMAIN es : Final(x) = Plain(i)
    <3>1. PICK i \in DOMAIN es : x = Staged(es[i])
      BY <1>3
    <3> QED
      BY <1>1, <3>1
  <2>2. ASSUME NEW i \in DOMAIN es PROVE \E x \in H : Final(x) = Plain(i)
    <3>1. Staged(es[i]) \in H
      BY <1>3
    <3> QED
      BY <1>1, <3>1
  <2> QED
    BY <2>1, <2>2
<1> QED
  BY <1>2, <1>4 DEF Final, Moded

\* The modes of the manifest are applied: staging is what will be published.
LEMMA ApplyModesRestores ==
  ASSUME RestoreInv, NEW r \in Restorers, ApplyModes(r)
  PROVE  RestoreInv'
<1>1. PICK k : k = rest[r]
  OBVIOUS
<1>2. /\ Local(k) /\ DOMAIN k = Fields /\ r \notin winners /\ k.pc = "modes"
      /\ k.result # "ok" /\ PathsDiffer(k.man) /\ UNCHANGED <<locks, target, winners>>
  BY <1>1, LocalsOf DEF ApplyModes, Published, Local, Working
<1>3. PICK es : es = k.man.entries
  OBVIOUS
<1>4. PICK H : H = {Staged(e) : e \in Range(es)}
  OBVIOUS
<1>5. k.staged = [made |-> TRUE, root |-> Private, has |-> H]
  BY <1>2, <1>3, <1>4 DEF Local, Built
<1>6. PICK G : G = Moded(es, H)
  OBVIOUS
<1>7. G = TreeOf(k.man).has
  BY <1>2, <1>3, <1>4, <1>6, ModesAreFinal
<1>8. PICK tree : tree = [k.staged EXCEPT !.root = k.man.root, !.has = G]
  OBVIOUS
<1>9. tree = TreeOf(k.man)
  <2>1. PICK m, root, priv, st : m = TRUE /\ root = k.man.root /\ priv = Private /\ st = k.staged
    OBVIOUS
  <2>2. st = [made |-> m, root |-> priv, has |-> H]
    BY <1>5, <2>1, Zenon
  <2>3. tree = [st EXCEPT !.root = root, !.has = G]
    BY <1>8, <2>1, Zenon
  <2>4. tree = [made |-> m, root |-> root, has |-> G]
    BY ONLY <2>2, <2>3
  <2>5. tree = [made |-> TRUE, root |-> k.man.root, has |-> TreeOf(k.man).has]
    BY <1>7, <2>1, <2>4, Zenon
  <2>6. TreeOf(k.man) = [made |-> TRUE, root |-> k.man.root, has |-> TreeOf(k.man).has]
    BY DEF TreeOf
  <2> QED
    BY <2>5, <2>6, Zenon
<1>10. PICK l : l = [k EXCEPT !.pc = "rename", !.staged = tree]
  OBVIOUS
<1>11. /\ DOMAIN l = Fields /\ l.pc = "rename" /\ l.result = k.result /\ l.as = k.as
       /\ l.staged = tree /\ l.man = k.man
  BY <1>2, <1>10 DEF Fields
<1>12. rest' = [rest EXCEPT ![r] = l]
  <2>1. k.staged.has = H /\ DOMAIN rest = Restorers
    BY <1>5 DEF RestoreInv
  <2>2. rest' = [rest EXCEPT ![r].pc = "rename", ![r].staged.root = rest[r].man.root,
                             ![r].staged.has = Moded(rest[r].man.entries, @)]
    BY Zenon DEF ApplyModes, Moded
  <2>3. rest' = [rest EXCEPT ![r].pc = "rename", ![r].staged.root = k.man.root,
                             ![r].staged.has = G]
    BY <1>1, <1>2, <1>3, <1>5, <1>6, <2>1, <2>2 DEF Fields
  <2> QED
    BY <1>1, <1>2, <1>5, <1>8, <1>10, <2>1, <2>3 DEF Fields
<1>13. /\ tree.made /\ DOMAIN tree = {"made", "root", "has"}
       /\ \A x \in tree.has : DOMAIN x = {"path", "kind", "data", "mode"}
  BY <1>9 DEF TreeOf
<1>14. Local(l)
  BY <1>2, <1>9, <1>11, <1>13 DEF Local, Steps, Working
<1> QED
  BY <1>1, <1>2, <1>11, <1>12, <1>14, QuietRestores DEF Locked

\* rename(2): the target becomes a whole tree at once.
LEMMA PublishRestores ==
  ASSUME RestoreInv, NEW r \in Restorers, Publish(r)
  PROVE  RestoreInv'
<1>1. PICK k : k = rest[r]
  OBVIOUS
<1>2. /\ Local(k) /\ DOMAIN k = Fields /\ r \notin winners /\ k.pc = "rename"
      /\ k.staged = TreeOf(k.man) /\ UNCHANGED locks
  BY <1>1, LocalsOf DEF Publish, Published, Local
<1>3. CASE Fails(r, "exists") /\ UNCHANGED <<target, winners>>
  BY <1>1, <1>2, <1>3, FailsRestores DEF Working
<1>4. CASE /\ target' = rest[r].staged /\ winners' = winners \cup {r}
           /\ rest' = [rest EXCEPT ![r].pc = "sync", ![r].staged = NoTree]
  <2>1. PICK l : l = [k EXCEPT !.pc = "sync", !.staged = NoTree]
    OBVIOUS
  <2>2. /\ DOMAIN l = Fields /\ l.pc = "sync" /\ l.as = k.as /\ l.staged = NoTree /\ l.man = k.man
    BY <1>2, <2>1 DEF Fields
  <2>3. rest' = [rest EXCEPT ![r] = l]
    BY <1>1, <1>4, <2>1
  <2>4. Local(l)
    BY <2>2 DEF Local, Steps, Working
  <2>5. /\ DOMAIN rest = Restorers /\ DOMAIN rest' = Restorers /\ rest'[r] = l
        /\ \A q \in Restorers \ {r} : rest'[q] = rest[q]
    BY <2>3 DEF RestoreInv
  <2>6. LockInv'
    BY <1>1, <1>2, <2>2, <2>5 DEF RestoreInv, LockInv, Locked
  <2>7. WinnerInv'
    BY <1>1, <1>2, <1>4, <2>2, <2>5 DEF RestoreInv, WinnerInv
  <2> QED
    BY <2>4, <2>5, <2>6, <2>7 DEF RestoreInv
<1> QED
  BY <1>3, <1>4 DEF Publish

\* The parent directory is synced, or not.
LEMMA SyncParentRestores ==
  ASSUME RestoreInv, NEW r \in Restorers, NEW ok \in BOOLEAN, SyncParent(r, ok)
  PROVE  RestoreInv'
<1>1. PICK k : k = rest[r]
  OBVIOUS
<1>2. /\ Local(k) /\ DOMAIN k = Fields /\ k.pc = "sync" /\ r \in winners
      /\ UNCHANGED <<locks, target, winners>> /\ k.staged = NoTree
  BY <1>1, LocalsOf DEF SyncParent, RestoreInv, WinnerInv, Local, Working
<1>3. PICK result : result = IF ok THEN "ok" ELSE "io"
  OBVIOUS
<1>4. PICK l : l = [k EXCEPT !.pc = "unlock", !.result = result]
  OBVIOUS
<1>5. /\ DOMAIN l = Fields /\ l.pc = "unlock" /\ l.as = k.as /\ l.staged = NoTree /\ l.man = k.man
  BY <1>2, <1>4 DEF Fields
<1>6. rest' = [rest EXCEPT ![r] = l]
  BY <1>1, <1>3, <1>4 DEF SyncParent
<1>7. Local(l)
  BY <1>5 DEF Local, Steps, Working
<1> QED
  BY <1>1, <1>2, <1>5, <1>6, <1>7, QuietRestores DEF Locked, Published

\* Once the owner has access to everything in it, staging can be removed,
\* however far it had come and whatever modes it had been given.
LEMMA StagingIsRemoved ==
  ASSUME NEW s,
         \/ s = NoTree
         \/ /\ s.made /\ DOMAIN s = {"made", "root", "has"}
            /\ \A x \in s.has : DOMAIN x = {"path", "kind", "data", "mode"}
  PROVE  remove_dir_all(make_tree_removable(s)) = NoTree
<1>1. CASE s = NoTree
  BY <1>1 DEF NoTree, make_tree_removable, remove_dir_all
<1>2. CASE /\ s.made /\ DOMAIN s = {"made", "root", "has"}
           /\ \A x \in s.has : DOMAIN x = {"path", "kind", "data", "mode"}
  <2>1. PICK H : H = {IF x.kind = "link" THEN x ELSE [x EXCEPT !.mode = Private] : x \in s.has}
    OBVIOUS
  <2>2. PICK t : t = [s EXCEPT !.root = Private, !.has = H]
    OBVIOUS
  <2>3. t.root = Private /\ t.has = H
    BY <1>2, <2>2
  <2>4. \A y \in H : y.kind = "dir" => y.mode = Private
    BY <1>2, <2>1
  <2>5. make_tree_removable(s) = t
    BY <1>2, <2>1, <2>2 DEF make_tree_removable
  <2> QED
    BY <2>3, <2>4, <2>5 DEF remove_dir_all, Private
<1> QED
  BY <1>1, <1>2

\* The staging guard cleans up after a failure.
LEMMA StagingGuardRestores ==
  ASSUME RestoreInv, NEW r \in Restorers, StagingGuard_drop(r)
  PROVE  RestoreInv'
<1>1. PICK k : k = rest[r]
  OBVIOUS
<1>2. /\ Local(k) /\ DOMAIN k = Fields /\ k.pc = "clean" /\ r \notin winners /\ k.result # "ok"
      /\ UNCHANGED <<locks, target, winners>>
  BY <1>1, LocalsOf DEF StagingGuard_drop, Published
<1>3. remove_dir_all(make_tree_removable(k.staged)) = NoTree
  BY <1>2, StagingIsRemoved DEF Local
<1>4. PICK l : l = [k EXCEPT !.pc = "unlock", !.staged = NoTree]
  OBVIOUS
<1>5. /\ DOMAIN l = Fields /\ l.pc = "unlock" /\ l.as = k.as /\ l.staged = NoTree
      /\ l.result = k.result
  BY <1>2, <1>4 DEF Fields
<1>6. rest' = [rest EXCEPT ![r] = l]
  BY <1>1, <1>3, <1>4 DEF StagingGuard_drop
<1>7. Local(l)
  BY <1>5 DEF Local, Steps, Working
<1> QED
  BY <1>1, <1>2, <1>5, <1>6, <1>7, QuietRestores DEF Locked

\* The lock guard removes the lock file, last.
LEMMA LockGuardRestores ==
  ASSUME RestoreInv, NEW r \in Restorers, RestoreLock_drop(r)
  PROVE  RestoreInv'
<1>1. PICK k : k = rest[r]
  OBVIOUS
<1>2. /\ Local(k) /\ DOMAIN k = Fields /\ k.pc = "unlock" /\ k.staged = NoTree
      /\ UNCHANGED <<target, winners>>
  BY <1>1, LocalsOf DEF RestoreLock_drop, Local, Working
<1>3. PICK l : l = [k EXCEPT !.pc = "done"]
  OBVIOUS
<1>4. /\ DOMAIN l = Fields /\ l.pc = "done" /\ l.as = k.as /\ l.staged = NoTree
      /\ l.result = k.result /\ l.man = k.man
  BY <1>2, <1>3 DEF Fields
<1>5. rest' = [rest EXCEPT ![r] = l]
  BY <1>1, <1>3 DEF RestoreLock_drop, Goes
<1>6. Local(l)
  BY <1>4 DEF Local, Steps, Working
<1>7. /\ DOMAIN rest = Restorers /\ DOMAIN rest' = Restorers /\ rest'[r] = l
      /\ \A q \in Restorers \ {r} : rest'[q] = rest[q]
  BY <1>5 DEF RestoreInv
<1>8. /\ k.as \in Spellings /\ locks[k.as] = r
      /\ \A s \in Spellings : locks[s] = r => s = k.as
  BY <1>1, <1>2 DEF RestoreInv, LockInv, Locked
<1>9. locks' = [locks EXCEPT ![k.as] = None]
  BY <1>1 DEF RestoreLock_drop
<1>10. LockInv'
  BY <1>4, <1>7, <1>8, <1>9, RestorersAssumption DEF RestoreInv, LockInv, Locked
<1>11. WinnerInv'
  BY <1>1, <1>2, <1>4, <1>7 DEF RestoreInv, WinnerInv
<1> QED
  BY <1>6, <1>7, <1>10, <1>11 DEF RestoreInv

\* A kill leaves everything where it is.
LEMMA KillRestores ==
  ASSUME RestoreInv, NEW r \in Restorers, Kill(r)
  PROVE  RestoreInv'
<1>1. Local(rest[r]) /\ DOMAIN rest[r] = Fields /\ UNCHANGED <<locks, target, winners>>
  BY LocalsOf DEF Kill
<1>2. PICK l : l = [rest[r] EXCEPT !.pc = "dead"]
  OBVIOUS
<1>3. DOMAIN l = Fields /\ l.pc = "dead" /\ l.staged = rest[r].staged
  BY <1>1, <1>2 DEF Fields
<1>4. Local(l)
  BY <1>1, <1>3 DEF Local, Steps, Working
<1> QED
  BY <1>1, <1>2, <1>4, GoesRestores DEF Kill, Steps, Locked, Published

\* The operator removes the lock file of a dead restorer.
LEMMA OperatorRestores ==
  ASSUME RestoreInv, NEW s \in Spellings, OperatorUnlocks(s)
  PROVE  RestoreInv'
<1>1. /\ locks' = [locks EXCEPT ![s] = None] /\ rest[locks[s]].pc = "dead"
      /\ UNCHANGED <<rest, target, winners>>
  BY DEF OperatorUnlocks
<1>2. LockInv'
  BY <1>1, RestorersAssumption DEF RestoreInv, LockInv, Locked
<1> QED
  BY <1>1, <1>2 DEF RestoreInv, WinnerInv

\* A step of a restorer fails on an I/O error or an injected fault.
LEMMA RestoreErrorRestores ==
  ASSUME RestoreInv, NEW r \in Restorers, RestoreError(r)
  PROVE  RestoreInv'
BY FailsRestores DEF RestoreError, Working

\* Initially nobody restores, and nothing is locked or published.
LEMMA InitRestores == Init => RestoreInv
<1> SUFFICES ASSUME Init PROVE RestoreInv
  OBVIOUS
<1>1. PICK l : l = [pc |-> "idle", as |-> None, man |-> None,
                    staged |-> NoTree, todo |-> {}, result |-> None]
  OBVIOUS
<1>2. l.pc = "idle" /\ l.staged = NoTree /\ l.result = None /\ DOMAIN l = Fields
  BY <1>1 DEF Fields
<1>3. DOMAIN rest = Restorers /\ \A r \in Restorers : rest[r] = l
  BY <1>1 DEF Init
<1>4. Local(l)
  BY <1>2 DEF Local, Steps, Working
<1>5. LockInv
  BY <1>2, <1>3, RestorersAssumption DEF Init, LockInv, Locked
<1>6. WinnerInv
  BY <1>2, <1>3 DEF Init, WinnerInv, NoTree, None
<1> QED
  BY <1>3, <1>4, <1>5, <1>6 DEF RestoreInv

\* A step of one restorer.
LEMMA RestoreStepRestores ==
  ASSUME RestoreInv, CaptureInv, NEW r \in Restorers, RestoreStep(r)
  PROVE  RestoreInv'
<1>1. ASSUME NEW s \in Spellings, NEW man \in Manifests, RestoreBegins(r, s, man) PROVE RestoreInv'
  BY <1>1, RestoreBeginsRestores
<1>2. CASE RestoreLock_acquire(r)
  BY <1>2, AcquireRestores
<1>3. CASE CreateStaging(r)
  BY <1>3, CreateStagingRestores
<1>4. CASE CreateEntry(r)
  BY <1>4, CreateEntryRestores
<1>5. CASE CheckTarget(r)
  BY <1>5, CheckTargetRestores
<1>6. CASE ApplyModes(r)
  BY <1>6, ApplyModesRestores
<1>7. CASE Publish(r)
  BY <1>7, PublishRestores
<1>8. ASSUME NEW ok \in BOOLEAN, SyncParent(r, ok) PROVE RestoreInv'
  BY <1>8, SyncParentRestores
<1>9. CASE RestoreError(r)
  BY <1>9, RestoreErrorRestores
<1>10. CASE StagingGuard_drop(r)
  BY <1>10, StagingGuardRestores
<1>11. CASE RestoreLock_drop(r)
  BY <1>11, LockGuardRestores
<1>12. CASE Kill(r)
  BY <1>12, KillRestores
<1> QED
  BY <1>1, <1>2, <1>3, <1>4, <1>5, <1>6, <1>7, <1>8, <1>9, <1>10, <1>11, <1>12 DEF RestoreStep

\* Everything that happens outside a restore leaves the restores alone.
LEMMA OthersAreQuiet ==
  ASSUME [Next]_vars, ~\E r \in Restorers : RestoreStep(r), ~\E s \in Spellings : OperatorUnlocks(s)
  PROVE  UNCHANGED <<rest, locks, target, winners>>
<1>1. ASSUME NEW root, snapshot(root) PROVE UNCHANGED <<rest, locks, target, winners>>
  BY <1>1 DEF snapshot, CaptureRest
<1>2. CASE WalkEntry
  BY <1>2 DEF WalkEntry, CaptureRest
<1>3. CASE OpenFile \/ ReadSome \/ ReadEnds \/ SnapshotEnds
  BY <1>3 DEF OpenFile, ReadSome, ReadEnds, SnapshotEnds, CaptureRest
<1>4. ASSUME NEW p, RemoveFile(p) \/ \E c \in Contents : WriteFile(p, c)
      PROVE  UNCHANGED <<rest, locks, target, winners>>
  BY <1>4 DEF RemoveFile, WriteFile
<1>5. ASSUME NEW c, LoseBlob(c) PROVE UNCHANGED <<rest, locks, target, winners>>
  BY <1>5 DEF LoseBlob
<1>6. CASE UNCHANGED vars
  BY <1>6 DEF vars
<1> QED
  BY <1>1, <1>2, <1>3, <1>4, <1>5, <1>6 DEF Next

\* Every step keeps the restores as the invariant has them.
LEMMA NextRestores ==
  ASSUME CaptureInv, RestoreInv, [Next]_vars
  PROVE  RestoreInv'
<1>1. CASE \E r \in Restorers : RestoreStep(r)
  BY <1>1, RestoreStepRestores
<1>2. CASE \E s \in Spellings : OperatorUnlocks(s)
  BY <1>2, OperatorRestores
<1>3. CASE UNCHANGED <<rest, locks, target, winners>>
  BY <1>3 DEF RestoreInv, LockInv, WinnerInv
<1> QED
  BY <1>1, <1>2, <1>3, OthersAreQuiet

\* The inductive invariant of restoring, whatever fails, dies or is unlocked.
THEOREM RestoreInvariance == Spec => []RestoreInv
<1>1. CaptureInv /\ RestoreInv /\ [Next]_vars => RestoreInv'
  BY NextRestores
<1> QED
  BY InitRestores, CaptureInvariance, <1>1, PTL DEF Spec

\* What stands at the target is at every moment nothing or a whole tree, with
\* its final modes, of the manifest one restorer was given.
TargetIsWhole == target.made => \E r \in winners : target = TreeOf(rest[r].man)

\* No reader of the target ever sees a partly built tree, however many
\* spellings of the target there are and whatever fails or is killed.
THEOREM TheTargetStaysWhole == Spec => []TargetIsWhole
<1>1. RestoreInv => TargetIsWhole
  BY DEF RestoreInv, WinnerInv, TargetIsWhole
<1> QED
  BY RestoreInvariance, <1>1, PTL

\* A restore that returned, in success or failure, left neither a staging tree
\* nor a lock file, and said ok only if its tree was published.
THEOREM RestoresCleanUp == Spec => []ReturnsLeaveNothing
<1>1. RestoreInv => ReturnsLeaveNothing
  <2> SUFFICES ASSUME RestoreInv, NEW r \in Restorers, rest[r].pc = "done"
               PROVE  /\ rest[r].staged = NoTree
                      /\ \A s \in Spellings : locks[s] # r
                      /\ rest[r].result = "ok" => r \in winners
    BY DEF ReturnsLeaveNothing
  <2>1. rest[r].staged = NoTree
    BY DEF RestoreInv, Local, Working
  <2>2. \A s \in Spellings : locks[s] # r
    BY DEF RestoreInv, LockInv, Locked
  <2> QED
    BY <2>1, <2>2 DEF RestoreInv, WinnerInv
<1> QED
  BY RestoreInvariance, <1>1, PTL

-----------------------------------------------------------------------------
(***************************************************************************)
(* One publisher at most.  The lock file is named after the spelling of    *)
(* the target, so this needs that all restorers spell it alike: with two   *)
(* spellings two of them may pass the checks, and rename(2) lets the       *)
(* second replace an empty tree.                                           *)
(***************************************************************************)

OneSpelling == \A s, t \in Spellings : s = t

\* The target stands iff somebody published, nobody past the last look at the
\* target finds it made, and the winners are one.
SoleInv ==
    /\ winners # {} <=> target.made
    /\ \A r \in Restorers : rest[r].pc \in {"modes", "rename"} => ~target.made
    /\ \A q, r \in winners : q = r

\* Two restorers of one spelling are never both under the lock.
LEMMA LockExcludes ==
  ASSUME OneSpelling, RestoreInv, NEW q \in Restorers, NEW r \in Restorers,
         rest[q].pc \in Locked, rest[r].pc \in Locked
  PROVE  q = r
<1>1. /\ rest[q].as \in Spellings /\ locks[rest[q].as] = q
      /\ rest[r].as \in Spellings /\ locks[rest[r].as] = r
  BY DEF RestoreInv, LockInv
<1>2. rest[q].as = rest[r].as
  BY <1>1 DEF OneSpelling
<1> QED
  BY <1>1, <1>2

\* Steps other than a publication keep the target, and only the last look at
\* the target leads to the steps beyond it.
LEMMA RestoreStepShape ==
  ASSUME RestoreInv, NEW r \in Restorers, RestoreStep(r), ~Publish(r)
  PROVE  /\ UNCHANGED <<target, winners>>
         /\ DOMAIN rest' = Restorers
         /\ \A q \in Restorers \ {r} : rest'[q] = rest[q]
         /\ rest'[r].pc \in {"modes", "rename"} =>
                \/ rest[r].pc \in {"modes", "rename"}
                \/ ~target.made
<1> DEFINE Goal == /\ UNCHANGED <<target, winners>>
                   /\ DOMAIN rest' = Restorers
                   /\ \A q \in Restorers \ {r} : rest'[q] = rest[q]
                   /\ rest'[r].pc \in {"modes", "rename"} =>
                          \/ rest[r].pc \in {"modes", "rename"}
                          \/ ~target.made
<1>1. DOMAIN rest = Restorers /\ DOMAIN rest[r] = Fields
  BY LocalsOf DEF RestoreInv
<1>2. ASSUME NEW s \in Spellings, NEW man \in Manifests, RestoreBegins(r, s, man) PROVE Goal
  BY <1>1, <1>2 DEF RestoreBegins, Returns, Fields
<1>3. CASE RestoreLock_acquire(r)
  BY <1>1, <1>3 DEF RestoreLock_acquire, Goes, Returns, Fields
<1>4. CASE CreateStaging(r)
  BY <1>1, <1>4 DEF CreateStaging, Fails, Fields
<1>5. CASE CreateEntry(r)
  <2>1. PICK e \in rest[r].todo :
          \/ \E new : rest' = [rest EXCEPT ![r].staged.has = @ \cup {new}, ![r].todo = @ \ {e}]
          \/ Fails(r, "io")
    BY <1>5 DEF CreateEntry
  <2>2. UNCHANGED <<target, winners>> /\ rest[r].pc = "build"
    BY <1>5 DEF CreateEntry
  <2>3. CASE Fails(r, "io")
    BY <1>1, <2>2, <2>3 DEF Fails, Fields
  <2>4. ASSUME NEW new, rest' = [rest EXCEPT ![r].staged.has = @ \cup {new}, ![r].todo = @ \ {e}]
        PROVE  Goal
    BY <1>1, <2>2, <2>4 DEF Fields
  <2> QED
    BY <2>1, <2>3, <2>4
<1>6. CASE CheckTarget(r)
  BY <1>1, <1>6 DEF CheckTarget, Fails, Goes, Fields
<1>7. CASE ApplyModes(r)
  <2>1. rest' = [rest EXCEPT ![r].pc = "rename", ![r].staged.root = rest[r].man.root,
                             ![r].staged.has = Moded(rest[r].man.entries, @)]
    BY <1>7, Zenon DEF ApplyModes, Moded
  <2>2. UNCHANGED <<target, winners>> /\ rest[r].pc = "modes"
    BY <1>7 DEF ApplyModes
  <2> QED
    BY <1>1, <2>1, <2>2 DEF Fields
<1>8. ASSUME NEW ok \in BOOLEAN, SyncParent(r, ok) PROVE Goal
  BY <1>1, <1>8 DEF SyncParent, Fields
<1>9. CASE RestoreError(r)
  BY <1>1, <1>9 DEF RestoreError, Fails, Fields
<1>10. CASE StagingGuard_drop(r)
  BY <1>1, <1>10 DEF StagingGuard_drop, Fields
<1>11. CASE RestoreLock_drop(r)
  BY <1>1, <1>11 DEF RestoreLock_drop, Goes, Fields
<1>12. CASE Kill(r)
  BY <1>1, <1>12 DEF Kill, Goes, Fields
<1> QED
  BY <1>2, <1>3, <1>4, <1>5, <1>6, <1>7, <1>8, <1>9, <1>10, <1>11, <1>12 DEF RestoreStep

\* Every step keeps the publisher sole.
LEMMA NextStaysSole ==
  ASSUME OneSpelling, RestoreInv, SoleInv, [Next]_vars
  PROVE  SoleInv'
<1>1. ASSUME NEW r \in Restorers, Publish(r) PROVE SoleInv'
  <2>1. rest[r].pc = "rename" /\ rest[r].staged = TreeOf(rest[r].man)
    BY <1>1 DEF Publish, RestoreInv, Local
  <2>2. ~target.made /\ winners = {}
    BY <2>1 DEF SoleInv
  <2>3. /\ target' = TreeOf(rest[r].man) /\ winners' = {r}
        /\ rest' = [rest EXCEPT ![r].pc = "sync", ![r].staged = NoTree]
    BY <1>1, <2>1, <2>2 DEF Publish
  <2>4. target'.made
    BY <2>3 DEF TreeOf
  <2>5. DOMAIN rest = Restorers /\ DOMAIN rest[r] = Fields
    BY LocalsOf DEF RestoreInv
  <2>6. rest'[r].pc = "sync" /\ \A q \in Restorers \ {r} : rest'[q] = rest[q]
    BY <2>3, <2>5 DEF Fields
  <2>7. ASSUME NEW q \in Restorers PROVE rest'[q].pc \notin {"modes", "rename"}
    BY <2>1, <2>6, LockExcludes DEF Locked
  <2> QED
    BY <2>3, <2>4, <2>7 DEF SoleInv
<1>2. ASSUME NEW r \in Restorers, RestoreStep(r), ~Publish(r) PROVE SoleInv'
  <2>1. /\ UNCHANGED <<target, winners>>
        /\ \A q \in Restorers \ {r} : rest'[q] = rest[q]
        /\ rest'[r].pc \in {"modes", "rename"} =>
               rest[r].pc \in {"modes", "rename"} \/ ~target.made
    BY <1>2, RestoreStepShape
  <2> QED
    BY <2>1 DEF SoleInv
<1>3. CASE \E s \in Spellings : OperatorUnlocks(s)
  BY <1>3 DEF OperatorUnlocks, SoleInv
<1>4. CASE UNCHANGED <<rest, locks, target, winners>>
  BY <1>4 DEF SoleInv
<1> QED
  BY <1>1, <1>2, <1>3, <1>4, OthersAreQuiet

\* Where the restorers spell the target alike, one at most publishes, the empty
\* workspace included, and what it published is whole.
THEOREM OneRestorerPublishes ==
  ASSUME OneSpelling PROVE Spec => []PublishedIsComplete
<1>1. Init => SoleInv
  <2>1. Init => rest = [r \in Restorers |-> [pc |-> "idle", as |-> None, man |-> None,
                                   staged |-> NoTree, todo |-> {}, result |-> None]]
                /\ winners = {} /\ target = NoTree
    BY DEF Init
  <2> QED
    BY <2>1 DEF SoleInv, NoTree
<1>2. RestoreInv /\ SoleInv /\ [Next]_vars => SoleInv'
  BY NextStaysSole
<1>3. RestoreInv /\ SoleInv => PublishedIsComplete
  <2> SUFFICES ASSUME RestoreInv, SoleInv PROVE PublishedIsComplete
    OBVIOUS
  <2>1. target.made => \E r \in winners : target = TreeOf(rest[r].man)
    BY DEF RestoreInv, WinnerInv
  <2>2. CASE winners = {}
    BY <2>1, <2>2, FS_EmptySet DEF PublishedIsComplete
  <2>3. ASSUME NEW r \in winners PROVE PublishedIsComplete
    <3>1. winners = {r}
      BY <2>3 DEF SoleInv
    <3>2. Cardinality(winners) = 1
      BY <3>1, FS_Singleton
    <3> QED
      BY <2>1, <3>2 DEF PublishedIsComplete
  <2> QED
    BY <2>2, <2>3
<1> QED
  BY RestoreInvariance, <1>1, <1>2, <1>3, PTL DEF Spec
=============================================================================
