--------------------------- MODULE BlobStoreProofs ---------------------------
(***************************************************************************)
(* Proofs about BlobStore, for any number of writers, openers, contents,   *)
(* media types and shard directories.                                      *)
(***************************************************************************)
EXTENDS BlobStore, TLAPS

\* A caller inside put has a real request; outside it has none.
RequestsAreReal ==
    \A w \in Writer :
        /\ put[w].pc = "idle" => put[w] = NoRequest
        /\ put[w].pc # "idle" => put[w].hash \in Hash /\ put[w].media \in Media
        /\ put[w].published => put[w].pc \in {"sync_shard", "discard"}

\* write_and_sync has run on every file that is about to be linked.
FullBeforeLink ==
    \A w \in Writer : put[w].pc \in {"recheck", "link", "sync_shard", "discard"} =>
        \A t \in Owned(w) : t.data = "full"

\* Without a stalled writer, only the files of dead writers are stale.
WritersAreYoung ==
    "stall" \notin Mishaps => \A t \in temps : t.owner \in Writer => ~t.old

\* Without a stalled writer, a caller has its temporary file from the step that
\* creates it to the step that removes it.
FilesAreKept ==
    \A w \in Writer :
        /\ put[w].pc \in {"write", "recheck", "link", "sync_shard", "discard"}
        /\ "stall" \notin Mishaps
        => Owned(w) # {}

PutInv ==
    /\ TypeOK
    /\ RequestsAreReal
    /\ FullBeforeLink
    /\ WritersAreYoung
    /\ FilesAreKept
    /\ PublishedIsComplete

-----------------------------------------------------------------------------
(* Type correctness. *)

\* A step of a caller keeps the type of its request.
LEMMA GotoType ==
  ASSUME put \in [Writer -> Request], NEW w \in Writer, NEW pc \in Step, Goto(w, pc)
  PROVE  put' \in [Writer -> Request]
<1>1. [put[w] EXCEPT !.pc = pc] \in Request
  BY DEF Request
<1> QED
  BY <1>1 DEF Goto

\* The initial and final request has the type of a request.
LEMMA NoRequestType == NoRequest \in Request
  BY DEF NoRequest, Request, Step, Slot

\* So does what a finished slot leaves behind.
LEMMA SlotDoneType ==
  ASSUME TypeOK, RequestsAreReal, NEW w \in Writer, put[w].pc # "idle", SlotDone(w)
  PROVE  put' \in [Writer -> Request] /\ acks' \subseteq [hash : Hash, media : Media]
<1>1. CASE put[w].slot = "blob"
  <2>1. [put[w] EXCEPT !.pc = "exists", !.slot = "media", !.published = FALSE] \in Request
    BY DEF TypeOK, Request, Step, Slot
  <2> QED
    BY <1>1, <2>1 DEF SlotDone, TypeOK
<1>2. CASE put[w].slot = "media"
  BY <1>2, NoRequestType DEF SlotDone, TypeOK, Return, RequestsAreReal
<1> QED
  BY <1>1, <1>2 DEF TypeOK, Request, Slot

\* Names that vanish from .tmp leave the listings well formed.
LEMMA VanishType ==
  ASSUME sweep \in [Opener -> Sweep], NEW owners, Vanish(owners)
  PROVE  sweep' \in [Opener -> Sweep]
<1> SUFFICES ASSUME NEW o \in Opener PROVE
      [sweep[o] EXCEPT !.todo = (@ \ owners) \cup (IF @ \cap owners = {} THEN {} ELSE {Gone})] \in Sweep
  BY DEF Vanish
<1> QED
  BY DEF Sweep

\* What a put leaves unsynced is well typed.
LEMMA LeavesUnsyncedType ==
  ASSUME TypeOK, NEW w \in Writer, LeavesUnsynced(w)
  PROVE  /\ UNCHANGED <<shards, shardSynced, files, synced>>
         /\ leftEntries' \subseteq Entry /\ leftShards' \subseteq Shard
<1>1. UnsyncedEntry(w) \subseteq Entry /\ UnsyncedShard(w) \subseteq Shard
  BY DEF UnsyncedEntry, UnsyncedShard, TypeOK
<1> QED
  BY <1>1 DEF LeavesUnsynced, TypeOK

\* The first state is well typed.
LEMMA TypeInit == Init => TypeOK
  BY NoRequestType DEF Init, TypeOK, Closed, Sweep, Entry

\* Every step of put keeps the types.
LEMMA TypePut ==
  ASSUME TypeOK, RequestsAreReal, NEW w \in Writer,
         \/ \E h \in Hash, m \in Media : Put(w, h, m)
         \/ CheckExists(w) \/ Verify(w)
         \/ LookupShard(w) \/ MakeShard(w) \/ SyncShardName(w)
         \/ CreateTemporary(w) \/ WriteTemporary(w) \/ Recheck(w)
         \/ Link(w) \/ SyncShard(w) \/ Discard(w)
         \/ Kill(w) \/ IoError(w)
  PROVE  TypeOK'
<1> USE ShardOfType, NoRequestType
<1>1. ASSUME NEW h \in Hash, NEW m \in Media, Put(w, h, m) PROVE TypeOK'
  <2>1. [NoRequest EXCEPT !.pc = "exists", !.hash = h, !.media = m] \in Request
    BY DEF NoRequest, Request, Step, Slot
  <2> QED
    BY <1>1, <2>1 DEF Put, TypeOK, disk, left
<1>2. CASE CheckExists(w)
  <2>1. put' \in [Writer -> Request]
    BY <1>2, GotoType DEF CheckExists, TypeOK, Step
  <2> QED
    BY <1>2, <2>1 DEF CheckExists, TypeOK, disk, left
<1>3. CASE Verify(w)
  <2>1. put' \in [Writer -> Request] /\ acks' \subseteq [hash : Hash, media : Media]
    BY <1>3, SlotDoneType DEF Verify, TypeOK, At, Fails, Return
  <2> QED
    BY <1>3, <2>1 DEF Verify, TypeOK, disk, left
<1>4. CASE LookupShard(w)
  <2>1. put' \in [Writer -> Request]
    BY <1>4, GotoType DEF LookupShard, TypeOK, Step
  <2> QED
    BY <1>4, <2>1 DEF LookupShard, TypeOK, disk, left
<1>5. CASE MakeShard(w)
  <2>1. put' \in [Writer -> Request]
    BY <1>5, GotoType DEF MakeShard, TypeOK, Step
  <2> QED
    BY <1>5, <2>1 DEF MakeShard, TypeOK, left, At, RequestsAreReal
<1>6. CASE SyncShardName(w)
  <2>1. put' \in [Writer -> Request]
    BY <1>6, GotoType DEF SyncShardName, TypeOK, Step
  <2> QED
    BY <1>6, <2>1 DEF SyncShardName, TypeOK
<1>7. CASE CreateTemporary(w)
  <2>1. put' \in [Writer -> Request]
    BY <1>7, GotoType DEF CreateTemporary, TypeOK, Step
  <2>2. [owner |-> w, data |-> Partial, old |-> FALSE] \in Temporary
    BY DEF Temporary
  <2>3. temps' \subseteq Temporary
    BY <1>7, <2>2 DEF CreateTemporary, TypeOK
  <2> QED
    BY <1>7, <2>1, <2>3 DEF CreateTemporary, TypeOK, disk, left
<1>8. CASE WriteTemporary(w)
  <2>1. put' \in [Writer -> Request]
    BY <1>8, GotoType DEF WriteTemporary, TypeOK, Step
  <2>2. \A t \in Temporary : [t EXCEPT !.data = "full"] \in Temporary
    BY DEF Temporary
  <2>3. temps' \subseteq Temporary
    BY <1>8, <2>2 DEF WriteTemporary, TypeOK, Owned
  <2> QED
    BY <1>8, <2>1, <2>3 DEF WriteTemporary, TypeOK, disk, left
<1>9. CASE Recheck(w)
  <2>1. put' \in [Writer -> Request]
    BY <1>9, GotoType DEF Recheck, TypeOK, Step
  <2> QED
    BY <1>9, <2>1 DEF Recheck, TypeOK, disk, left
<1>10. CASE Link(w)
  <2>1. put' \in [Writer -> Request] /\ acks' = acks
    <3>1. CASE Fails(w)
      BY <1>10, <3>1 DEF Fails, Return, TypeOK
    <3>2. CASE Goto(w, "discard") /\ UNCHANGED acks
      BY <3>2, GotoType DEF TypeOK, Step
    <3>3. CASE put' = [put EXCEPT ![w].pc = "sync_shard", ![w].published = TRUE] /\ UNCHANGED acks
      <4>1. [put[w] EXCEPT !.pc = "sync_shard", !.published = TRUE] \in Request
        BY DEF TypeOK, Request, Step
      <4> QED
        BY <3>3, <4>1 DEF TypeOK
    <3> QED
      BY <1>10, <3>1, <3>2, <3>3 DEF Link
  <2>2. files' \in [Hash -> [Slot -> Hash \cup Media \cup {None, Corrupt, Partial}]]
    <3>1. CASE UNCHANGED files
      BY <3>1 DEF TypeOK
    <3>2. ASSUME NEW x \in Hash \cup Media \cup {None, Corrupt, Partial},
                 files' = [files EXCEPT ![put[w].hash][put[w].slot] = x]
          PROVE  files' \in [Hash -> [Slot -> Hash \cup Media \cup {None, Corrupt, Partial}]]
      BY <3>2 DEF TypeOK
    <3> QED
      BY <1>10, <3>1, <3>2 DEF Link, At, RequestsAreReal
  <2> QED
    BY <1>10, <2>1, <2>2 DEF Link, TypeOK, left
<1>11. CASE SyncShard(w)
  <2>1. put' \in [Writer -> Request]
    BY <1>11, GotoType DEF SyncShard, TypeOK, Step
  <2> QED
    BY <1>11, <2>1 DEF SyncShard, TypeOK
<1>12. CASE Discard(w)
  <2>1. put' \in [Writer -> Request] /\ acks' \subseteq [hash : Hash, media : Media]
    BY <1>12, GotoType, SlotDoneType DEF Discard, TypeOK, Fails, Return, At, Step
  <2>2. sweep' \in [Opener -> Sweep]
    BY <1>12, VanishType DEF Discard, TypeOK
  <2> QED
    BY <1>12, <2>1, <2>2 DEF Discard, TypeOK, disk, left
<1>13. CASE Kill(w)
  <2>1. \A t \in Temporary : [t EXCEPT !.owner = Orphan, !.data = Partial] \in Temporary
    BY DEF Temporary
  <2>2. temps' \subseteq Temporary
    BY <1>13, <2>1 DEF Kill, TypeOK, Owned, Orphaned
  <2>3. sweep' \in [Opener -> Sweep]
    <3> SUFFICES ASSUME NEW o \in Opener PROVE
          [sweep[o] EXCEPT !.todo = {IF x = w THEN Orphan ELSE x : x \in @}] \in Sweep
      BY <1>13 DEF Kill
    <3> QED
      BY DEF Sweep, TypeOK
  <2> QED
    BY LeavesUnsyncedType, <1>13, <2>2, <2>3 DEF Kill, TypeOK
<1>14. CASE IoError(w)
  <2>1. sweep' \in [Opener -> Sweep]
    BY <1>14, VanishType DEF IoError, TypeOK
  <2> QED
    BY LeavesUnsyncedType, <1>14, <2>1 DEF IoError, TypeOK, Fails, Return
<1> QED
  BY <1>1, <1>2, <1>3, <1>4, <1>5, <1>6, <1>7, <1>8, <1>9, <1>10, <1>11, <1>12, <1>13, <1>14

\* So does every step of an open and of the environment.
LEMMA TypeRest ==
  ASSUME TypeOK,
         \/ \E o \in Opener :
               \/ Open(o) \/ SweepDone(o)
               \/ \E x \in Writer \cup {Orphan, Gone} : SweepEntry(o, x)
         \/ \E t \in temps : Age(t)
         \/ \E h \in Hash, s \in Slot : Tamper(h, s)
         \/ PowerLoss
  PROVE  TypeOK'
<1>1. ASSUME NEW o \in Opener, Open(o) PROVE TypeOK'
  <2>1. {t.owner : t \in temps} \subseteq Writer \cup {Orphan, Gone}
    BY DEF TypeOK, Temporary
  <2>2. [pc |-> "sweeping", todo |-> {t.owner : t \in temps}] \in Sweep
    BY <2>1 DEF Sweep
  <2> QED
    BY <1>1, <2>2 DEF Open, TypeOK, disk, left
<1>2. ASSUME NEW o \in Opener, SweepDone(o) PROVE TypeOK'
  <2>1. [sweep[o] EXCEPT !.pc = "open"] \in Sweep
    BY DEF Sweep, TypeOK
  <2> QED
    BY <1>2, <2>1 DEF SweepDone, TypeOK, disk, left
<1>3. ASSUME NEW o \in Opener, NEW x \in Writer \cup {Orphan, Gone}, SweepEntry(o, x) PROVE TypeOK'
  <2>1. temps' \subseteq Temporary
    BY <1>3 DEF SweepEntry, TypeOK
  <2>2. sweep' \in [Opener -> Sweep]
    <3>1. CASE x = Gone
      BY <1>3, <3>1 DEF SweepEntry, TypeOK, Sweep
    <3>2. CASE x # Gone
      <4> DEFINE vanished == {x} \ {t.owner : t \in temps'}
                 One(p) == [sweep[p] EXCEPT !.todo =
                              (@ \ vanished) \cup (IF @ \cap vanished = {} THEN {} ELSE {Gone})]
      <4>1. [sweep[o] EXCEPT !.todo = @ \ {x}] \in Sweep
        BY DEF TypeOK, Sweep
      <4>2. ASSUME NEW p \in Opener PROVE One(p) \in Sweep
        <5> HIDE DEF vanished
        <5> QED
          BY DEF TypeOK, Sweep
      <4>3. sweep' = [p \in Opener |-> IF p = o THEN [sweep[o] EXCEPT !.todo = @ \ {x}] ELSE One(p)]
        BY <1>3, <3>2 DEF SweepEntry
      <4> HIDE DEF One
      <4> QED
        BY <4>1, <4>2, <4>3
    <3> QED
      BY <3>1, <3>2
  <2> QED
    BY <1>3, <2>1, <2>2 DEF SweepEntry, TypeOK, disk, left
<1>4. ASSUME NEW t \in temps, Age(t) PROVE TypeOK'
  <2>1. [t EXCEPT !.old = TRUE] \in Temporary
    BY DEF TypeOK, Temporary
  <2> QED
    BY <1>4, <2>1 DEF Age, TypeOK, disk, left
<1>5. ASSUME NEW h \in Hash, NEW s \in Slot, Tamper(h, s) PROVE TypeOK'
  BY <1>5 DEF Tamper, TypeOK, left
<1>6. CASE PowerLoss
  <2>1. PICK kept \in SUBSET shards, lost \in SUBSET (Published \ synced) :
          /\ files' = [h \in Hash |-> [s \in Slot |->
                          IF ShardOf[h] \notin kept \/ <<h, s>> \in lost
                            THEN None ELSE files[h][s]]]
          /\ shards' = kept
    BY <1>6 DEF PowerLoss
  <2>2. \A t \in Temporary : [t EXCEPT !.owner = Orphan, !.data = Partial] \in Temporary
    BY DEF Temporary
  <2>3. temps' \subseteq Temporary
    <3>1. temps' \subseteq Orphaned(temps)
      BY <1>6 DEF PowerLoss
    <3>2. Orphaned(temps) \subseteq Temporary
      BY <2>2 DEF TypeOK, Orphaned
    <3> QED
      BY <3>1, <3>2
  <2>4. files' \in [Hash -> [Slot -> Hash \cup Media \cup {None, Corrupt, Partial}]]
    BY <2>1 DEF TypeOK
  <2>5. put' \in [Writer -> Request] /\ sweep' \in [Opener -> Sweep]
    BY <1>6, NoRequestType DEF PowerLoss, Closed, Sweep
  <2>6. synced' \subseteq Entry /\ shardSynced' = shards' /\ acks' \subseteq acks
    BY <1>6 DEF PowerLoss, Published
  <2>7. leftEntries' = {} /\ leftShards' = {}
    BY <1>6 DEF PowerLoss
  <2> QED
    BY <2>1, <2>3, <2>4, <2>5, <2>6, <2>7 DEF TypeOK
<1> QED
  BY <1>1, <1>2, <1>3, <1>4, <1>5, <1>6

-----------------------------------------------------------------------------
(* Nothing incomplete is published, and the sweep spares live writers. *)

\* The invariant holds on an empty store.
LEMMA PutInvInit == Init => PutInv
<1> SUFFICES ASSUME Init PROVE PutInv
  OBVIOUS
<1>1. TypeOK
  BY TypeInit
<1>2. RequestsAreReal /\ FullBeforeLink /\ WritersAreYoung /\ FilesAreKept
  BY DEF Init, RequestsAreReal, FullBeforeLink, WritersAreYoung, FilesAreKept, NoRequest
<1>3. PublishedIsComplete
  BY DEF Init, PublishedIsComplete, None, Partial
<1> QED
  BY <1>1, <1>2, <1>3 DEF PutInv

\* The files of .tmp by their owner: what a step does to the files of one
\* writer leaves the files of the others alone.
LEMMA OwnedSplit ==
  ASSUME TypeOK, NEW w \in Writer, NEW v \in Writer, v # w, NEW new,
         \A t \in new : t.owner \in {w, Orphan}, temps' = (temps \ Owned(w)) \cup new
  PROVE  Owned(v)' = Owned(v)
  BY TagsAreNotWriters DEF Owned, Orphan


\* A slot that is done, or a put that fails, leaves a request that is at its
\* beginning or none, and no other.
LEMMA EndsReal ==
  ASSUME TypeOK, RequestsAreReal, NEW w \in Writer, put[w].pc # "idle",
         SlotDone(w) \/ Fails(w)
  PROVE  /\ RequestsAreReal'
         /\ put'[w].pc \in {"exists", "idle"}
         /\ \A v \in Writer : v # w => put'[v] = put[v]
<1>1. CASE put[w].slot = "blob" /\ SlotDone(w)
  <2> DEFINE r == [put[w] EXCEPT !.pc = "exists", !.slot = "media", !.published = FALSE]
  <2>1. put' = [put EXCEPT ![w] = r]
    BY <1>1 DEF SlotDone
  <2>2. r.pc = "exists" /\ r.hash = put[w].hash /\ r.media = put[w].media /\ r.published = FALSE
    BY DEF TypeOK, Request
  <2> HIDE DEF r
  <2> QED
    BY <2>1, <2>2 DEF RequestsAreReal, TypeOK
<1>2. CASE Return(w)
  <2>1. NoRequest.pc = "idle" /\ NoRequest.published = FALSE
    BY DEF NoRequest
  <2> QED
    BY <1>2, <2>1 DEF Return, RequestsAreReal, TypeOK
<1> QED
  BY <1>1, <1>2 DEF SlotDone, Fails

\* Every step of put preserves the invariant.
LEMMA PutInvPut ==
  ASSUME PutInv, NEW w \in Writer,
         \/ \E h \in Hash, m \in Media : Put(w, h, m)
         \/ CheckExists(w) \/ Verify(w)
         \/ LookupShard(w) \/ MakeShard(w) \/ SyncShardName(w)
         \/ CreateTemporary(w) \/ WriteTemporary(w) \/ Recheck(w)
         \/ Link(w) \/ SyncShard(w) \/ Discard(w)
         \/ Kill(w) \/ IoError(w)
  PROVE  PutInv'
<1> USE DEF PutInv
<1>0. TypeOK'
  BY TypePut
<1>1. ASSUME NEW h \in Hash, NEW m \in Media, Put(w, h, m) PROVE PutInv'
  <2>1. RequestsAreReal'
    BY <1>1 DEF Put, At, Goto, disk, left, NoRequest, RequestsAreReal, TypeOK, Request
  <2>2. FullBeforeLink' /\ FilesAreKept'
    BY <1>1 DEF Put, At, Goto, disk, left, NoRequest, FullBeforeLink, FilesAreKept, Owned, TypeOK, Request
  <2>3. WritersAreYoung'
    BY <1>1 DEF Put, At, Goto, disk, left, NoRequest, WritersAreYoung, Owned, TypeOK
  <2>4. PublishedIsComplete'
    BY <1>1 DEF Put, At, Goto, disk, left, NoRequest, PublishedIsComplete, TypeOK
  <2> QED
    BY <1>0, <2>1, <2>2, <2>3, <2>4
<1>2. CASE CheckExists(w)
  <2>1. RequestsAreReal'
    BY <1>2 DEF CheckExists, At, Goto, disk, left, Target, RequestsAreReal, TypeOK, Request
  <2>2. FullBeforeLink' /\ FilesAreKept'
    BY <1>2 DEF CheckExists, At, Goto, disk, left, Target, FullBeforeLink, FilesAreKept, Owned, TypeOK, Request
  <2>3. WritersAreYoung'
    BY <1>2 DEF CheckExists, At, Goto, disk, left, Target, WritersAreYoung, Owned, TypeOK
  <2>4. PublishedIsComplete'
    BY <1>2 DEF CheckExists, At, Goto, disk, left, Target, PublishedIsComplete, TypeOK
  <2> QED
    BY <1>0, <2>1, <2>2, <2>3, <2>4
<1>3. CASE Verify(w)
  <2>1. /\ RequestsAreReal'
        /\ put'[w].pc \in {"exists", "idle"}
        /\ \A v \in Writer : v # w => put'[v] = put[v]
    BY <1>3, EndsReal DEF Verify, At
  <2>2. FullBeforeLink' /\ FilesAreKept'
    BY <1>3, <2>1 DEF Verify, FullBeforeLink, FilesAreKept, Owned
  <2>3. WritersAreYoung'
    BY <1>3 DEF Verify, At, Goto, disk, left, SlotDone, Fails, Return, NoRequest, WritersAreYoung, Owned, TypeOK
  <2>4. PublishedIsComplete'
    BY <1>3 DEF Verify, At, Goto, disk, left, SlotDone, Fails, Return, NoRequest, PublishedIsComplete, TypeOK
  <2> QED
    BY <1>0, <2>1, <2>2, <2>3, <2>4
<1>4. CASE LookupShard(w)
  <2>1. RequestsAreReal'
    BY <1>4 DEF LookupShard, At, Goto, disk, left, RequestsAreReal, TypeOK, Request
  <2>2. FullBeforeLink' /\ FilesAreKept'
    BY <1>4 DEF LookupShard, At, Goto, disk, left, FullBeforeLink, FilesAreKept, Owned, TypeOK, Request
  <2>3. WritersAreYoung'
    BY <1>4 DEF LookupShard, At, Goto, disk, left, WritersAreYoung, Owned, TypeOK
  <2>4. PublishedIsComplete'
    BY <1>4 DEF LookupShard, At, Goto, disk, left, PublishedIsComplete, TypeOK
  <2> QED
    BY <1>0, <2>1, <2>2, <2>3, <2>4
<1>5. CASE MakeShard(w)
  <2>1. RequestsAreReal'
    BY <1>5 DEF MakeShard, At, Goto, disk, left, RequestsAreReal, TypeOK, Request
  <2>2. FullBeforeLink' /\ FilesAreKept'
    BY <1>5 DEF MakeShard, At, Goto, disk, left, FullBeforeLink, FilesAreKept, Owned, TypeOK, Request
  <2>3. WritersAreYoung'
    BY <1>5 DEF MakeShard, At, Goto, disk, left, WritersAreYoung, Owned, TypeOK
  <2>4. PublishedIsComplete'
    BY <1>5 DEF MakeShard, At, Goto, disk, left, PublishedIsComplete, TypeOK
  <2> QED
    BY <1>0, <2>1, <2>2, <2>3, <2>4
<1>6. CASE SyncShardName(w)
  <2>1. RequestsAreReal'
    BY <1>6 DEF SyncShardName, At, Goto, disk, left, RequestsAreReal, TypeOK, Request
  <2>2. FullBeforeLink' /\ FilesAreKept'
    BY <1>6 DEF SyncShardName, At, Goto, disk, left, FullBeforeLink, FilesAreKept, Owned, TypeOK, Request
  <2>3. WritersAreYoung'
    BY <1>6 DEF SyncShardName, At, Goto, disk, left, WritersAreYoung, Owned, TypeOK
  <2>4. PublishedIsComplete'
    BY <1>6 DEF SyncShardName, At, Goto, disk, left, PublishedIsComplete, TypeOK
  <2> QED
    BY <1>0, <2>1, <2>2, <2>3, <2>4
<1>7. CASE CreateTemporary(w)
  <2>1. RequestsAreReal'
    BY <1>7 DEF CreateTemporary, At, Goto, disk, left, RequestsAreReal, TypeOK, Request
  <2>2. FullBeforeLink' /\ FilesAreKept'
    <3>1. \A v \in Writer : v # w => Owned(v)' = Owned(v) /\ put'[v] = put[v]
      BY <1>7 DEF CreateTemporary, Owned, Goto, TypeOK
    <3>2. [owner |-> w, data |-> Partial, old |-> FALSE] \in Owned(w)'
      BY <1>7 DEF CreateTemporary, Owned
    <3>3. put'[w].pc = "write"
      BY <1>7 DEF CreateTemporary, Goto, TypeOK, Request
    <3> QED
      BY <3>1, <3>2, <3>3 DEF FullBeforeLink, FilesAreKept
  <2>3. WritersAreYoung'
    BY <1>7 DEF CreateTemporary, At, Goto, disk, left, WritersAreYoung, Owned, TypeOK
  <2>4. PublishedIsComplete'
    BY <1>7 DEF CreateTemporary, At, Goto, disk, left, PublishedIsComplete, TypeOK
  <2> QED
    BY <1>0, <2>1, <2>2, <2>3, <2>4
<1>8. CASE WriteTemporary(w)
  <2>1. RequestsAreReal'
    BY <1>8 DEF WriteTemporary, At, Goto, disk, left, RequestsAreReal, TypeOK, Request
  <2>2. /\ FullBeforeLink' /\ FilesAreKept'
        /\ \A t \in temps' : t \in temps \/ \E u \in temps : t.owner = u.owner /\ t.old = u.old
    <3> DEFINE new == {[t EXCEPT !.data = "full"] : t \in Owned(w)}
    <3>1. \A t \in new : t.owner = w /\ t.data = "full" /\ \E u \in Owned(w) : t.old = u.old
      BY DEF Owned, TypeOK, Temporary
    <3>2. (Owned(w) = {} <=> new = {}) /\ temps' = (temps \ Owned(w)) \cup new
      BY <1>8 DEF WriteTemporary
    <3> HIDE DEF new
    <3>3. \A v \in Writer : v # w => Owned(v)' = Owned(v) /\ put'[v] = put[v]
      BY <1>8, <3>1, <3>2, OwnedSplit DEF WriteTemporary, Goto, TypeOK
    <3>4. Owned(w)' = new
      BY <3>1, <3>2 DEF Owned
    <3>5. put[w].pc = "write"
      BY <1>8 DEF WriteTemporary, At
    <3>6. "stall" \notin Mishaps => Owned(w)' # {}
      BY <3>2, <3>4, <3>5 DEF FilesAreKept
    <3> QED
      BY <3>1, <3>2, <3>3, <3>4, <3>6 DEF FullBeforeLink, FilesAreKept, Owned
  <2>3. WritersAreYoung'
    BY <2>2 DEF WritersAreYoung
  <2>4. PublishedIsComplete'
    BY <1>8 DEF WriteTemporary, At, Goto, disk, left, PublishedIsComplete, TypeOK
  <2> QED
    BY <1>0, <2>1, <2>2, <2>3, <2>4
<1>9. CASE Recheck(w)
  <2>1. RequestsAreReal'
    BY <1>9 DEF Recheck, At, Goto, disk, left, Target, RequestsAreReal, TypeOK, Request
  <2>2. FullBeforeLink' /\ FilesAreKept'
    BY <1>9 DEF Recheck, At, Goto, disk, left, Target, FullBeforeLink, FilesAreKept, Owned, TypeOK, Request
  <2>3. WritersAreYoung'
    BY <1>9 DEF Recheck, At, Goto, disk, left, Target, WritersAreYoung, Owned, TypeOK
  <2>4. PublishedIsComplete'
    BY <1>9 DEF Recheck, At, Goto, disk, left, Target, PublishedIsComplete, TypeOK
  <2> QED
    BY <1>0, <2>1, <2>2, <2>3, <2>4
<1>10. CASE Link(w)
  <2>1. RequestsAreReal'
    <3>1. CASE Fails(w)
      BY <1>10, <3>1, EndsReal DEF Link, At
    <3>2. CASE Goto(w, "discard")
      BY <1>10, <3>2 DEF Link, At, Goto, RequestsAreReal, TypeOK, Request
    <3>3. CASE put' = [put EXCEPT ![w].pc = "sync_shard", ![w].published = TRUE]
      BY <1>10, <3>3 DEF Link, At, RequestsAreReal, TypeOK, Request
    <3> QED
      BY <1>10, <3>1, <3>2, <3>3 DEF Link
  <2>2. FullBeforeLink' /\ FilesAreKept'
    BY <1>10 DEF Link, At, Goto, disk, left, Fails, Return, NoRequest, Target, FullBeforeLink, FilesAreKept, Owned, TypeOK, Request
  <2>3. WritersAreYoung'
    BY <1>10 DEF Link, At, Goto, disk, left, Fails, Return, NoRequest, Target, WritersAreYoung, Owned, TypeOK
  <2>4. PublishedIsComplete'
    <3>1. CASE UNCHANGED files
      BY <3>1 DEF PublishedIsComplete
    <3>2. CASE ~UNCHANGED files
      <4>1. put[w].hash \in Hash /\ put[w].media \in Media /\ put[w].slot \in Slot
        BY <1>10 DEF Link, At, RequestsAreReal, TypeOK, Request
      <4>2. PICK t \in Owned(w) :
              files' = [files EXCEPT ![put[w].hash][put[w].slot] =
                           CASE t.data # "full" -> Partial
                             [] t.data = "full" /\ put[w].slot = "blob" -> put[w].hash
                             [] OTHER -> put[w].media]
        BY <1>10, <3>2 DEF Link
      <4>3. t.data = "full"
        BY <1>10 DEF Link, At, FullBeforeLink
      <4>4. PICK x \in Hash \cup Media : files' = [files EXCEPT ![put[w].hash][put[w].slot] = x]
        BY <4>1, <4>2, <4>3
      <4>5. x # Partial
        BY TagsAreNotData
      <4> QED
        BY <4>1, <4>4, <4>5 DEF PublishedIsComplete, TypeOK
    <3> QED
      BY <3>1, <3>2
  <2> QED
    BY <1>0, <2>1, <2>2, <2>3, <2>4
<1>11. CASE SyncShard(w)
  <2>1. RequestsAreReal'
    BY <1>11 DEF SyncShard, At, Goto, disk, left, RequestsAreReal, TypeOK, Request
  <2>2. FullBeforeLink' /\ FilesAreKept'
    BY <1>11 DEF SyncShard, At, Goto, disk, left, FullBeforeLink, FilesAreKept, Owned, TypeOK, Request
  <2>3. WritersAreYoung'
    BY <1>11 DEF SyncShard, At, Goto, disk, left, WritersAreYoung, Owned, TypeOK
  <2>4. PublishedIsComplete'
    BY <1>11 DEF SyncShard, At, Goto, disk, left, PublishedIsComplete, TypeOK
  <2> QED
    BY <1>0, <2>1, <2>2, <2>3, <2>4
<1>12. CASE Discard(w)
  <2>1. RequestsAreReal'
    <3>1. CASE Fails(w) \/ SlotDone(w)
      BY <1>12, <3>1, EndsReal DEF Discard, At
    <3>2. CASE ~put[w].published /\ Goto(w, "verify")
      BY <1>12, <3>2 DEF Discard, At, Goto, RequestsAreReal, TypeOK, Request
    <3> QED
      BY <1>12, <3>1, <3>2 DEF Discard
  <2>2. FullBeforeLink' /\ FilesAreKept'
    <3>1. /\ put'[w].pc \in {"exists", "idle", "verify"}
          /\ \A v \in Writer : v # w => put'[v] = put[v]
      <4>1. CASE SlotDone(w) \/ Fails(w)
        BY <1>12, <4>1, EndsReal DEF Discard, At
      <4>2. CASE Goto(w, "verify")
        BY <4>2 DEF Goto, TypeOK, Request
      <4> QED
        BY <1>12, <4>1, <4>2 DEF Discard
    <3>2. temps' = temps \/ temps' = temps \ Owned(w)
      BY <1>12 DEF Discard
    <3>3. \A v \in Writer : v # w => Owned(v)' = Owned(v)
      BY <3>2 DEF Owned
    <3> QED
      BY <3>1, <3>3 DEF FullBeforeLink, FilesAreKept
  <2>3. WritersAreYoung'
    BY <1>12 DEF Discard, At, Goto, disk, left, SlotDone, Fails, Return, NoRequest, WritersAreYoung, Owned, TypeOK
  <2>4. PublishedIsComplete'
    BY <1>12 DEF Discard, At, Goto, disk, left, SlotDone, Fails, Return, NoRequest, PublishedIsComplete, TypeOK
  <2> QED
    BY <1>0, <2>1, <2>2, <2>3, <2>4
<1>13. CASE Kill(w)
  <2>1. RequestsAreReal'
    BY <1>13 DEF Kill, At, Goto, disk, left, NoRequest, RequestsAreReal, TypeOK, Request
  <2>2. /\ FullBeforeLink' /\ FilesAreKept'
        /\ \A t \in temps' : t \in temps \/ t.owner = Orphan
    <3>1. \A t \in Orphaned(Owned(w)) : t.owner = Orphan
      <4>1. \A t \in Temporary : [t EXCEPT !.owner = Orphan, !.data = Partial].owner = Orphan
        BY DEF Temporary
      <4>2. Owned(w) \subseteq Temporary
        BY DEF Owned, TypeOK
      <4> QED
        BY <4>1, <4>2 DEF Orphaned
    <3>2. temps' = (temps \ Owned(w)) \cup Orphaned(Owned(w))
      BY <1>13 DEF Kill
    <3> HIDE DEF Orphaned
    <3>3. \A v \in Writer : v # w => Owned(v)' = Owned(v)
      BY <3>1, <3>2, OwnedSplit
    <3>4. put'[w].pc = "idle" /\ \A v \in Writer : v # w => put'[v] = put[v]
      BY <1>13 DEF Kill, NoRequest, TypeOK
    <3> QED
      BY <3>1, <3>2, <3>3, <3>4 DEF FullBeforeLink, FilesAreKept
  <2>3. WritersAreYoung'
    BY <2>2, TagsAreNotWriters DEF WritersAreYoung
  <2>4. PublishedIsComplete'
    BY <1>13 DEF Kill, At, Goto, disk, left, LeavesUnsynced, NoRequest, PublishedIsComplete, TypeOK
  <2> QED
    BY <1>0, <2>1, <2>2, <2>3, <2>4
<1>14. CASE IoError(w)
  <2>1. RequestsAreReal'
    BY <1>14 DEF IoError, At, Goto, disk, left, Fails, Return, NoRequest, RequestsAreReal, TypeOK, Request
  <2>2. FullBeforeLink' /\ FilesAreKept'
    BY <1>14 DEF IoError, At, Goto, disk, left, Fails, Return, NoRequest, FullBeforeLink, FilesAreKept, Owned, TypeOK, Request
  <2>3. WritersAreYoung'
    BY <1>14 DEF IoError, At, Goto, disk, left, Fails, Return, NoRequest, WritersAreYoung, Owned, TypeOK
  <2>4. PublishedIsComplete'
    BY <1>14 DEF IoError, At, Goto, disk, left, LeavesUnsynced, Fails, Return, NoRequest, PublishedIsComplete, TypeOK
  <2> QED
    BY <1>0, <2>1, <2>2, <2>3, <2>4
<1> QED
  BY <1>1, <1>2, <1>3, <1>4, <1>5, <1>6, <1>7, <1>8, <1>9, <1>10, <1>11, <1>12, <1>13, <1>14

\* So does every step of an open and of the environment.
LEMMA PutInvRest ==
  ASSUME PutInv,
         \/ \E o \in Opener :
               \/ Open(o) \/ SweepDone(o)
               \/ \E x \in Writer \cup {Orphan, Gone} : SweepEntry(o, x)
         \/ \E t \in temps : Age(t)
         \/ \E h \in Hash, s \in Slot : Tamper(h, s)
         \/ PowerLoss
  PROVE  PutInv'
<1> USE DEF PutInv
<1>0. TypeOK'
  BY TypeRest
<1>1. ASSUME NEW o \in Opener, Open(o) \/ SweepDone(o) PROVE PutInv'
  BY <1>0, <1>1 DEF Open, SweepDone, disk, left, RequestsAreReal, FullBeforeLink, WritersAreYoung,
                    FilesAreKept, PublishedIsComplete, Owned
<1>2. ASSUME NEW o \in Opener, NEW x \in Writer \cup {Orphan, Gone}, SweepEntry(o, x) PROVE PutInv'
  <2>1. temps' \subseteq temps /\ \A t \in temps : ~t.old => t \in temps'
    BY <1>2 DEF SweepEntry
  <2>2. UNCHANGED <<put, files>>
    BY <1>2 DEF SweepEntry, disk, left
  <2>3. \A w \in Writer : "stall" \notin Mishaps => Owned(w) \subseteq Owned(w)'
    BY <2>1 DEF WritersAreYoung, Owned
  <2>4. \A w \in Writer : Owned(w)' \subseteq Owned(w)
    BY <2>1 DEF Owned
  <2>5. WritersAreYoung'
    BY <2>1 DEF WritersAreYoung
  <2>6. FullBeforeLink' /\ FilesAreKept'
    BY <2>2, <2>3, <2>4 DEF FullBeforeLink, FilesAreKept
  <2> QED
    BY <1>0, <2>2, <2>5, <2>6 DEF RequestsAreReal, PublishedIsComplete
<1>3. ASSUME NEW t \in temps, Age(t) PROVE PutInv'
  <2> DEFINE u == [t EXCEPT !.old = TRUE]
  <2>1. u.owner = t.owner /\ u.data = t.data /\ u.old = TRUE
    BY DEF TypeOK, Temporary
  <2>2. /\ temps' = (temps \ {t}) \cup {u} /\ UNCHANGED <<put, files>>
        /\ t.owner = Orphan \/ "stall" \in Mishaps
    BY <1>3 DEF Age, disk, left
  <2> HIDE DEF u
  <2>3. WritersAreYoung'
    BY <2>1, <2>2, TagsAreNotWriters DEF WritersAreYoung
  <2>4. FullBeforeLink'
    BY <2>1, <2>2 DEF FullBeforeLink, Owned
  <2>5. FilesAreKept'
    BY <2>1, <2>2 DEF FilesAreKept, Owned
  <2> QED
    BY <1>0, <2>2, <2>3, <2>4, <2>5 DEF RequestsAreReal, PublishedIsComplete
<1>4. ASSUME NEW h \in Hash, NEW s \in Slot, Tamper(h, s) PROVE PutInv'
  <2>1. PublishedIsComplete'
    BY <1>4 DEF Tamper, PublishedIsComplete, TypeOK, Partial, Corrupt
  <2> QED
    BY <1>0, <1>4, <2>1 DEF Tamper, RequestsAreReal, FullBeforeLink, WritersAreYoung,
                            FilesAreKept, Owned
<1>5. CASE PowerLoss
  <2>1. PICK kept \in SUBSET shards, lost \in SUBSET (Published \ synced) :
          files' = [h \in Hash |-> [s \in Slot |->
                       IF ShardOf[h] \notin kept \/ <<h, s>> \in lost
                         THEN None ELSE files[h][s]]]
    BY <1>5 DEF PowerLoss
  <2>2. \A t \in temps' : t.owner = Orphan
    <3>1. \A t \in Temporary : [t EXCEPT !.owner = Orphan, !.data = Partial].owner = Orphan
      BY DEF Temporary
    <3>2. \A t \in Orphaned(temps) : t.owner = Orphan
      BY <3>1 DEF Orphaned, TypeOK
    <3>3. temps' \subseteq Orphaned(temps)
      BY <1>5 DEF PowerLoss
    <3> QED
      BY <3>2, <3>3
  <2>3. \A w \in Writer : put'[w] = NoRequest
    BY <1>5 DEF PowerLoss
  <2>4. NoRequest.pc = "idle" /\ NoRequest.published = FALSE
    BY DEF NoRequest
  <2>5. PublishedIsComplete'
    BY <2>1 DEF PublishedIsComplete, None, Partial
  <2>6. WritersAreYoung'
    BY <2>2, TagsAreNotWriters DEF WritersAreYoung
  <2>7. RequestsAreReal' /\ FullBeforeLink' /\ FilesAreKept'
    BY <2>3, <2>4 DEF RequestsAreReal, FullBeforeLink, FilesAreKept
  <2> QED
    BY <1>0, <2>5, <2>6, <2>7
<1> QED
  BY <1>1, <1>2, <1>3, <1>4, <1>5

\* The invariant is inductive.
LEMMA PutInvStep == PutInv /\ [Next]_vars => PutInv'
<1> SUFFICES ASSUME PutInv, [Next]_vars PROVE PutInv'
  OBVIOUS
<1>1. CASE UNCHANGED vars
  BY <1>1 DEF vars, disk, left, PutInv, TypeOK, RequestsAreReal, FullBeforeLink, WritersAreYoung,
              FilesAreKept, PublishedIsComplete, Owned
<1>2. CASE Next
  BY <1>2, PutInvPut, PutInvRest DEF Next
<1> QED
  BY <1>1, <1>2

\* Every reachable state satisfies the invariant.
LEMMA PutInvAlways == Spec => []PutInv
<1> QED
  BY PutInvInit, PutInvStep, PTL DEF Spec

\* Every reachable state of the store is well typed: the control of put, the
\* listings of the sweeps and the contents of the slots.
THEOREM TypeCorrect == Spec => []TypeOK
<1>1. PutInv => TypeOK
  BY DEF PutInv
<1> QED
  BY <1>1, PutInvAlways, PTL

\* publish_no_clobber never links a file that write_and_sync has not completed:
\* whatever writers race, die, stall or fail and wherever the power is lost, no
\* partial file is at a final path.
THEOREM NothingPartialIsPublished == Spec => []PublishedIsComplete
<1>1. PutInv => PublishedIsComplete
  BY DEF PutInv
<1> QED
  BY <1>1, PutInvAlways, PTL

\* As long as no writer stalls for the stale age, a put still has its temporary
\* file when it comes to link or remove it, whatever opens the store meanwhile.
THEOREM PutKeepsItsFile == Spec => []FilesAreKept
<1>1. PutInv => FilesAreKept
  BY DEF PutInv
<1> QED
  BY <1>1, PutInvAlways, PTL

\* A step of one writer leaves the files of every other alone.
LEMMA OthersKeepOwned ==
  ASSUME TypeOK, NEW w \in Writer, NEW v \in Writer, v # w,
         \/ \E h \in Hash, m \in Media : Put(w, h, m)
         \/ CheckExists(w) \/ Verify(w)
         \/ LookupShard(w) \/ MakeShard(w) \/ SyncShardName(w)
         \/ CreateTemporary(w) \/ WriteTemporary(w) \/ Recheck(w)
         \/ Link(w) \/ SyncShard(w) \/ Discard(w)
         \/ Kill(w) \/ IoError(w)
  PROVE  Owned(v)' = Owned(v)
<1>1. CASE UNCHANGED temps
  BY <1>1 DEF Owned
<1>2. CASE temps' = temps \ Owned(w)
  BY <1>2 DEF Owned
<1>3. CASE CreateTemporary(w)
  BY <1>3 DEF CreateTemporary, Owned
<1>4. CASE WriteTemporary(w)
  <2> DEFINE new == {[t EXCEPT !.data = "full"] : t \in Owned(w)}
  <2>1. \A t \in new : t.owner \in {w, Orphan}
    BY DEF Owned, TypeOK, Temporary
  <2>2. temps' = (temps \ Owned(w)) \cup new
    BY <1>4 DEF WriteTemporary
  <2> HIDE DEF new
  <2> QED
    BY <2>1, <2>2, OwnedSplit
<1>5. CASE Kill(w)
  <2> DEFINE new == Orphaned(Owned(w))
  <2>1. \A t \in new : t.owner \in {w, Orphan}
    BY DEF Orphaned, Owned, TypeOK, Temporary
  <2>2. temps' = (temps \ Owned(w)) \cup new
    BY <1>5 DEF Kill
  <2> HIDE DEF new
  <2> QED
    BY <2>1, <2>2, OwnedSplit
<1> QED
  BY <1>1, <1>2, <1>3, <1>4, <1>5 DEF Put, CheckExists, Verify, LookupShard, MakeShard,
     SyncShardName, Recheck, Link, SyncShard, Discard, IoError

\* The step of a put that takes its own file moves the put.
LEMMA OwnStepMoves ==
  ASSUME TypeOK, NEW w \in Writer, ~At(w, "idle"), put'[w] = put[w],
         \/ CheckExists(w) \/ Verify(w)
         \/ LookupShard(w) \/ MakeShard(w) \/ SyncShardName(w)
         \/ CreateTemporary(w) \/ WriteTemporary(w) \/ Recheck(w)
         \/ Link(w) \/ SyncShard(w) \/ Discard(w)
         \/ Kill(w) \/ IoError(w)
  PROVE  Owned(w) \subseteq Owned(w)'
<1>1. CASE UNCHANGED temps
  BY <1>1 DEF Owned
<1>2. CASE CreateTemporary(w)
  BY <1>2 DEF CreateTemporary, Owned
<1>3. CASE WriteTemporary(w)
  BY <1>3 DEF WriteTemporary, Goto, At, TypeOK, Request
<1>4. CASE Discard(w)
  <2>1. CASE Return(w)
    BY <2>1 DEF Return, NoRequest, At, TypeOK
  <2>2. CASE put' = [put EXCEPT ![w].pc = "exists", ![w].slot = "media", ![w].published = FALSE]
    BY <1>4, <2>2 DEF Discard, At, TypeOK, Request
  <2>3. CASE Goto(w, "verify")
    BY <1>4, <2>3 DEF Discard, Goto, At, TypeOK, Request
  <2> QED
    BY <1>4, <2>1, <2>2, <2>3 DEF Discard, Fails, SlotDone
<1>5. CASE Kill(w) \/ IoError(w)
  BY <1>5 DEF Kill, IoError, Fails, Return, NoRequest, At, TypeOK
<1> QED
  BY <1>1, <1>2, <1>3, <1>4, <1>5 DEF CheckExists, Verify, LookupShard, MakeShard,
     SyncShardName, Recheck, Link, SyncShard

\* cleanup_stale_temporary_files, run by any number of opens, never takes a
\* temporary file that has not reached the stale age from a live writer, and
\* neither does a step of another writer or of the environment.
THEOREM SweepSparesLiveWriters == Spec => SweepSparesWriters
<1> DEFINE Spares(w) ==
      /\ ~At(w, "idle") /\ put'[w] = put[w]
      /\ \E t \in Owned(w) : ~t.old
      => Owned(w)' # {}
<1>1. PutInv /\ [Next]_vars => [\A w \in Writer : Spares(w)]_vars
  <2> SUFFICES ASSUME PutInv, [Next]_vars, NEW w \in Writer, ~At(w, "idle"), put'[w] = put[w],
                      NEW t \in Owned(w), ~t.old
               PROVE  Owned(w)' # {}
    OBVIOUS
  <2>0. TypeOK /\ t \in temps /\ t.owner = w
    BY DEF PutInv, Owned
  <2>1. CASE UNCHANGED temps
    BY <2>1 DEF Owned
  <2>2. ASSUME NEW v \in Writer,
               \/ \E h \in Hash, m \in Media : Put(v, h, m)
               \/ CheckExists(v) \/ Verify(v)
               \/ LookupShard(v) \/ MakeShard(v) \/ SyncShardName(v)
               \/ CreateTemporary(v) \/ WriteTemporary(v) \/ Recheck(v)
               \/ Link(v) \/ SyncShard(v) \/ Discard(v)
               \/ Kill(v) \/ IoError(v)
        PROVE  Owned(w)' # {}
    <3>1. CASE v # w
      BY <2>0, <2>2, <3>1, OthersKeepOwned
    <3>2. CASE v = w
      <4>1. ~\E h \in Hash, m \in Media : Put(w, h, m)
        BY DEF Put
      <4> QED
        BY <2>0, <2>2, <3>2, <4>1, OwnStepMoves
    <3> QED
      BY <3>1, <3>2
  <2>3. ASSUME NEW o \in Opener, NEW x \in Writer \cup {Orphan, Gone}, SweepEntry(o, x)
        PROVE  Owned(w)' # {}
    <3>1. t \in temps'
      BY <2>0, <2>3 DEF SweepEntry
    <3> QED
      BY <2>0, <3>1 DEF Owned
  <2>4. ASSUME NEW u \in temps, Age(u) PROVE Owned(w)' # {}
    <3> DEFINE aged == [u EXCEPT !.old = TRUE]
    <3>1. aged.owner = u.owner
      BY <2>0 DEF TypeOK, Temporary
    <3>2. temps' = (temps \ {u}) \cup {aged}
      BY <2>4 DEF Age
    <3> HIDE DEF aged
    <3> QED
      BY <2>0, <3>1, <3>2 DEF Owned
  <2>5. CASE PowerLoss
    BY <2>5 DEF PowerLoss, NoRequest, At
  <2> QED
    BY <2>1, <2>2, <2>3, <2>4, <2>5 DEF Next, vars, Open, SweepDone, Tamper
<1> QED
  BY <1>1, PutInvInit, PutInvStep, PTL DEF Spec, SweepSparesWriters

-----------------------------------------------------------------------------
(* Acknowledgements of one content agree. *)

\* A put that linked the sidecar m of h, and is about to return.
Publishing(w, h, m) ==
    put[w].published /\ put[w].slot = "media" /\ put[w].hash = h /\ put[w].media = m

\* Media type m was promised for h: acknowledged, or linked by a live put.
Promised(h, m) ==
    [hash |-> h, media |-> m] \in acks \/ \E w \in Writer : Publishing(w, h, m)

\* The sidecar holds what was promised, unless it was tampered with since.
PromisesAreStored ==
    \A h \in Hash, m \in Media : Promised(h, m) => files[h]["media"] \in {m, Corrupt}

\* There is never more than one promise for a content: a sidecar that is
\* corrupt by now cannot tell.
OnePromise ==
    \A h \in Hash, m \in Media, n \in Media : Promised(h, m) /\ Promised(h, n) => m = n

AckInv == PutInv /\ PromisesAreStored /\ OnePromise

\* A put that returns with the type it was asked for stands by what was
\* promised before, or by the sidecar it has read.
Backed(h, m) == Promised(h, m) \/ files[h]["media"] = m

\* Steps whose promises were backed and that, but for tampering, keep the
\* sidecars.
LEMMA BackedPromises ==
  ASSUME PromisesAreStored, OnePromise,
         \A h \in Hash, m \in Media : Promised(h, m)' => Backed(h, m),
         \A h \in Hash : files'[h]["media"] \in {files[h]["media"], Corrupt}
  PROVE  PromisesAreStored' /\ OnePromise'
<1>1. Corrupt \notin Media
  BY TagsAreNotData
<1>2. \A h \in Hash, m \in Media : Backed(h, m) => files[h]["media"] \in {m, Corrupt}
  BY DEF PromisesAreStored, Backed
<1>3. PromisesAreStored'
  BY <1>2 DEF PromisesAreStored
<1>4. OnePromise'
  BY <1>1, <1>2 DEF OnePromise, Backed
<1> QED
  BY <1>3, <1>4

\* What a step of w leaves alone of the promises of the other writers.
LEMMA PromisesOfOthers ==
  ASSUME NEW w \in Writer, UNCHANGED acks, \A v \in Writer : v # w => put'[v] = put[v],
         ~put'[w].published
  PROVE  \A h \in Hash, m \in Media : Promised(h, m)' => Backed(h, m)
  BY DEF Promised, Publishing, Backed

\* The promise of a put that returns is backed if the put's own was.
LEMMA SlotDonePromises ==
  ASSUME TypeOK, NEW w \in Writer, put[w].pc # "idle", SlotDone(w),
         put[w].slot = "media" => Backed(put[w].hash, put[w].media)
  PROVE  \A h \in Hash, m \in Media : Promised(h, m)' => Backed(h, m)
<1>1. CASE put[w].slot = "blob"
  BY <1>1, PromisesOfOthers DEF SlotDone, TypeOK, Request
<1>2. CASE put[w].slot = "media"
  <2>1. /\ acks' = acks \cup {[hash |-> put[w].hash, media |-> put[w].media]}
        /\ put'[w].published = FALSE /\ \A v \in Writer : v # w => put'[v] = put[v]
    BY <1>2 DEF SlotDone, Return, NoRequest, TypeOK
  <2> SUFFICES ASSUME NEW h \in Hash, NEW m \in Media, Promised(h, m)' PROVE Backed(h, m)
    OBVIOUS
  <2>2. CASE [hash |-> h, media |-> m] = [hash |-> put[w].hash, media |-> put[w].media]
    <3>1. h = put[w].hash /\ m = put[w].media
      BY <2>2
    <3> QED
      BY <1>2, <3>1
  <2>3. CASE [hash |-> h, media |-> m] # [hash |-> put[w].hash, media |-> put[w].media]
    BY <2>1, <2>3 DEF Promised, Publishing, Backed
  <2> QED
    BY <2>2, <2>3
<1> QED
  BY <1>1, <1>2 DEF TypeOK, Request, Slot

\* Nothing is promised by an empty store.
LEMMA AckInvInit == Init => AckInv
<1> SUFFICES ASSUME Init PROVE AckInv
  OBVIOUS
<1>1. \A h \in Hash, m \in Media : ~Promised(h, m)
  BY DEF Init, Promised, Publishing, NoRequest
<1> QED
  BY <1>1, PutInvInit DEF AckInv, PromisesAreStored, OnePromise

\* Every step of put preserves the agreement.
LEMMA AckInvPut ==
  ASSUME AckInv, NEW w \in Writer,
         \/ \E h \in Hash, m \in Media : Put(w, h, m)
         \/ CheckExists(w) \/ Verify(w)
         \/ LookupShard(w) \/ MakeShard(w) \/ SyncShardName(w)
         \/ CreateTemporary(w) \/ WriteTemporary(w) \/ Recheck(w)
         \/ Link(w) \/ SyncShard(w) \/ Discard(w)
         \/ Kill(w) \/ IoError(w)
  PROVE  PromisesAreStored' /\ OnePromise'
<1> USE DEF AckInv, PutInv
<1>0. put \in [Writer -> Request]
  BY DEF TypeOK
<1>1. ASSUME NEW h \in Hash, NEW m \in Media, Put(w, h, m)
      PROVE  PromisesAreStored' /\ OnePromise'
  <2>1. UNCHANGED <<acks, files>> /\ ~put'[w].published
        /\ \A v \in Writer : v # w => put'[v] = put[v]
    BY <1>0, <1>1 DEF Put, disk, left, NoRequest
  <2> QED
    BY <2>1, PromisesOfOthers, BackedPromises
<1>2. ASSUME UNCHANGED <<acks, files>>, NEW pc, Goto(w, pc), ~put[w].published
      PROVE  PromisesAreStored' /\ OnePromise'
  <2>1. ~put'[w].published /\ \A v \in Writer : v # w => put'[v] = put[v]
    BY <1>0, <1>2 DEF Goto, Request
  <2> QED
    BY <1>2, <2>1, PromisesOfOthers, BackedPromises
<1>3. ASSUME UNCHANGED files, Fails(w)
      PROVE  PromisesAreStored' /\ OnePromise'
  <2>1. UNCHANGED acks /\ ~put'[w].published /\ \A v \in Writer : v # w => put'[v] = put[v]
    BY <1>0, <1>3 DEF Fails, Return, NoRequest
  <2> QED
    BY <1>3, <2>1, PromisesOfOthers, BackedPromises
<1>4. CASE CheckExists(w)
  BY <1>2, <1>4 DEF CheckExists, At, disk, left, RequestsAreReal
<1>5. CASE Verify(w)
  <2>1. UNCHANGED files /\ put[w].pc = "verify"
    BY <1>5 DEF Verify, disk, left, At
  <2>2. CASE Fails(w)
    BY <1>3, <2>1, <2>2
  <2>3. CASE SlotDone(w) /\ Target(w) = IF put[w].slot = "blob" THEN put[w].hash ELSE put[w].media
    <3>1. put[w].slot = "media" => Backed(put[w].hash, put[w].media)
      BY <2>3 DEF Target, Backed
    <3> QED
      BY <2>1, <2>3, <3>1, SlotDonePromises, BackedPromises
  <2> QED
    BY <1>5, <2>2, <2>3 DEF Verify
<1>6. CASE LookupShard(w)
  BY <1>2, <1>6 DEF LookupShard, At, disk, left, RequestsAreReal
<1>7. CASE MakeShard(w)
  BY <1>2, <1>7 DEF MakeShard, At, RequestsAreReal
<1>8. CASE SyncShardName(w)
  BY <1>2, <1>8 DEF SyncShardName, At, RequestsAreReal
<1>9. CASE CreateTemporary(w)
  BY <1>2, <1>9 DEF CreateTemporary, At, disk, left, RequestsAreReal
<1>10. CASE WriteTemporary(w)
  BY <1>2, <1>10 DEF WriteTemporary, At, disk, left, RequestsAreReal
<1>11. CASE Recheck(w)
  BY <1>2, <1>11 DEF Recheck, At, disk, left, RequestsAreReal
<1>12. CASE Link(w)
  <2>1. put[w].pc = "link" /\ put[w].hash \in Hash /\ put[w].media \in Media /\ ~put[w].published
    BY <1>12 DEF Link, At, RequestsAreReal
  <2>2. CASE Fails(w) /\ UNCHANGED files
    BY <1>3, <2>2
  <2>3. CASE Goto(w, "discard") /\ UNCHANGED <<files, acks>>
    BY <1>2, <2>1, <2>3
  <2>4. CASE /\ Target(w) = None
             /\ \E t \in Owned(w) :
                   files' = [files EXCEPT ![put[w].hash][put[w].slot] =
                                CASE t.data # "full" -> Partial
                                  [] t.data = "full" /\ put[w].slot = "blob" -> put[w].hash
                                  [] OTHER -> put[w].media]
             /\ put' = [put EXCEPT ![w].pc = "sync_shard", ![w].published = TRUE]
             /\ UNCHANGED acks
    <3> DEFINE h == put[w].hash
               m == put[w].media
    <3>1. /\ put'[w].published /\ put'[w].slot = put[w].slot
          /\ put'[w].hash = h /\ put'[w].media = m
          /\ \A v \in Writer : v # w => put'[v] = put[v]
      BY <1>0, <2>4 DEF Request
    <3>2. CASE put[w].slot = "blob"
      <4>1. \A k \in Hash : files'[k]["media"] = files[k]["media"]
        BY <2>1, <2>4, <3>2 DEF TypeOK, Slot
      <4>2. \A k \in Hash, n \in Media : Promised(k, n)' => Backed(k, n)
        <5>1. \A k \in Hash, n \in Media : ~Publishing(w, k, n)'
          BY <3>1, <3>2 DEF Publishing
        <5>2. \A v \in Writer, k \in Hash, n \in Media :
                v # w /\ Publishing(v, k, n)' => Publishing(v, k, n)
          BY <3>1 DEF Publishing
        <5>3. UNCHANGED acks
          BY <2>4
        <5> QED
          BY <5>1, <5>2, <5>3 DEF Promised, Backed
      <4> QED
        BY <4>1, <4>2, BackedPromises
    <3>3. CASE put[w].slot = "media"
      <4>1. \A n \in Media : ~Promised(h, n)
        BY <2>1, <2>4, <3>3, TagsAreNotData DEF Target, PromisesAreStored, None, Corrupt
      <4>2. \A k \in Hash, n \in Media : Promised(k, n)' => Promised(k, n) \/ (k = h /\ n = m)
        <5>1. \A k \in Hash, n \in Media : Publishing(w, k, n)' => k = h /\ n = m
          BY <3>1 DEF Publishing
        <5>2. \A v \in Writer, k \in Hash, n \in Media :
                v # w /\ Publishing(v, k, n)' => Publishing(v, k, n)
          BY <3>1 DEF Publishing
        <5>3. UNCHANGED acks
          BY <2>4
        <5> QED
          BY <5>1, <5>2, <5>3 DEF Promised
      <4>3. \A t \in Owned(w) : t.data = "full"
        BY <2>1 DEF FullBeforeLink
      <4>4. files' = [files EXCEPT ![h]["media"] = m]
        BY <2>4, <3>3, <4>3
      <4>5. files'[h]["media"] = m /\ \A k \in Hash : k # h => files'[k] = files[k]
        BY <2>1, <4>4 DEF TypeOK, Slot
      <4>6. PromisesAreStored'
        BY <4>1, <4>2, <4>5 DEF PromisesAreStored
      <4>7. OnePromise'
        BY <4>1, <4>2 DEF OnePromise
      <4> QED
        BY <4>6, <4>7
    <3> QED
      BY <1>0, <3>2, <3>3 DEF Request, Slot
  <2> QED
    BY <1>12, <2>2, <2>3, <2>4 DEF Link
<1>13. CASE SyncShard(w)
  <2>1. /\ put'[w] = [put[w] EXCEPT !.pc = "discard"] /\ \A v \in Writer : v # w => put'[v] = put[v]
        /\ UNCHANGED <<acks, files>>
    BY <1>0, <1>13 DEF SyncShard, Goto
  <2>2. \A h \in Hash, m \in Media : Promised(h, m)' => Backed(h, m)
    BY <1>0, <2>1 DEF Promised, Publishing, Backed, Request
  <2> QED
    BY <2>1, <2>2, BackedPromises
<1>14. CASE Discard(w)
  <2>1. UNCHANGED files /\ put[w].pc = "discard" /\ put[w].hash \in Hash /\ put[w].media \in Media
    BY <1>14 DEF Discard, disk, left, At, RequestsAreReal
  <2>2. CASE Fails(w)
    BY <1>3, <2>1, <2>2
  <2>3. CASE put[w].published /\ SlotDone(w)
    <3>1. put[w].slot = "media" => Backed(put[w].hash, put[w].media)
      BY <2>3 DEF Backed, Promised, Publishing
    <3> QED
      BY <2>1, <2>3, <3>1, SlotDonePromises, BackedPromises
  <2>4. CASE ~put[w].published /\ Goto(w, "verify") /\ UNCHANGED acks
    BY <1>2, <2>1, <2>4
  <2> QED
    BY <1>14, <2>2, <2>3, <2>4 DEF Discard
<1>15. CASE Kill(w)
  <2>1. UNCHANGED <<acks, files>> /\ ~put'[w].published /\ \A v \in Writer : v # w => put'[v] = put[v]
    BY <1>0, <1>15 DEF Kill, NoRequest, disk, left, LeavesUnsynced
  <2> QED
    BY <2>1, PromisesOfOthers, BackedPromises
<1>16. CASE IoError(w)
  BY <1>3, <1>16 DEF IoError, disk, left, LeavesUnsynced
<1> QED
  BY <1>1, <1>4, <1>5, <1>6, <1>7, <1>8, <1>9, <1>10, <1>11, <1>12, <1>13, <1>14, <1>15, <1>16

\* A power loss leaves the promises whose sidecar is still in place.
LEMMA PowerLossPromises ==
  ASSUME AckInv, PowerLoss
  PROVE  PromisesAreStored' /\ OnePromise'
<1>1. \A h \in Hash, m \in Media : Promised(h, m)' =>
        Promised(h, m) /\ files'[h]["media"] # None
  <2> SUFFICES ASSUME NEW h \in Hash, NEW m \in Media, Promised(h, m)'
               PROVE  Promised(h, m) /\ files'[h]["media"] # None
    OBVIOUS
  <2>1. \A w \in Writer : ~put'[w].published
    BY DEF PowerLoss, NoRequest
  <2>2. [hash |-> h, media |-> m] \in acks'
    BY <2>1 DEF Promised, Publishing
  <2> QED
    BY <2>2 DEF PowerLoss, Promised, Slot
<1>2. \A h \in Hash : files'[h]["media"] \in {None, files[h]["media"]}
  BY DEF PowerLoss, Slot
<1>3. PromisesAreStored'
  BY <1>1, <1>2 DEF AckInv, PromisesAreStored
<1>4. OnePromise'
  BY <1>1 DEF AckInv, OnePromise
<1> QED
  BY <1>3, <1>4

\* So does every other step.
LEMMA AckInvRest ==
  ASSUME AckInv,
         \/ \E o \in Opener :
               \/ Open(o) \/ SweepDone(o)
               \/ \E x \in Writer \cup {Orphan, Gone} : SweepEntry(o, x)
         \/ \E t \in temps : Age(t)
         \/ \E h \in Hash, s \in Slot : Tamper(h, s)
         \/ PowerLoss
  PROVE  PromisesAreStored' /\ OnePromise'
<1> SUFFICES ASSUME ~PowerLoss PROVE PromisesAreStored' /\ OnePromise'
  BY PowerLossPromises
<1>1. UNCHANGED <<put, acks>>
  BY DEF Open, SweepDone, SweepEntry, Age, Tamper
<1>2. \A h \in Hash : files'[h]["media"] \in {files[h]["media"], Corrupt}
  <2>1. CASE UNCHANGED files
    BY <2>1
  <2>2. ASSUME NEW h \in Hash, NEW s \in Slot, Tamper(h, s)
        PROVE  \A k \in Hash : files'[k]["media"] \in {files[k]["media"], Corrupt}
    BY <2>2 DEF Tamper, AckInv, PutInv, TypeOK, Slot
  <2> QED
    BY <2>1, <2>2 DEF Open, SweepDone, SweepEntry, Age, disk, left
<1>3. \A h \in Hash, m \in Media : Promised(h, m)' => Backed(h, m)
  BY <1>1 DEF Promised, Publishing, Backed
<1> QED
  BY <1>2, <1>3, BackedPromises DEF AckInv

\* Two puts of the same bytes that both returned Ok returned the same media
\* type, however the writers of blob and sidecar raced, died, stalled, failed
\* or met a tampered sidecar, and whatever the power took in between: only when
\* it took what was acknowledged can another type be published.
THEOREM AcksAgreeWhileInPlace == Spec => []AcksAgree
<1>1. Init => AckInv
  BY AckInvInit
<1>2. AckInv /\ [Next]_vars => AckInv'
  <2> SUFFICES ASSUME AckInv, [Next]_vars PROVE AckInv'
    OBVIOUS
  <2>1. PutInv'
    BY PutInvStep DEF AckInv
  <2>2. CASE UNCHANGED vars
    BY <2>1, <2>2 DEF vars, disk, left, AckInv, PromisesAreStored, OnePromise, Promised, Publishing
  <2>3. CASE Next
    <3>1. PromisesAreStored' /\ OnePromise'
      BY <2>3, AckInvPut, AckInvRest DEF Next
    <3> QED
      BY <2>1, <3>1 DEF AckInv
  <2> QED
    BY <2>2, <2>3
<1>3. AckInv => AcksAgree
  <2> SUFFICES ASSUME AckInv, NEW a \in acks, NEW b \in acks, a.hash = b.hash PROVE a.media = b.media
    BY DEF AcksAgree
  <2>1. /\ a.hash \in Hash /\ a.media \in Media /\ b.media \in Media
        /\ a = [hash |-> a.hash, media |-> a.media] /\ b = [hash |-> a.hash, media |-> b.media]
    BY DEF AckInv, PutInv, TypeOK
  <2>2. Promised(a.hash, a.media) /\ Promised(a.hash, b.media)
    BY <2>1 DEF Promised
  <2> QED
    BY <2>1, <2>2 DEF AckInv, OnePromise
<1> QED
  BY <1>1, <1>2, <1>3, PTL DEF Spec

-----------------------------------------------------------------------------
(* A power loss takes only what nobody has gone on to sync. *)

\* An entry that may be lost is one whose put stands before its sync, or one
\* that was left there.
EntriesAreHeld ==
    \A h \in Hash, s \in Slot : files[h][s] # None =>
        \/ <<h, s>> \in synced \cup leftEntries
        \/ \E w \in Writer : put[w].pc = "sync_shard" /\ put[w].hash = h /\ put[w].slot = s

\* So is a shard directory.
ShardsAreHeld ==
    \A d \in shards :
        \/ d \in shardSynced \cup leftShards
        \/ \E w \in Writer : put[w].pc = "sync_sha256" /\ ShardOf[put[w].hash] = d

\* Every file is in a shard directory, and put reaches its later steps only
\* when there is one.
FilesHaveShards ==
    \A h \in Hash, s \in Slot : files[h][s] # None => ShardOf[h] \in shards

HasShard(w) ==
    \/ put[w].pc \in {"sync_sha256", "create", "write", "recheck", "link", "sync_shard", "discard"}
    \/ put[w].slot = "media"
    => ShardOf[put[w].hash] \in shards

StepsHaveShards == \A w \in Writer : HasShard(w)

HeldInv ==
    /\ PutInv
    /\ EntriesAreHeld
    /\ ShardsAreHeld
    /\ FilesHaveShards
    /\ StepsHaveShards

\* Nothing of the empty store can be lost.
LEMMA HeldInit == Init => HeldInv
<1> SUFFICES ASSUME Init PROVE HeldInv
  OBVIOUS
<1>1. EntriesAreHeld /\ ShardsAreHeld /\ FilesHaveShards
  BY DEF Init, EntriesAreHeld, ShardsAreHeld, FilesHaveShards
<1>2. StepsHaveShards
  BY DEF Init, StepsHaveShards, HasShard, NoRequest
<1> QED
  BY <1>1, <1>2, PutInvInit DEF HeldInv

\* A step of one writer that publishes nothing: the others hold what they
\* held, and the writer holds nothing or leaves it behind.
LEMMA HeldByOthers ==
  ASSUME HeldInv, NEW w \in Writer,
         UNCHANGED <<shards, shardSynced, files, synced>>,
         \A v \in Writer : v # w => put'[v] = put[v],
         leftEntries \cup UnsyncedEntry(w) \subseteq leftEntries',
         leftShards \cup UnsyncedShard(w) \subseteq leftShards',
         HasShard(w)'
  PROVE  EntriesAreHeld' /\ ShardsAreHeld' /\ FilesHaveShards' /\ StepsHaveShards'
<1>1. EntriesAreHeld'
  <2> SUFFICES ASSUME NEW h \in Hash, NEW s \in Slot, files[h][s] # None, <<h, s>> \notin synced
               PROVE  \/ <<h, s>> \in leftEntries'
                      \/ \E v \in Writer : put'[v].pc = "sync_shard" /\ put'[v].hash = h /\ put'[v].slot = s
    BY DEF EntriesAreHeld
  <2>1. CASE <<h, s>> \in leftEntries
    BY <2>1
  <2>2. ASSUME NEW v \in Writer, put[v].pc = "sync_shard", put[v].hash = h, put[v].slot = s
        PROVE  \/ <<h, s>> \in leftEntries'
               \/ put'[v].pc = "sync_shard" /\ put'[v].hash = h /\ put'[v].slot = s
    <3>1. CASE v = w
      <4>1. <<h, s>> \in UnsyncedEntry(w)
        BY <2>2, <3>1 DEF UnsyncedEntry, At, Entry
      <4> QED
        BY <4>1
    <3>2. CASE v # w
      BY <2>2, <3>2
    <3> QED
      BY <3>1, <3>2
  <2> QED
    BY <2>1, <2>2 DEF HeldInv, EntriesAreHeld
<1>2. ShardsAreHeld'
  <2> SUFFICES ASSUME NEW d \in shards, d \notin shardSynced
               PROVE  \/ d \in leftShards'
                      \/ \E v \in Writer : put'[v].pc = "sync_sha256" /\ ShardOf[put'[v].hash] = d
    BY DEF ShardsAreHeld
  <2>1. CASE d \in leftShards
    BY <2>1
  <2>2. ASSUME NEW v \in Writer, put[v].pc = "sync_sha256", ShardOf[put[v].hash] = d
        PROVE  \/ d \in leftShards'
               \/ put'[v].pc = "sync_sha256" /\ ShardOf[put'[v].hash] = d
    <3>1. CASE v = w
      <4>1. d \in UnsyncedShard(w)
        BY <2>2, <3>1 DEF UnsyncedShard, At
      <4> QED
        BY <4>1
    <3>2. CASE v # w
      BY <2>2, <3>2
    <3> QED
      BY <3>1, <3>2
  <2> QED
    BY <2>1, <2>2 DEF HeldInv, ShardsAreHeld
<1>3. FilesHaveShards'
  BY DEF HeldInv, FilesHaveShards
<1>4. StepsHaveShards'
  BY DEF HeldInv, StepsHaveShards, HasShard
<1> QED
  BY <1>1, <1>2, <1>3, <1>4

\* A slot that is done, or a put that fails, away from the syncs.
LEMMA HeldEnds ==
  ASSUME HeldInv, NEW w \in Writer, SlotDone(w) \/ Fails(w), UNCHANGED disk,
         put[w].pc \in {"verify", "link", "discard"},
         SlotDone(w) => ShardOf[put[w].hash] \in shards
  PROVE  EntriesAreHeld' /\ ShardsAreHeld' /\ FilesHaveShards' /\ StepsHaveShards'
<1>1. UNCHANGED <<shards, shardSynced, files, synced, leftEntries, leftShards>>
  BY DEF disk, left
<1>2. UnsyncedEntry(w) = {} /\ UnsyncedShard(w) = {}
  BY DEF UnsyncedEntry, UnsyncedShard, At
<1>3. \A v \in Writer : v # w => put'[v] = put[v]
  BY EndsReal DEF HeldInv, PutInv
<1>4. HasShard(w)'
  <2>1. CASE Return(w)
    <3>1. put'[w] = NoRequest
      BY <2>1 DEF Return, HeldInv, PutInv, TypeOK
    <3> QED
      BY <3>1 DEF HasShard, NoRequest
  <2>2. CASE SlotDone(w) /\ put[w].slot = "blob"
    <3>1. put'[w].hash = put[w].hash
      BY <2>2 DEF SlotDone, HeldInv, PutInv, TypeOK, Request
    <3> QED
      BY <1>1, <2>2, <3>1 DEF HasShard
  <2> QED
    BY <2>1, <2>2 DEF SlotDone, Fails
<1> QED
  BY <1>1, <1>2, <1>3, <1>4, HeldByOthers

\* Every step of put keeps hold of what may be lost.
LEMMA HeldPut ==
  ASSUME HeldInv, NEW w \in Writer,
         \/ \E h \in Hash, m \in Media : Put(w, h, m)
         \/ CheckExists(w) \/ Verify(w)
         \/ LookupShard(w) \/ MakeShard(w) \/ SyncShardName(w)
         \/ CreateTemporary(w) \/ WriteTemporary(w) \/ Recheck(w)
         \/ Link(w) \/ SyncShard(w) \/ Discard(w)
         \/ Kill(w) \/ IoError(w)
  PROVE  EntriesAreHeld' /\ ShardsAreHeld' /\ FilesHaveShards' /\ StepsHaveShards'
<1> DEFINE Goal == EntriesAreHeld' /\ ShardsAreHeld' /\ FilesHaveShards' /\ StepsHaveShards'
<1>a. put \in [Writer -> Request] /\ put[w] \in Request
  BY DEF HeldInv, PutInv, TypeOK
<1>b. put[w].pc # "idle" => put[w].hash \in Hash /\ put[w].media \in Media
  BY DEF HeldInv, PutInv, RequestsAreReal
<1>c. put[w].slot \in Slot /\ HasShard(w)
  BY <1>a DEF HeldInv, StepsHaveShards, Request
<1>d. ASSUME NEW pc \in Step, Goto(w, pc)
      PROVE  /\ put'[w].pc = pc /\ put'[w].hash = put[w].hash /\ put'[w].slot = put[w].slot
             /\ \A v \in Writer : v # w => put'[v] = put[v]
  BY <1>a, <1>d DEF Goto, Request
<1>e. ASSUME NEW pc \in Step, Goto(w, pc), UNCHANGED disk,
             put[w].pc \notin {"sync_shard", "sync_sha256"},
             pc \in {"exists", "verify", "lookup", "mkdir"} \/ ShardOf[put[w].hash] \in shards
      PROVE  Goal
  <2>1. UNCHANGED <<shards, shardSynced, files, synced, leftEntries, leftShards>>
    BY <1>e DEF disk, left
  <2>2. UnsyncedEntry(w) = {} /\ UnsyncedShard(w) = {}
    BY <1>e DEF UnsyncedEntry, UnsyncedShard, At
  <2>3. HasShard(w)'
    BY <1>c, <1>d, <1>e, <2>1 DEF HasShard
  <2> QED
    BY <1>d, <1>e, <2>1, <2>2, <2>3, HeldByOthers
<1>1. ASSUME NEW h \in Hash, NEW m \in Media, Put(w, h, m) PROVE Goal
  <2>1. UNCHANGED <<shards, shardSynced, files, synced, leftEntries, leftShards>>
    BY <1>1 DEF Put, disk, left
  <2>2. UnsyncedEntry(w) = {} /\ UnsyncedShard(w) = {}
    BY <1>1 DEF Put, UnsyncedEntry, UnsyncedShard, At
  <2>3. /\ put'[w].pc = "exists" /\ put'[w].slot = "blob"
        /\ \A v \in Writer : v # w => put'[v] = put[v]
    BY <1>1, <1>a DEF Put, NoRequest
  <2>4. HasShard(w)'
    BY <2>3 DEF HasShard
  <2> QED
    BY <2>1, <2>2, <2>3, <2>4, HeldByOthers
<1>2. CASE CheckExists(w)
  <2>1. PICK pc \in {"verify", "lookup", "create"} :
          Goto(w, pc) /\ (pc = "create" => put[w].slot = "media")
    BY <1>2, <1>c DEF CheckExists, Slot
  <2>2. UNCHANGED disk /\ put[w].pc = "exists"
    BY <1>2 DEF CheckExists, At
  <2>3. pc \in {"exists", "verify", "lookup", "mkdir"} \/ ShardOf[put[w].hash] \in shards
    BY <1>c, <2>1 DEF HasShard
  <2> QED
    BY <1>e, <2>1, <2>2, <2>3 DEF Step
<1>3. CASE Verify(w)
  <2>1. put[w].pc = "verify" /\ UNCHANGED disk
    BY <1>3 DEF Verify, At
  <2>2. CASE Fails(w) /\ ~SlotDone(w)
    BY <2>1, <2>2, HeldEnds
  <2>3. CASE SlotDone(w) /\ Target(w) = IF put[w].slot = "blob" THEN put[w].hash ELSE put[w].media
    <3>1. Target(w) # None
      BY <1>b, <2>1, <2>3, TagsAreNotData
    <3>2. ShardOf[put[w].hash] \in shards
      BY <1>b, <1>c, <2>1, <3>1 DEF Target, HeldInv, FilesHaveShards
    <3> QED
      BY <2>1, <2>3, <3>2, HeldEnds
  <2>4. CASE SlotDone(w) /\ Fails(w)
    <3>1. put[w].slot = "media"
      <4>1. put[w].pc # "idle" /\ put'[w] = NoRequest
        BY <1>a, <2>1, <2>4 DEF Fails, Return
      <4>2. put[w].slot = "blob" => put'[w].pc = "exists"
        BY <1>a, <2>4 DEF SlotDone, Request
      <4> QED
        BY <1>c, <4>1, <4>2 DEF NoRequest, Slot
    <3>2. ShardOf[put[w].hash] \in shards
      BY <1>c, <3>1 DEF HasShard
    <3> QED
      BY <2>1, <2>4, <3>2, HeldEnds
  <2> QED
    BY <1>3, <2>2, <2>3, <2>4 DEF Verify
<1>4. CASE LookupShard(w)
  <2>1. put[w].pc = "lookup" /\ UNCHANGED disk
    BY <1>4 DEF LookupShard, At
  <2>2. CASE Goto(w, "create") /\ ShardOf[put[w].hash] \in shards
    BY <1>e, <2>1, <2>2 DEF Step
  <2>3. CASE Goto(w, "mkdir")
    BY <1>e, <2>1, <2>3 DEF Step
  <2> QED
    BY <1>4, <2>2, <2>3 DEF LookupShard
<1>5. CASE MakeShard(w)
  <2>1. /\ put[w].pc = "mkdir" /\ shards' = shards \cup {ShardOf[put[w].hash]}
        /\ UNCHANGED <<shardSynced, files, synced, leftEntries, leftShards>>
    BY <1>5 DEF MakeShard, At, left
  <2>2. /\ put'[w].pc = "sync_sha256" /\ put'[w].hash = put[w].hash
        /\ \A v \in Writer : v # w => put'[v] = put[v]
    BY <1>5, <1>d DEF MakeShard, Step
  <2>3. EntriesAreHeld'
    <3>1. \A v \in Writer : put[v].pc = "sync_shard" => put'[v] = put[v]
      BY <2>1, <2>2
    <3> QED
      BY <2>1, <3>1 DEF HeldInv, EntriesAreHeld
  <2>4. ShardsAreHeld'
    <3>1. \A v \in Writer : put[v].pc = "sync_sha256" => put'[v] = put[v]
      BY <2>1, <2>2
    <3> QED
      BY <2>1, <2>2, <3>1 DEF HeldInv, ShardsAreHeld
  <2>5. FilesHaveShards'
    BY <2>1 DEF HeldInv, FilesHaveShards
  <2>6. StepsHaveShards'
    BY <2>1, <2>2 DEF HeldInv, StepsHaveShards, HasShard
  <2> QED
    BY <2>3, <2>4, <2>5, <2>6
<1>6. CASE SyncShardName(w)
  <2>1. /\ put[w].pc = "sync_sha256" /\ shardSynced' = shards
        /\ UNCHANGED <<shards, files, synced, leftEntries>>
    BY <1>6 DEF SyncShardName, At
  <2>2. /\ put'[w].pc = "create" /\ put'[w].hash = put[w].hash
        /\ \A v \in Writer : v # w => put'[v] = put[v]
    BY <1>6, <1>d DEF SyncShardName, Step
  <2>3. EntriesAreHeld'
    <3>1. \A v \in Writer : put[v].pc = "sync_shard" => put'[v] = put[v]
      BY <2>1, <2>2
    <3> QED
      BY <2>1, <3>1 DEF HeldInv, EntriesAreHeld
  <2>4. ShardsAreHeld'
    BY <2>1 DEF ShardsAreHeld
  <2>5. FilesHaveShards'
    BY <2>1 DEF HeldInv, FilesHaveShards
  <2>6. StepsHaveShards'
    BY <1>c, <2>1, <2>2 DEF HeldInv, StepsHaveShards, HasShard
  <2> QED
    BY <2>3, <2>4, <2>5, <2>6
<1>7. CASE CreateTemporary(w)
  <2>1. put[w].pc = "create" /\ Goto(w, "write") /\ UNCHANGED disk
    BY <1>7 DEF CreateTemporary, At
  <2> QED
    BY <1>c, <1>e, <2>1 DEF Step, HasShard
<1>8. CASE WriteTemporary(w)
  <2>1. put[w].pc = "write" /\ UNCHANGED disk /\ (Goto(w, "recheck") \/ Goto(w, "link"))
    BY <1>8 DEF WriteTemporary, At
  <2> QED
    BY <1>c, <1>e, <2>1 DEF Step, HasShard
<1>9. CASE Recheck(w)
  <2>1. put[w].pc = "recheck" /\ UNCHANGED disk /\ (Goto(w, "discard") \/ Goto(w, "link"))
    BY <1>9 DEF Recheck, At
  <2> QED
    BY <1>c, <1>e, <2>1 DEF Step, HasShard
<1>10. CASE Link(w)
  <2>1. /\ put[w].pc = "link" /\ ShardOf[put[w].hash] \in shards
        /\ UNCHANGED <<shards, shardSynced, synced, leftEntries, leftShards>>
    BY <1>10, <1>c DEF Link, At, HasShard, left
  <2>2. CASE Fails(w) /\ UNCHANGED files
    BY <2>1, <2>2, HeldEnds DEF disk, left
  <2>3. CASE Goto(w, "discard") /\ UNCHANGED files
    BY <1>e, <2>1, <2>3 DEF disk, left, Step
  <2>4. ASSUME NEW x, files' = [files EXCEPT ![put[w].hash][put[w].slot] = x],
               put' = [put EXCEPT ![w].pc = "sync_shard", ![w].published = TRUE]
        PROVE  Goal
    <3>1. /\ put'[w].pc = "sync_shard" /\ put'[w].hash = put[w].hash /\ put'[w].slot = put[w].slot
          /\ \A v \in Writer : v # w => put'[v] = put[v]
      BY <1>a, <2>4 DEF Request
    <3>2. \A h \in Hash, s \in Slot : <<h, s>> # <<put[w].hash, put[w].slot>> => files'[h][s] = files[h][s]
      BY <2>4 DEF HeldInv, PutInv, TypeOK
    <3>3. EntriesAreHeld'
      <4> SUFFICES ASSUME NEW h \in Hash, NEW s \in Slot, files'[h][s] # None
                   PROVE  \/ <<h, s>> \in synced \cup leftEntries
                          \/ \E v \in Writer : put'[v].pc = "sync_shard" /\ put'[v].hash = h /\ put'[v].slot = s
        BY <2>1 DEF EntriesAreHeld
      <4>1. CASE h = put[w].hash /\ s = put[w].slot
        BY <3>1, <4>1
      <4>2. CASE <<h, s>> # <<put[w].hash, put[w].slot>>
        <5>1. \/ <<h, s>> \in synced \cup leftEntries
              \/ \E v \in Writer : put[v].pc = "sync_shard" /\ put[v].hash = h /\ put[v].slot = s
          BY <3>2, <4>2 DEF HeldInv, EntriesAreHeld
        <5>2. \A v \in Writer : put[v].pc = "sync_shard" => put'[v] = put[v]
          BY <2>1, <3>1
        <5> QED
          BY <5>1, <5>2
      <4> QED
        BY <4>1, <4>2
    <3>4. ShardsAreHeld'
      <4>1. \A v \in Writer : put[v].pc = "sync_sha256" => put'[v] = put[v]
        BY <2>1, <3>1
      <4> QED
        BY <2>1, <4>1 DEF HeldInv, ShardsAreHeld
    <3>5. FilesHaveShards'
      <4> SUFFICES ASSUME NEW h \in Hash, NEW s \in Slot, files'[h][s] # None
                   PROVE  ShardOf[h] \in shards
        BY <2>1 DEF FilesHaveShards
      <4> QED
        BY <2>1, <3>2 DEF HeldInv, FilesHaveShards
    <3>6. StepsHaveShards'
      BY <2>1, <3>1 DEF HeldInv, StepsHaveShards, HasShard
    <3> QED
      BY <3>3, <3>4, <3>5, <3>6
  <2> QED
    BY <1>10, <2>2, <2>3, <2>4 DEF Link
<1>11. CASE SyncShard(w)
  <2>1. /\ put[w].pc = "sync_shard" /\ put[w].hash \in Hash
        /\ UNCHANGED <<shards, shardSynced, files, leftShards>>
        /\ leftEntries' = leftEntries \ synced'
        /\ \A h \in Hash, s \in Slot :
              <<h, s>> \in synced' <=>
                  \/ <<h, s>> \in synced
                  \/ ShardOf[h] = ShardOf[put[w].hash] /\ files[h][s] # None
    BY <1>11, <1>b DEF SyncShard, At, Entry
  <2>2. /\ put'[w].pc = "discard" /\ put'[w].hash = put[w].hash
        /\ \A v \in Writer : v # w => put'[v] = put[v]
    BY <1>11, <1>d DEF SyncShard, Step
  <2>3. EntriesAreHeld'
    <3> SUFFICES ASSUME NEW h \in Hash, NEW s \in Slot, files[h][s] # None, <<h, s>> \notin synced'
                 PROVE  \/ <<h, s>> \in leftEntries'
                        \/ \E v \in Writer : put'[v].pc = "sync_shard" /\ put'[v].hash = h /\ put'[v].slot = s
      BY <2>1 DEF EntriesAreHeld
    <3>1. h # put[w].hash /\ <<h, s>> \notin synced
      BY <2>1
    <3>2. \/ <<h, s>> \in leftEntries
          \/ \E v \in Writer : put[v].pc = "sync_shard" /\ put[v].hash = h /\ put[v].slot = s
      BY <3>1 DEF HeldInv, EntriesAreHeld
    <3> QED
      BY <2>1, <2>2, <3>1, <3>2
  <2>4. ShardsAreHeld'
    <3>1. \A v \in Writer : put[v].pc = "sync_sha256" => put'[v] = put[v]
      BY <2>1, <2>2
    <3> QED
      BY <2>1, <3>1 DEF HeldInv, ShardsAreHeld
  <2>5. FilesHaveShards'
    BY <2>1 DEF HeldInv, FilesHaveShards
  <2>6. StepsHaveShards'
    BY <1>c, <2>1, <2>2 DEF HeldInv, StepsHaveShards, HasShard
  <2> QED
    BY <2>3, <2>4, <2>5, <2>6
<1>12. CASE Discard(w)
  <2>1. put[w].pc = "discard" /\ UNCHANGED disk /\ ShardOf[put[w].hash] \in shards
    BY <1>12, <1>c DEF Discard, At, HasShard
  <2>2. CASE Fails(w) \/ SlotDone(w)
    BY <2>1, <2>2, HeldEnds
  <2>3. CASE Goto(w, "verify")
    BY <1>e, <2>1, <2>3 DEF Step
  <2> QED
    BY <1>12, <2>2, <2>3 DEF Discard
<1>13. CASE Kill(w) \/ IoError(w)
  <2>1. /\ UNCHANGED <<shards, shardSynced, files, synced>>
        /\ leftEntries' = leftEntries \cup UnsyncedEntry(w)
        /\ leftShards' = leftShards \cup UnsyncedShard(w)
    BY <1>13 DEF Kill, IoError, LeavesUnsynced
  <2>2. put' = [put EXCEPT ![w] = NoRequest]
    BY <1>13 DEF Kill, IoError, Fails, Return
  <2>3. put'[w] = NoRequest /\ \A v \in Writer : v # w => put'[v] = put[v]
    BY <1>a, <2>2
  <2>4. HasShard(w)'
    BY <2>3 DEF HasShard, NoRequest
  <2> QED
    BY <2>1, <2>3, <2>4, HeldByOthers
<1> QED
  BY <1>1, <1>2, <1>3, <1>4, <1>5, <1>6, <1>7, <1>8, <1>9, <1>10, <1>11, <1>12, <1>13

\* So does every other step; what a power loss leaves is durable.
LEMMA HeldRest ==
  ASSUME HeldInv,
         \/ \E o \in Opener :
               \/ Open(o) \/ SweepDone(o)
               \/ \E x \in Writer \cup {Orphan, Gone} : SweepEntry(o, x)
         \/ \E t \in temps : Age(t)
         \/ \E h \in Hash, s \in Slot : Tamper(h, s)
         \/ PowerLoss
  PROVE  EntriesAreHeld' /\ ShardsAreHeld' /\ FilesHaveShards' /\ StepsHaveShards'
<1>1. CASE UNCHANGED <<disk, put>>
  BY <1>1 DEF disk, left, HeldInv, EntriesAreHeld, ShardsAreHeld, FilesHaveShards, StepsHaveShards, HasShard
<1>2. ASSUME NEW h \in Hash, NEW s \in Slot, Tamper(h, s)
      PROVE  EntriesAreHeld' /\ ShardsAreHeld' /\ FilesHaveShards' /\ StepsHaveShards'
  <2>1. \A k \in Hash, r \in Slot : files'[k][r] # None => files[k][r] # None
    BY <1>2 DEF Tamper, HeldInv, PutInv, TypeOK
  <2>2. UNCHANGED <<shards, shardSynced, synced, leftEntries, leftShards, put>>
    BY <1>2 DEF Tamper, left
  <2>3. EntriesAreHeld' /\ FilesHaveShards'
    BY <2>1, <2>2 DEF HeldInv, EntriesAreHeld, FilesHaveShards
  <2>4. ShardsAreHeld' /\ StepsHaveShards'
    BY <2>2 DEF HeldInv, ShardsAreHeld, StepsHaveShards, HasShard
  <2> QED
    BY <2>3, <2>4
<1>3. CASE PowerLoss
  <2>1. PICK kept \in SUBSET shards, lost \in SUBSET (Published \ synced) :
          /\ files' = [h \in Hash |-> [s \in Slot |->
                          IF ShardOf[h] \notin kept \/ <<h, s>> \in lost
                            THEN None ELSE files[h][s]]]
          /\ shards' = kept
    BY <1>3 DEF PowerLoss
  <2>2. /\ shardSynced' = shards'
        /\ \A h \in Hash, s \in Slot : <<h, s>> \in synced' <=> files'[h][s] # None
        /\ \A w \in Writer : put'[w] = NoRequest
    BY <1>3 DEF PowerLoss, Published, Entry
  <2>3. EntriesAreHeld' /\ ShardsAreHeld'
    BY <2>2 DEF EntriesAreHeld, ShardsAreHeld
  <2>4. FilesHaveShards'
    BY <2>1 DEF FilesHaveShards
  <2>5. StepsHaveShards'
    BY <2>2 DEF StepsHaveShards, HasShard, NoRequest
  <2> QED
    BY <2>3, <2>4, <2>5
<1> QED
  BY <1>1, <1>2, <1>3 DEF Open, SweepDone, SweepEntry, Age

\* The invariant is inductive.
LEMMA HeldStep == HeldInv /\ [Next]_vars => HeldInv'
<1> SUFFICES ASSUME HeldInv, [Next]_vars PROVE HeldInv'
  OBVIOUS
<1>1. PutInv'
  BY PutInvStep DEF HeldInv
<1>2. CASE UNCHANGED vars
  BY <1>1, <1>2 DEF vars, disk, left, HeldInv, EntriesAreHeld, ShardsAreHeld, FilesHaveShards,
                    StepsHaveShards, HasShard
<1>3. CASE Next
  <2>1. EntriesAreHeld' /\ ShardsAreHeld' /\ FilesHaveShards' /\ StepsHaveShards'
    BY <1>3, HeldPut, HeldRest DEF Next
  <2> QED
    BY <1>1, <2>1 DEF HeldInv
<1> QED
  BY <1>2, <1>3

\* Only a power loss takes a published file away.
LEMMA OthersKeepFiles ==
  ASSUME TypeOK, [Next]_vars, ~PowerLoss, NEW h \in Hash, NEW s \in Slot, files'[h][s] = None
  PROVE  files[h][s] = None
<1>1. CASE UNCHANGED files
  BY <1>1
<1>2. ASSUME NEW w \in Writer, Link(w) PROVE files[h][s] = None
  <2>1. CASE UNCHANGED files
    BY <2>1
  <2>2. ASSUME NEW x, Target(w) = None, files' = [files EXCEPT ![put[w].hash][put[w].slot] = x]
        PROVE  files[h][s] = None
    BY <2>2 DEF TypeOK, Target
  <2> QED
    BY <1>2, <2>1, <2>2 DEF Link
<1>3. ASSUME NEW k \in Hash, NEW r \in Slot, Tamper(k, r) PROVE files[h][s] = None
  BY <1>3 DEF Tamper, TypeOK, None, Corrupt
<1> QED
  BY <1>1, <1>2, <1>3 DEF Next, vars, disk, Put, CheckExists, Verify, LookupShard, MakeShard,
     SyncShardName, CreateTemporary, WriteTemporary, Recheck, SyncShard, Discard, Kill, IoError,
     LeavesUnsynced, Open, SweepDone, SweepEntry, Age

\* Whatever writers race, die, fail or stall, a power loss takes a published
\* blob or sidecar only from a put that stood before its own sync, or that was
\* killed or failed there and whose directory nobody has synced since: what one
\* put has synced, no later step of another can make it lose.
THEOREM OnlyTheUnsyncedIsLost == Spec => OnlyUnsyncedIsLost
<1> DEFINE Loses(h, s) ==
      files[h][s] # None /\ files'[h][s] = None =>
        \/ <<h, s>> \in leftEntries \cup UNION {UnsyncedEntry(w) : w \in Writer}
        \/ ShardOf[h] \in leftShards \cup UNION {UnsyncedShard(w) : w \in Writer}
<1>1. HeldInv /\ [Next]_vars => [\A h \in Hash, s \in Slot : Loses(h, s)]_vars
  <2> SUFFICES ASSUME HeldInv, [Next]_vars, NEW h \in Hash, NEW s \in Slot,
                      files[h][s] # None, files'[h][s] = None
               PROVE  \/ <<h, s>> \in leftEntries \cup UNION {UnsyncedEntry(w) : w \in Writer}
                      \/ ShardOf[h] \in leftShards \cup UNION {UnsyncedShard(w) : w \in Writer}
    OBVIOUS
  <2>1. PowerLoss
    BY OthersKeepFiles DEF HeldInv, PutInv
  <2>2. PICK kept \in SUBSET shards, lost \in SUBSET (Published \ synced) :
          /\ shardSynced \subseteq kept
          /\ files' = [k \in Hash |-> [r \in Slot |->
                          IF ShardOf[k] \notin kept \/ <<k, r>> \in lost
                            THEN None ELSE files[k][r]]]
    BY <2>1 DEF PowerLoss
  <2>3. CASE <<h, s>> \in lost
    <3>1. <<h, s>> \in Entry \ synced
      BY <2>3 DEF Published
    <3>2. CASE <<h, s>> \in leftEntries
      BY <3>2
    <3>3. ASSUME NEW w \in Writer, put[w].pc = "sync_shard", put[w].hash = h, put[w].slot = s
          PROVE  <<h, s>> \in UnsyncedEntry(w)
      BY <3>1, <3>3 DEF UnsyncedEntry, At
    <3>4. \/ <<h, s>> \in synced \cup leftEntries
          \/ \E w \in Writer : put[w].pc = "sync_shard" /\ put[w].hash = h /\ put[w].slot = s
      BY DEF HeldInv, EntriesAreHeld
    <3> QED
      BY <3>1, <3>2, <3>3, <3>4
  <2>4. CASE ShardOf[h] \notin kept
    <3>1. ShardOf[h] \in shards \ shardSynced
      BY <2>2, <2>4 DEF HeldInv, FilesHaveShards
    <3>2. CASE ShardOf[h] \in leftShards
      BY <3>2
    <3>3. ASSUME NEW w \in Writer, put[w].pc = "sync_sha256", ShardOf[put[w].hash] = ShardOf[h]
          PROVE  ShardOf[h] \in UnsyncedShard(w)
      BY <3>1, <3>3 DEF UnsyncedShard, At
    <3>4. \/ ShardOf[h] \in shardSynced \cup leftShards
          \/ \E w \in Writer : put[w].pc = "sync_sha256" /\ ShardOf[put[w].hash] = ShardOf[h]
      BY <3>1 DEF HeldInv, ShardsAreHeld
    <3> QED
      BY <3>1, <3>2, <3>3, <3>4
  <2> QED
    BY <2>2, <2>3, <2>4
<1> QED
  BY <1>1, HeldInit, HeldStep, PTL DEF Spec, OnlyUnsyncedIsLost
=============================================================================
