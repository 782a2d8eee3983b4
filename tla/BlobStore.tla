------------------------------ MODULE BlobStore ------------------------------
(***************************************************************************)
(* The content-addressed store of crates/epoch-blob: BlobStore::put run by *)
(* concurrent writers (threads or processes on one directory) while other  *)
(* processes open the store, which sweeps its temporary directory.  Each   *)
(* file-system call that another process can observe is one action.        *)
(*                                                                         *)
(* A hash stands for the bytes it addresses (SHA-256 does not collide).  A *)
(* blob and its media-type sidecar are the two slots of a hash; both are   *)
(* published by the same steps.  A directory entry exists at once and is   *)
(* durable when its directory has been synced: a power loss keeps any      *)
(* selection of the entries that were not.  The root, sha256 and .tmp      *)
(* directories were created and synced by the first open.  Requests that   *)
(* put refuses before it touches the file system (size limit, media type)  *)
(* change nothing and are left out.                                        *)
(***************************************************************************)
EXTENDS Naturals, FiniteSets

CONSTANTS
    Writer,      \* concurrent callers of put
    Opener,      \* processes that open the store
    Hash,        \* contents, by their address
    Media,       \* media types
    Shard,       \* the 256 shard directories
    ShardOf,     \* the first two digits of a hash
    Mishaps      \* what may go wrong in this instance

Mishap == {"kill", "io", "stall", "tamper", "power"}

None == "none"
Corrupt == "corrupt"      \* a file that was modified behind the store's back
Partial == "partial"      \* a file whose write was not completed
Orphan == "orphan"        \* the owner of a temporary file whose writer died
Gone == "gone"            \* a listed temporary file that no longer exists

ASSUME ShardOfType == ShardOf \in [Hash -> Shard]
ASSUME MishapsType == Mishaps \subseteq Mishap
ASSUME TagsAreNotData == {None, Corrupt, Partial} \cap (Hash \cup Media) = {}
ASSUME TagsAreNotWriters == {Orphan, Gone} \cap Writer = {}

VARIABLES
    shards,       \* shard directories that exist
    shardSynced,  \* ... whose name is durable in sha256
    files,        \* what is at the final path of each slot of each hash
    synced,       \* the entries that are durable in their shard directory
    leftEntries,  \* history: unsynced entries whose put ended before its sync
    leftShards,   \* history: unsynced shard directories whose put ended likewise
    temps,        \* the managed files in .tmp
    put,          \* local state of each caller of put
    sweep,        \* local state of each open, and how it ended
    acks          \* history: the metadata put returned Ok with, while it is in place

left == <<leftEntries, leftShards>>
disk == <<shards, shardSynced, files, synced, left>>
vars == <<disk, temps, put, sweep, acks>>

Slot == {"blob", "media"}

Step == {"idle", "exists", "verify", "lookup", "mkdir", "sync_sha256", "create",
         "write", "recheck", "link", "sync_shard", "discard"}

Request == [pc : Step, hash : Hash \cup {None}, media : Media \cup {None},
            slot : Slot, published : BOOLEAN]

NoRequest == [pc |-> "idle", hash |-> None, media |-> None, slot |-> "blob",
              published |-> FALSE]

Temporary == [owner : Writer \cup {Orphan}, data : {Partial, "full"}, old : BOOLEAN]

Sweep == [pc : {"closed", "sweeping", "open", "failed"},
          todo : SUBSET (Writer \cup {Orphan, Gone})]

Closed == [pc |-> "closed", todo |-> {}]

\* The entries of the shard directories.
Entry == Hash \X Slot

Published == {e \in Entry : files[e[1]][e[2]] # None}

TypeOK ==
    /\ shards \subseteq Shard
    /\ shardSynced \subseteq shards
    /\ files \in [Hash -> [Slot -> Hash \cup Media \cup {None, Corrupt, Partial}]]
    /\ synced \subseteq Entry
    /\ leftEntries \subseteq Entry
    /\ leftShards \subseteq Shard
    /\ temps \subseteq Temporary
    /\ put \in [Writer -> Request]
    /\ sweep \in [Opener -> Sweep]
    /\ acks \subseteq [hash : Hash, media : Media]

Init ==
    /\ shards = {}
    /\ shardSynced = {}
    /\ files = [h \in Hash |-> [s \in Slot |-> None]]
    /\ synced = {}
    /\ leftEntries = {}
    /\ leftShards = {}
    /\ temps = {}
    /\ put = [w \in Writer |-> NoRequest]
    /\ sweep = [o \in Opener |-> Closed]
    /\ acks = {}

-----------------------------------------------------------------------------
(* Control of one caller of put. *)

At(w, pc) == put[w].pc = pc
Goto(w, pc) == put' = [put EXCEPT ![w].pc = pc]

\* The file at the final path of the slot the caller is publishing.
Target(w) == files[put[w].hash][put[w].slot]

Owned(w) == {t \in temps : t.owner = w}

Return(w) == put' = [put EXCEPT ![w] = NoRequest]

\* put returns an error; nothing already published is taken back.
Fails(w) == Return(w) /\ UNCHANGED acks

\* The slot is in place: go on to the sidecar, or return the metadata.
SlotDone(w) ==
    \/ /\ put[w].slot = "blob"
       /\ put' = [put EXCEPT ![w].pc = "exists", ![w].slot = "media",
                             ![w].published = FALSE]
       /\ UNCHANGED acks
    \/ /\ put[w].slot = "media"
       /\ Return(w)
       /\ acks' = acks \cup {[hash |-> put[w].hash, media |-> put[w].media]}

\* The names of these owners' files are no longer in .tmp: an open that has
\* listed them will not find them.
Vanish(owners) ==
    sweep' = [o \in Opener |->
                 [sweep[o] EXCEPT !.todo =
                     (@ \ owners) \cup (IF @ \cap owners = {} THEN {} ELSE {Gone})]]

-----------------------------------------------------------------------------
(* BlobStore::put. *)

Put(w, h, m) ==
    /\ At(w, "idle")
    /\ put' = [put EXCEPT ![w] = [NoRequest EXCEPT !.pc = "exists", !.hash = h, !.media = m]]
    /\ UNCHANGED <<disk, temps, sweep, acks>>

\* secure_regular_file_exists, on the blob and later on its sidecar.
CheckExists(w) ==
    /\ At(w, "exists")
    /\ Goto(w, CASE Target(w) # None -> "verify"
                 [] Target(w) = None /\ put[w].slot = "blob" -> "lookup"
                 [] OTHER -> "create")
    /\ UNCHANGED <<disk, temps, sweep, acks>>

\* Mutant: a sidecar that cannot be read counts as the requested type.
Verify_TrustsCorrupt(w) ==
    /\ At(w, "verify")
    /\ LET asked == IF put[w].slot = "blob" THEN put[w].hash ELSE put[w].media
       IN  IF Target(w) \in {asked, Corrupt} THEN SlotDone(w) ELSE Fails(w)
    /\ UNCHANGED <<disk, temps, sweep>>

\* Read what is there: the bytes must hash to their address (else put fails
\* with HashMismatch), the stored media type must be the requested one (else
\* with MediaTypeConflict or CorruptMediaType).
Verify(w) ==
    /\ At(w, "verify")
    /\ LET asked == IF put[w].slot = "blob" THEN put[w].hash ELSE put[w].media
       IN  \/ Target(w) = asked /\ SlotDone(w)
           \/ Target(w) # asked /\ Fails(w)
    /\ UNCHANGED <<disk, temps, sweep>>

\* ensure_secure_directory finds the shard directory, or creates it (a
\* directory created meanwhile by somebody else counts as created).
LookupShard(w) ==
    /\ At(w, "lookup")
    /\ Goto(w, IF ShardOf[put[w].hash] \in shards THEN "create" ELSE "mkdir")
    /\ UNCHANGED <<disk, temps, sweep, acks>>

MakeShard(w) ==
    /\ At(w, "mkdir")
    /\ shards' = shards \cup {ShardOf[put[w].hash]}
    /\ Goto(w, "sync_sha256")
    /\ UNCHANGED <<shardSynced, files, synced, left, temps, sweep, acks>>

SyncShardName(w) ==
    /\ At(w, "sync_sha256")
    /\ shardSynced' = shards
    /\ leftShards' = {}
    /\ Goto(w, "create")
    /\ UNCHANGED <<shards, files, synced, leftEntries, temps, sweep, acks>>

\* Mutant: the file is published as soon as it is created.
CreateTemporary_NoWrite(w) ==
    /\ At(w, "create")
    /\ temps' = temps \cup {[owner |-> w, data |-> Partial, old |-> FALSE]}
    /\ Goto(w, "link")
    /\ UNCHANGED <<disk, sweep, acks>>

CreateTemporary(w) ==
    /\ At(w, "create")
    /\ temps' = temps \cup {[owner |-> w, data |-> Partial, old |-> FALSE]}
    /\ Goto(w, "write")
    /\ UNCHANGED <<disk, sweep, acks>>

\* write_and_sync works on the open file, whether or not it still has a name.
WriteTemporary(w) ==
    /\ At(w, "write")
    /\ temps' = (temps \ Owned(w)) \cup {[t EXCEPT !.data = "full"] : t \in Owned(w)}
    /\ Goto(w, IF put[w].slot = "blob" THEN "recheck" ELSE "link")
    /\ UNCHANGED <<disk, sweep, acks>>

\* A concurrent writer may have published the address meanwhile.
Recheck(w) ==
    /\ At(w, "recheck")
    /\ Goto(w, IF Target(w) # None THEN "discard" ELSE "link")
    /\ UNCHANGED <<disk, temps, sweep, acks>>

\* publish_no_clobber: the hard link fails if its source was swept and loses
\* if the final path is taken.
Link(w) ==
    /\ At(w, "link")
    /\ \/ /\ Owned(w) = {}
          /\ Fails(w)
          /\ UNCHANGED files
       \/ /\ Owned(w) # {} /\ Target(w) # None
          /\ Goto(w, "discard")
          /\ UNCHANGED <<files, acks>>
       \/ /\ Target(w) = None
          /\ \E t \in Owned(w) :
                files' = [files EXCEPT ![put[w].hash][put[w].slot] =
                             CASE t.data # "full" -> Partial
                               [] t.data = "full" /\ put[w].slot = "blob" -> put[w].hash
                               [] OTHER -> put[w].media]
          /\ put' = [put EXCEPT ![w].pc = "sync_shard", ![w].published = TRUE]
          /\ UNCHANGED acks
    /\ UNCHANGED <<shards, shardSynced, synced, left, temps, sweep>>

\* Mutant: the directory is not synced.
SyncShard_NoSync(w) == At(w, "sync_shard") /\ Goto(w, "discard") /\ UNCHANGED <<disk, temps, sweep, acks>>

SyncShard(w) ==
    /\ At(w, "sync_shard")
    /\ synced' = synced \cup {e \in Entry : /\ ShardOf[e[1]] = ShardOf[put[w].hash]
                                            /\ files[e[1]][e[2]] # None}
    /\ leftEntries' = leftEntries \ synced'
    /\ Goto(w, "discard")
    /\ UNCHANGED <<shards, shardSynced, files, leftShards, temps, sweep, acks>>

\* discard_temporary: removing a temporary file that was swept is an error,
\* even when its link is in place.
Discard(w) ==
    /\ At(w, "discard")
    /\ \/ Owned(w) = {} /\ Fails(w) /\ UNCHANGED <<temps, sweep>>
       \/ /\ Owned(w) # {}
          /\ temps' = temps \ Owned(w)
          /\ Vanish({w})
          /\ \/ put[w].published /\ SlotDone(w)
             \/ ~put[w].published /\ Goto(w, "verify") /\ UNCHANGED acks
    /\ UNCHANGED disk

-----------------------------------------------------------------------------
(* BlobStore::open and the sweep of .tmp that ends it. *)

\* read_dir lists the temporary files that exist now.
Open(o) ==
    /\ sweep[o].pc # "sweeping"
    /\ sweep' = [sweep EXCEPT ![o] = [pc |-> "sweeping",
                                      todo |-> {t.owner : t \in temps}]]
    /\ UNCHANGED <<disk, temps, put, acks>>

\* Mutant: the age of a temporary file is not looked at.
SweepEntry_AnyAge(o, owner) ==
    /\ sweep[o].pc = "sweeping" /\ owner \in sweep[o].todo
    /\ temps' = {t \in temps : t.owner # owner}
    /\ sweep' = [sweep EXCEPT ![o].todo = @ \ {owner}]
    /\ UNCHANGED <<disk, put, acks>>

\* One entry of the listing: symlink_metadata fails if it has vanished, an
\* old file is removed, a young one kept.
SweepEntry(o, owner) ==
    /\ sweep[o].pc = "sweeping" /\ owner \in sweep[o].todo
    /\ \/ /\ owner = Gone
          /\ sweep' = [sweep EXCEPT ![o] = [pc |-> "failed", todo |-> {}]]
          /\ UNCHANGED temps
       \/ /\ owner # Gone
          /\ temps' = {t \in temps : t.owner # owner \/ ~t.old}
          /\ LET vanished == {owner} \ {t.owner : t \in temps'}
             IN  sweep' = [p \in Opener |->
                    IF p = o THEN [sweep[o] EXCEPT !.todo = @ \ {owner}]
                    ELSE [sweep[p] EXCEPT !.todo =
                            (@ \ vanished) \cup (IF @ \cap vanished = {} THEN {} ELSE {Gone})]]
    /\ UNCHANGED <<disk, put, acks>>

SweepDone(o) ==
    /\ sweep[o].pc = "sweeping" /\ sweep[o].todo = {}
    /\ sweep' = [sweep EXCEPT ![o].pc = "open"]
    /\ UNCHANGED <<disk, temps, put, acks>>

-----------------------------------------------------------------------------
(* The environment. *)

\* A file left behind reaches the 24 hours of DEFAULT_STALE_TEMPORARY_AGE;
\* one of a live writer only if that writer stalls for as long.
Age(t) ==
    /\ t \in temps /\ ~t.old
    /\ t.owner = Orphan \/ "stall" \in Mishaps
    /\ temps' = (temps \ {t}) \cup {[t EXCEPT !.old = TRUE]}
    /\ UNCHANGED <<disk, put, sweep, acks>>

\* An orphan is never linked: what was written to it no longer matters.
Orphaned(ts) == {[t EXCEPT !.owner = Orphan, !.data = Partial] : t \in ts}

\* The entry, the shard directory that the caller has made and not yet synced.
UnsyncedEntry(w) ==
    {e \in Entry \ synced : At(w, "sync_shard") /\ e = <<put[w].hash, put[w].slot>>}

UnsyncedShard(w) ==
    {d \in shards \ shardSynced : At(w, "sync_sha256") /\ d = ShardOf[put[w].hash]}

\* The caller ends here, and nobody goes back to the sync it was about to make.
LeavesUnsynced(w) ==
    /\ leftEntries' = leftEntries \cup UnsyncedEntry(w)
    /\ leftShards' = leftShards \cup UnsyncedShard(w)
    /\ UNCHANGED <<shards, shardSynced, files, synced>>

\* The writer's process is killed: no destructor runs.
Kill(w) ==
    /\ "kill" \in Mishaps /\ ~At(w, "idle")
    /\ temps' = (temps \ Owned(w)) \cup Orphaned(Owned(w))
    /\ put' = [put EXCEPT ![w] = NoRequest]
    /\ sweep' = [o \in Opener |->
                    [sweep[o] EXCEPT !.todo = {IF x = w THEN Orphan ELSE x : x \in @}]]
    /\ LeavesUnsynced(w)
    /\ UNCHANGED acks

\* Any file-system call may fail; TemporaryBlob's destructor removes the file.
IoError(w) ==
    /\ "io" \in Mishaps /\ ~At(w, "idle")
    /\ temps' = temps \ Owned(w)
    /\ IF Owned(w) = {} THEN UNCHANGED sweep ELSE Vanish({w})
    /\ Fails(w)
    /\ LeavesUnsynced(w)

\* Somebody else modifies a published file.
Tamper(h, s) ==
    /\ "tamper" \in Mishaps /\ files[h][s] \notin {None, Corrupt}
    /\ files' = [files EXCEPT ![h][s] = Corrupt]
    /\ UNCHANGED <<shards, shardSynced, synced, left, temps, put, sweep, acks>>

\* The machine stops: entries that were not synced may be lost, and with the
\* name of a shard directory everything in it.
PowerLoss ==
    /\ "power" \in Mishaps
    /\ \E kept \in SUBSET shards, lost \in SUBSET (Published \ synced) :
          /\ shardSynced \subseteq kept
          /\ files' = [h \in Hash |-> [s \in Slot |->
                          IF ShardOf[h] \notin kept \/ <<h, s>> \in lost
                            THEN None ELSE files[h][s]]]
          /\ shards' = kept
    /\ temps' \in SUBSET Orphaned(temps)
    /\ shardSynced' = shards'
    /\ synced' = Published'
    /\ leftEntries' = {} /\ leftShards' = {}
    /\ put' = [w \in Writer |-> NoRequest]
    /\ sweep' = [o \in Opener |-> Closed]
    /\ acks' = {a \in acks : \A s \in Slot : files'[a.hash][s] # None}

Next ==
    \/ \E w \in Writer :
          \/ \E h \in Hash, m \in Media : Put(w, h, m)
          \/ CheckExists(w) \/ Verify(w)
          \/ LookupShard(w) \/ MakeShard(w) \/ SyncShardName(w)
          \/ CreateTemporary(w) \/ WriteTemporary(w) \/ Recheck(w)
          \/ Link(w) \/ SyncShard(w) \/ Discard(w)
          \/ Kill(w) \/ IoError(w)
    \/ \E o \in Opener :
          \/ Open(o) \/ SweepDone(o)
          \/ \E x \in Writer \cup {Orphan, Gone} : SweepEntry(o, x)
    \/ \E t \in temps : Age(t)
    \/ \E h \in Hash, s \in Slot : Tamper(h, s)
    \/ PowerLoss

Spec == Init /\ [][Next]_vars

-----------------------------------------------------------------------------
(* Properties. *)

\* No interrupted write is ever visible at a final path, whatever fails:
\* put links a temporary file only after write_and_sync.
PublishedIsComplete == \A h \in Hash, s \in Slot : files[h][s] # Partial

\* Two puts of the same bytes that both returned Ok returned the same media
\* type, however the writers of blob and sidecar raced, died or retried, unless
\* the power took what the first was told.
AcksAgree == \A a, b \in acks : a.hash = b.hash => a.media = b.media

\* No step of another, and no sweep of a concurrent open, takes a temporary file
\* that has not reached the stale age from a writer that is alive: such a put
\* cannot fail on a link or a removal whose source is missing.
SweepSparesWriters == [][\A w \in Writer :
    /\ ~At(w, "idle") /\ put'[w] = put[w]
    /\ \E t \in Owned(w) : ~t.old
    => Owned(w)' # {}]_vars

\* A power loss takes a published file, acknowledged or not, only from a put
\* that has made the entry or its shard directory and not yet synced it, or that
\* was killed or failed just there with nobody to sync it since.  So a blob whose
\* put went through on its own is never lost, whoever relies on it later.
OnlyUnsyncedIsLost == [][\A h \in Hash, s \in Slot :
    files[h][s] # None /\ files'[h][s] = None =>
        \/ <<h, s>> \in leftEntries \cup UNION {UnsyncedEntry(w) : w \in Writer}
        \/ ShardOf[h] \in leftShards \cup UNION {UnsyncedShard(w) : w \in Writer}]_vars

\* What put has returned Ok for stays in the store, whatever becomes of the
\* power: "durably pins one exact media type to each content hash" (lib.rs:93).
AckedIsDurable == [][acks \subseteq acks']_vars
=============================================================================
