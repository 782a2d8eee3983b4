---------------------------- MODULE EventJournal ----------------------------
(***************************************************************************)
(* The append-only journal of crates/epoch-events: EventJournal::append    *)
(* run by concurrent recorders (threads or processes on one database), and *)
(* readers that follow next_offset from page to page (query_page under     *)
(* DirectSupervisor::events).                                              *)
(*                                                                         *)
(* The blobs an event names are written and verified before the immediate  *)
(* transaction that validates the references, allocates the sequence and   *)
(* inserts the row; a recorder may stop in between.  BlobStore models what *)
(* a put does; here it is one step.  Branch ids are numbers, in the order  *)
(* of their text.  The kind and sequence filters of a query select rows by *)
(* a column that never changes and are left out.                           *)
(***************************************************************************)
EXTENDS Integers, FiniteSets, FiniteSetsExt

CONSTANTS
    Recorder,      \* concurrent callers of append
    Reader,        \* callers that page through the journal
    Branch,        \* branch ids
    Session, SessionOf,
    ReadSession,   \* the session the readers ask for
    Epoch, EpochBranch,
    Payload,       \* payloads, by the hash of their encoding
    Large,         \* ... that are longer than INLINE_PAYLOAD_LIMIT
    Limit,         \* page size the readers ask for
    MaxImported,   \* bound: rows of a branch written by an import
    MaxEvents      \* bound: rows of the table

None == "none"
NoId == 0                  \* no branch, no event

ASSUME BranchType == Branch \subseteq Nat \ {0} /\ IsFiniteSet(Branch)
ASSUME SessionOfType == SessionOf \in [Branch -> Session]
ASSUME ReadSessionType == ReadSession \in Session
ASSUME EpochBranchType == EpochBranch \in [Epoch -> Branch]
ASSUME LargeType == Large \subseteq Payload /\ Large # Payload
ASSUME LimitType == Limit \in Nat \ {0}
ASSUME BoundsType == MaxImported \in Nat /\ MaxEvents \in Nat
ASSUME NoneIsNoValue == None \notin Epoch \cup Payload

VARIABLES
    events,    \* rows of the events table
    next,      \* branches.next_event_sequence
    stored,    \* contents in the blob directory
    blobs,     \* rows of the blobs table
    append,    \* local state of each caller of append
    walk       \* local state of each reader

vars == <<events, next, stored, blobs, append, walk>>

Row == [id : Nat, branch : Branch, sequence : Nat, parent : Nat,
        input : Payload \cup {None}, payload : Payload]

\* NewEvent: what a recorder supplies; input stands for both blob references.
NewEvent == [session : Session, branch : Branch, epoch : Epoch \cup {None},
             parent : Nat, input : Payload \cup {None}, payload : Payload]

NoEvent == [branch |-> NoId]

Walk == [scope : Branch \cup {NoId}, offset : Nat, seen : SUBSET Nat,
         had : SUBSET Nat, repeated : BOOLEAN, missed : BOOLEAN, more : BOOLEAN]

TypeOK ==
    /\ events \subseteq Row
    /\ next \in [Branch -> Nat]
    /\ blobs \subseteq Payload /\ stored \subseteq Payload
    /\ append \in [Recorder -> [pc : {"idle", "verify", "prepare", "transaction"},
                                event : NewEvent \cup {NoEvent}]]
    /\ walk \in [Reader -> Walk]

Rows(b) == {e \in events : e.branch = b}
Sequences(b) == {e.sequence : e \in Rows(b)}

\* A trusted import, or an older build, may have left rows and a counter that
\* does not know of all of them.
Imported(b, count) ==
    {[id |-> b * MaxImported + i, branch |-> b, sequence |-> i, parent |-> NoId,
      input |-> None, payload |-> CHOOSE p \in Payload \ Large : TRUE] : i \in 0..(count - 1)}

NoWalk == [scope |-> NoId, offset |-> 0, seen |-> {}, had |-> {},
           repeated |-> FALSE, missed |-> FALSE, more |-> FALSE]

Init ==
    /\ \E count \in [Branch -> 0..MaxImported] :
          /\ events = UNION {Imported(b, count[b]) : b \in Branch}
          /\ next \in {n \in [Branch -> 0..MaxImported] : \A b \in Branch : n[b] <= count[b]}
    /\ stored = {} /\ blobs = {}
    /\ append = [r \in Recorder |-> [pc |-> "idle", event |-> NoEvent]]
    /\ walk = [r \in Reader |-> NoWalk]

-----------------------------------------------------------------------------
(* EventJournal::append. *)

At(r, pc) == append[r].pc = pc
Goto(r, pc) == append' = [append EXCEPT ![r].pc = pc]
Return(r) == append' = [append EXCEPT ![r] = [pc |-> "idle", event |-> NoEvent]]

Append(r, event) ==
    /\ At(r, "idle")
    /\ Cardinality(events) < MaxEvents
    /\ append' = [append EXCEPT ![r] = [pc |-> "verify", event |-> event]]
    /\ UNCHANGED <<events, next, stored, blobs, walk>>

\* verify_referenced_blob: a reference that cannot be read is an error.
VerifyBlobs(r) ==
    /\ At(r, "verify")
    /\ IF append[r].event.input \in stored \cup {None} THEN Goto(r, "prepare") ELSE Return(r)
    /\ UNCHANGED <<events, next, stored, blobs, walk>>

\* prepare_payload: a large payload is put into the blob store first.
PreparePayload(r) ==
    /\ At(r, "prepare")
    /\ stored' = stored \cup ({append[r].event.payload} \cap Large)
    /\ Goto(r, "transaction")
    /\ UNCHANGED <<events, next, blobs, walk>>

\* validate_append_references.
InScope(event) ==
    /\ SessionOf[event.branch] = event.session
    /\ event.parent # NoId => \E e \in Rows(event.branch) : e.id = event.parent
    /\ event.epoch # None => EpochBranch[event.epoch] = event.branch
    /\ event.input \in blobs \cup {None}

\* The first sequence above every row of the branch.
FirstFree(b) == IF Rows(b) = {} THEN 0 ELSE Max(Sequences(b)) + 1

\* Mutant: the counter is trusted.
Allocated_Trusting(b) == next[b]

\* allocate_sequence repairs a stale counter before it takes a number.
Allocated(b) == Max({next[b], FirstFree(b)})

\* EventId::new.
FreshId == Max({0} \cup {e.id : e \in events}) + 1

\* The immediate transaction, committed.
Record(r) ==
    LET event == append[r].event
        sequence == Allocated(event.branch)
    IN  /\ At(r, "transaction")
        /\ Cardinality(events) < MaxEvents
        /\ InScope(event)
        /\ events' = events \cup
              {[id |-> FreshId, branch |-> event.branch, sequence |-> sequence,
                parent |-> event.parent, input |-> event.input, payload |-> event.payload]}
        /\ next' = [next EXCEPT ![event.branch] = sequence + 1]
        /\ blobs' = blobs \cup ({event.payload} \cap Large)
        /\ Return(r)
        /\ UNCHANGED <<stored, walk>>

\* The recorder returns an error or dies: a reference is out of scope, the
\* store is busy or fails, a fault is injected after the allocation.  The
\* transaction is rolled back; a blob that was put stays.
Abandon(r) ==
    /\ append[r].pc # "idle"
    /\ Return(r)
    /\ UNCHANGED <<events, next, stored, blobs, walk>>

\* Another component (effect gateway, recovery) puts a blob and registers it
\* in a transaction of its own.
RegisterBlob(p) ==
    /\ p \in Large
    /\ stored' = stored \cup {p}
    /\ blobs' = blobs \cup {p}
    /\ UNCHANGED <<events, next, append, walk>>

-----------------------------------------------------------------------------
(* Reading page by page. *)

\* ORDER BY branch_id, sequence, id.
Before(e, f) ==
    \/ e.branch < f.branch
    \/ e.branch = f.branch /\ e.sequence < f.sequence
    \/ e.branch = f.branch /\ e.sequence = f.sequence /\ e.id < f.id

\* The rows of the session, or of one branch of it.
Matching(scope) ==
    {e \in events : SessionOf[e.branch] = ReadSession /\ scope \in {NoId, e.branch}}

\* How many matching rows come before e: its OFFSET.
Position(e, scope) == Cardinality({f \in Matching(scope) : Before(f, e)})

\* LIMIT limit OFFSET offset.
Page(scope, offset, limit) ==
    {e \in Matching(scope) : Position(e, scope) \in offset..(offset + limit - 1)}

Ids(rows) == {e.id : e \in rows}

\* What the reader knows after a page: whether a walk over one branch saw an
\* event twice and, at the end, whether one that was there from the beginning
\* was missed.
Turned(w, page, more, offset) ==
    LET seen == w.seen \cup Ids(page)
        repeated == w.repeated \/ (w.scope # NoId /\ w.seen \cap Ids(page) # {})
    IN  IF more
        THEN [w EXCEPT !.offset = offset, !.seen = seen, !.repeated = repeated, !.more = TRUE]
        ELSE [NoWalk EXCEPT !.repeated = repeated, !.missed = ~(w.had \subseteq seen)]

\* Mutant: the row fetched to learn has_more is counted as returned.
Fetch_SkipsExtra(r, w) ==
    LET fetched == Page(w.scope, w.offset, Limit + 1)
        page == Page(w.scope, w.offset, Limit)
    IN  walk' = [walk EXCEPT ![r] = Turned(w, page, Cardinality(fetched) > Limit,
                                           w.offset + Cardinality(fetched))]

\* query_page fetches one row more than it returns, to know has_more;
\* events continues at next_offset.
Fetch(r, w) ==
    LET fetched == Page(w.scope, w.offset, Limit + 1)
        page == Page(w.scope, w.offset, Limit)
    IN  walk' = [walk EXCEPT ![r] = Turned(w, page, Cardinality(fetched) > Limit,
                                           w.offset + Cardinality(page))]

FirstPage(r, scope) ==
    /\ ~walk[r].more
    /\ scope # NoId => SessionOf[scope] = ReadSession
    /\ Fetch(r, [NoWalk EXCEPT !.scope = scope, !.had = Ids(Matching(scope))])
    /\ UNCHANGED <<events, next, stored, blobs, append>>

NextPage(r) ==
    /\ walk[r].more
    /\ Fetch(r, walk[r])
    /\ UNCHANGED <<events, next, stored, blobs, append>>

\* The events a recorder asks to append: causal parents may be of any branch.
Requests == [session : Session, branch : Branch, epoch : Epoch \cup {None},
             parent : Ids(events) \cup {NoId}, input : Large \cup {None}, payload : Payload]

Next ==
    \/ \E r \in Recorder :
          \/ \E event \in Requests : Append(r, event)
          \/ VerifyBlobs(r) \/ PreparePayload(r) \/ Record(r) \/ Abandon(r)
    \/ \E p \in Payload : RegisterBlob(p)
    \/ \E r \in Reader :
          \/ \E scope \in Branch \cup {NoId} : FirstPage(r, scope)
          \/ NextPage(r)

Spec == Init /\ [][Next]_vars

-----------------------------------------------------------------------------
(* Properties. *)

\* The sequences of a branch are 0, 1, 2, ... without gap and without
\* duplicate, whatever appends were rolled back and however stale the counter
\* was that an import left behind.
SequencesAreDense == \A b \in Branch :
    Sequences(b) = 0..(Cardinality(Rows(b)) - 1)

\* A finished walk has returned every event that was there when it began, also
\* across branches and while others append; and within one branch it returned no
\* event twice, since appends do not move the offsets of earlier rows.
WalksAreFaithful == \A r \in Reader : ~walk[r].missed /\ ~walk[r].repeated
=============================================================================
