------------------------- MODULE EventJournalProofs -------------------------
(***************************************************************************)
(* Proofs about EventJournal, for any number of recorders, readers,        *)
(* branches, sessions and payloads, any page size and any stale counters.  *)
(*                                                                         *)
(* Density rests on the counter never being ahead of the rows.  A walk is  *)
(* faithful because a row's position in the ordered result only grows: a   *)
(* row that was there when the walk began is behind the offset only once   *)
(* it has been returned.                                                   *)
(***************************************************************************)
EXTENDS EventJournal, FiniteSetTheorems, TLAPS

-----------------------------------------------------------------------------
(* Finite sets of numbers. *)

\* A finite set of numbers that is not empty has a largest element.
LEMMA MaxExists ==
  ASSUME NEW S \in SUBSET Nat, IsFiniteSet(S), S # {}
  PROVE  \E x \in S : \A y \in S : x >= y
<1> DEFINE HasMax(U) == \E x \in U : \A y \in U : x >= y
           Bad == {U \in SUBSET S : U # {} /\ ~HasMax(U)}
<1> SUFFICES ASSUME Bad # {} PROVE FALSE
  BY DEF Bad
<1>1. IsWellFoundedOn(StrictSubsetOrdering(S), SUBSET S)
  BY FS_StrictSubsetOrderingWellFounded, FS_FiniteSubsetsOfFinite
<1>2. PICK U \in Bad : \A V \in Bad : ~(<<V, U>> \in StrictSubsetOrdering(S))
  <2> HIDE DEF Bad
  <2>1. Bad \subseteq SUBSET S
    BY DEF Bad
  <2> QED
    BY <1>1, <2>1, WFMin
<1>3. PICK a \in U : TRUE
  OBVIOUS
<1>4. U \ {a} # {}
  BY <1>3
<1>5. U \ {a} \notin Bad
  <2>1. <<U \ {a}, U>> \in StrictSubsetOrdering(S)
    BY <1>3 DEF StrictSubsetOrdering
  <2> QED
    BY <1>2, <2>1
<1>6. PICK m \in U \ {a} : \A y \in U \ {a} : m >= y
  BY <1>4, <1>5
<1>7. a \in Nat /\ m \in Nat /\ U \subseteq Nat
  OBVIOUS
<1>8. CASE a >= m
  <2>1. \A y \in U : a >= y
    BY <1>6, <1>7, <1>8
  <2> QED
    BY <2>1
<1>9. CASE m >= a
  <2>1. \A y \in U : m >= y
    BY <1>6, <1>7, <1>9
  <2> QED
    BY <2>1
<1> QED
  BY <1>7, <1>8, <1>9

\* So Max is what its name says.
LEMMA MaxIsLargest ==
  ASSUME NEW S \in SUBSET Nat, IsFiniteSet(S), S # {}
  PROVE  Max(S) \in S /\ \A y \in S : Max(S) >= y
<1>1. \E x \in S : \A y \in S : x >= y
  BY MaxExists
<1> QED
  BY <1>1 DEF Max

\* A number that is in the set and bounds it is its maximum.
LEMMA MaxIs ==
  ASSUME NEW S \in SUBSET Nat, NEW m \in S, \A y \in S : m >= y
  PROVE  Max(S) = m
<1>1. Max(S) \in S /\ \A y \in S : Max(S) >= y
  BY DEF Max
<1>2. PICK x \in Nat : x = Max(S)
  BY <1>1
<1>3. x >= m /\ m >= x /\ m \in Nat
  BY <1>1, <1>2
<1>4. x = m
  BY <1>3
<1> QED
  BY <1>2, <1>4

\* The identifiers of finitely many rows are finitely many.
LEMMA IdsFinite ==
  ASSUME NEW S, IsFiniteSet(S)
  PROVE  IsFiniteSet(Ids(S))
<1> DEFINE f == [e \in S |-> e.id]
<1>1. f \in Surjection(S, Ids(S))
  BY DEF Surjection, Ids
<1> QED
  BY <1>1, FS_Surjection

-----------------------------------------------------------------------------
(* The order of a query and the positions it gives. *)

\* What the table must be for a query to have an order: finitely many rows,
\* and a primary key.
TableInv ==
    /\ events \subseteq Row
    /\ IsFiniteSet(events)
    /\ \A e, f \in events : e.id = f.id => e = f

\* The rows a query selects, and those before one of them.
LEMMA MatchingFinite ==
  ASSUME TableInv, NEW scope
  PROVE  /\ IsFiniteSet(Matching(scope))
         /\ Cardinality(Matching(scope)) \in Nat
         /\ \A e : /\ IsFiniteSet({f \in Matching(scope) : Before(f, e)})
                   /\ Position(e, scope) \in Nat
<1>1. IsFiniteSet(Matching(scope))
  BY FS_Subset DEF TableInv, Matching
<1>2. ASSUME NEW e
      PROVE  IsFiniteSet({f \in Matching(scope) : Before(f, e)}) /\ Position(e, scope) \in Nat
  BY <1>1, FS_Subset, FS_CardinalityType DEF Position
<1> QED
  BY <1>1, <1>2, FS_CardinalityType

\* ORDER BY branch_id, sequence, id is a strict order on rows ...
LEMMA BeforeIsOrder ==
  ASSUME NEW e \in Row, NEW f \in Row, NEW g \in Row
  PROVE  /\ ~Before(e, e)
         /\ Before(e, f) /\ Before(f, g) => Before(e, g)
         /\ e.id # f.id => Before(e, f) \/ Before(f, e)
<1>1. /\ e.branch \in Nat /\ f.branch \in Nat /\ g.branch \in Nat
      /\ e.sequence \in Nat /\ f.sequence \in Nat /\ g.sequence \in Nat
      /\ e.id \in Nat /\ f.id \in Nat /\ g.id \in Nat
  BY BranchType DEF Row
<1> QED
  BY <1>1 DEF Before

\* ... so a row that comes first has the smaller position ...
LEMMA BeforeIsLess ==
  ASSUME TableInv, NEW scope, NEW e \in Matching(scope), NEW f \in Matching(scope), Before(e, f)
  PROVE  Position(e, scope) < Position(f, scope)
<1> DEFINE E == {g \in Matching(scope) : Before(g, e)}
           F == {g \in Matching(scope) : Before(g, f)}
<1>1. Matching(scope) \subseteq Row
  BY DEF Matching, TableInv
<1>2. E \subseteq F
  BY <1>1, BeforeIsOrder
<1>3. e \in F /\ e \notin E
  BY <1>1, BeforeIsOrder
<1>4. IsFiniteSet(F) /\ Cardinality(E) \in Nat /\ Cardinality(F) \in Nat
  BY MatchingFinite DEF Position
<1> HIDE DEF E, F
<1>5. Cardinality(E) <= Cardinality(F) /\ Cardinality(E) # Cardinality(F)
  BY <1>2, <1>3, <1>4, FS_Subset
<1>6. Cardinality(E) < Cardinality(F)
  BY <1>4, <1>5
<1> QED
  BY <1>6 DEF Position, E, F

\* ... and the positions are 0, 1, ... up to the number of rows, each once.
LEMMA PositionBijection ==
  ASSUME TableInv, NEW scope
  PROVE  [e \in Matching(scope) |-> Position(e, scope)]
            \in Bijection(Matching(scope), 0..(Cardinality(Matching(scope)) - 1))
<1> DEFINE M == Matching(scope)
           n == Cardinality(M)
           T == 0..(n - 1)
           p == [e \in M |-> Position(e, scope)]
<1>1. IsFiniteSet(M) /\ n \in Nat /\ \A e \in M : Position(e, scope) \in Nat
  BY MatchingFinite
<1>2. M \subseteq events /\ M \subseteq Row
  BY DEF Matching, TableInv
<1>3. \A e \in M : Position(e, scope) < n
  <2> SUFFICES ASSUME NEW e \in M PROVE Position(e, scope) < n
    OBVIOUS
  <2> DEFINE E == {f \in M : Before(f, e)}
  <2>1. E \subseteq M /\ e \notin E
    BY <1>2, BeforeIsOrder
  <2>2. Cardinality(E) \in Nat
    BY MatchingFinite DEF Position
  <2> HIDE DEF E, M
  <2>3. Cardinality(E) <= n /\ Cardinality(E) # n
    BY <1>1, <2>1, FS_Subset
  <2>4. Cardinality(E) < n
    BY <1>1, <2>2, <2>3
  <2> QED
    BY <2>4 DEF Position, E, M
<1>4. \A e, f \in M : Position(e, scope) = Position(f, scope) => e = f
  <2> SUFFICES ASSUME NEW e \in M, NEW f \in M, e # f
               PROVE  Position(e, scope) # Position(f, scope)
    OBVIOUS
  <2>1. Before(e, f) \/ Before(f, e)
    BY <1>2, BeforeIsOrder DEF TableInv
  <2>2. Position(e, scope) < Position(f, scope) \/ Position(f, scope) < Position(e, scope)
    BY <2>1, BeforeIsLess
  <2> QED
    BY <1>1, <2>2
<1> HIDE DEF M
<1>5. \A e \in M : Position(e, scope) \in T
  BY <1>1, <1>3
<1>6. p \in Injection(M, T)
  BY <1>4, <1>5 DEF Injection, IsInjective
<1>7. IsFiniteSet(T) /\ Cardinality(T) = n
  <2>1. 0 \in Int /\ n - 1 \in Int
    BY <1>1
  <2>2. /\ IsFiniteSet(T)
        /\ Cardinality(T) = IF 0 > n - 1 THEN 0 ELSE (n - 1) - 0 + 1
    BY ONLY <2>1, FS_Interval
  <2>3. (IF 0 > n - 1 THEN 0 ELSE (n - 1) - 0 + 1) = n
    BY <1>1
  <2> QED
    BY <2>2, <2>3
<1>8. p \in Surjection(M, T)
  BY <1>6, <1>7, FS_Injection
<1> QED
  BY <1>6, <1>8 DEF Bijection, M

\* The size of a page: full, or what is left of the result.
LEMMA PageSize ==
  ASSUME TableInv, NEW scope, NEW offset \in Nat, NEW limit \in Nat \ {0}
  PROVE  LET n == Cardinality(Matching(scope)) IN
         /\ n \in Nat
         /\ n >= offset + limit => Cardinality(Page(scope, offset, limit)) = limit
         /\ n < offset + limit => Cardinality(Page(scope, offset, limit)) =
                                    IF n >= offset THEN n - offset ELSE 0
<1> DEFINE M == Matching(scope)
           n == Cardinality(M)
           P == Page(scope, offset, limit)
           hi == IF n >= offset + limit THEN offset + limit - 1 ELSE n - 1
           T == offset..hi
           p == [e \in M |-> Position(e, scope)]
           q == [e \in P |-> p[e]]
<1>1. IsFiniteSet(M) /\ n \in Nat
  BY MatchingFinite
<1>2. p \in Injection(M, 0..(n - 1)) /\ p \in Surjection(M, 0..(n - 1))
  BY PositionBijection DEF Bijection
<1>3. P = {e \in M : p[e] \in offset..(offset + limit - 1)}
  BY DEF Page
<1> HIDE DEF M, p, P
<1>4. hi \in Int
  BY <1>1
<1>5. \A e \in M : p[e] \in 0..(n - 1)
  BY <1>2 DEF Injection
<1>6. \A e \in P : e \in M /\ p[e] \in T
  BY <1>1, <1>3, <1>5
<1>7. q \in Injection(P, T)
  BY <1>2, <1>6 DEF Injection, IsInjective
<1>8. \A t \in T : \E e \in P : q[e] = t
  <2> SUFFICES ASSUME NEW t \in T PROVE \E e \in P : q[e] = t
    OBVIOUS
  <2>1. t \in 0..(n - 1) /\ t \in offset..(offset + limit - 1)
    BY <1>1
  <2>2. PICK e \in M : p[e] = t
    BY <1>2, <2>1 DEF Surjection
  <2> QED
    BY <1>3, <2>1, <2>2
<1>9. q \in Surjection(P, T)
  BY <1>7, <1>8 DEF Surjection, Injection
<1>10. IsFiniteSet(T) /\ Cardinality(T) = IF offset > hi THEN 0 ELSE hi - offset + 1
  <2> HIDE DEF hi
  <2> QED
    BY <1>4, FS_Interval
<1> HIDE DEF T, q
<1>11. Cardinality(P) = Cardinality(T)
  BY <1>7, <1>9, <1>10, FS_Injection
<1> QED
  BY <1>1, <1>10, <1>11 DEF M, P, hi

-----------------------------------------------------------------------------
(* The inductive invariant. *)

\* The counter of a branch is never ahead of its rows.
CounterIsBehind == \A b \in Branch : next[b] <= Cardinality(Rows(b))

\* A recorder inside append carries an event.
RecordersCarryEvents == \A r \in Recorder : append[r].pc # "idle" => append[r].event \in NewEvent

\* What a walk that has more pages to read has done so far: what it has to
\* return exists, and whatever of it is behind the offset was returned.  Within
\* one branch, everything it returned is behind the offset.
WalkInv(w) ==
    w.more =>
      /\ w.had \subseteq Ids(Matching(w.scope))
      /\ w.seen \subseteq Ids(events)
      /\ \A e \in Matching(w.scope) :
            e.id \in w.had /\ Position(e, w.scope) < w.offset => e.id \in w.seen
      /\ w.scope # NoId => \A e \in Matching(w.scope) :
            e.id \in w.seen => Position(e, w.scope) < w.offset

JournalInv ==
    /\ TypeOK
    /\ TableInv
    /\ SequencesAreDense
    /\ CounterIsBehind
    /\ RecordersCarryEvents
    /\ \A r \in Reader : WalkInv(walk[r])
    /\ WalksAreFaithful

-----------------------------------------------------------------------------
(* The imported rows. *)

\* Identifiers of different imported rows differ.
LEMMA ImportedIds ==
  ASSUME NEW b \in Nat, NEW c \in Nat, NEW m \in Nat, NEW i \in 0..(m - 1), NEW j \in 0..(m - 1),
         b * m + i = c * m + j
  PROVE  b = c /\ i = j
<1>1. ASSUME NEW x \in Nat, NEW y \in Nat, x < y PROVE y * m >= x * m + m
  <2>1. PICK d \in Nat : y = x + 1 + d
    <3>1. y - x - 1 \in Nat /\ y = x + 1 + (y - x - 1)
      BY <1>1
    <3> QED
      BY <3>1
  <2>2. y * m = x * m + m + d * m
    BY <2>1
  <2>3. d * m \in Nat /\ x * m \in Nat
    OBVIOUS
  <2> QED
    BY <2>2, <2>3
<1>2. b * m \in Nat /\ c * m \in Nat
  OBVIOUS
<1>3. CASE b < c
  <2>1. c * m >= b * m + m
    BY <1>1, <1>3
  <2> QED
    BY <1>2, <2>1
<1>4. CASE c < b
  <2>1. b * m >= c * m + m
    BY <1>1, <1>4
  <2> QED
    BY <1>2, <2>1
<1>5. CASE b = c
  BY <1>2, <1>5
<1> QED
  BY <1>3, <1>4, <1>5

\* An import makes a table with a primary key, whose branches are dense.
LEMMA ImportIsSound ==
  ASSUME NEW count \in [Branch -> 0..MaxImported],
         events = UNION {Imported(b, count[b]) : b \in Branch}
  PROVE  /\ TableInv
         /\ \A b \in Branch : /\ Sequences(b) = 0..(count[b] - 1)
                              /\ Cardinality(Rows(b)) = count[b]
<1> DEFINE small == CHOOSE p \in Payload \ Large : TRUE
           row(b, i) == [id |-> b * MaxImported + i, branch |-> b, sequence |-> i, parent |-> NoId,
                         input |-> None, payload |-> small]
<1>1. small \in Payload
  BY LargeType
<1>2. MaxImported \in Nat /\ Branch \subseteq Nat /\ IsFiniteSet(Branch)
  BY BoundsType, BranchType
<1>3. \A b \in Branch : Imported(b, count[b]) = {row(b, i) : i \in 0..(count[b] - 1)}
  BY DEF Imported
<1> HIDE DEF small
<1>4. \A b \in Branch : count[b] \in Nat /\ count[b] <= MaxImported
  BY <1>2
<1>5. \A b \in Branch, i \in Nat : row(b, i) \in Row
  <2> SUFFICES ASSUME NEW b \in Branch, NEW i \in Nat PROVE row(b, i) \in Row
    OBVIOUS
  <2>1. b * MaxImported + i \in Nat
    BY <1>2
  <2> QED
    BY <1>1, <2>1 DEF Row, NoId
<1>6. \A b \in Branch, i \in Nat : row(b, i).branch = b /\ row(b, i).sequence = i
                                   /\ row(b, i).id = b * MaxImported + i
  OBVIOUS
<1>7. \A e \in events : \E b \in Branch : \E i \in 0..(count[b] - 1) : e = row(b, i)
  BY <1>3
<1>8. \A b \in Branch : \A i \in 0..(count[b] - 1) : row(b, i) \in events
  BY <1>3
<1> HIDE DEF row
<1>9. \A b \in Branch : Rows(b) = {row(b, i) : i \in 0..(count[b] - 1)}
  <2> SUFFICES ASSUME NEW b \in Branch PROVE Rows(b) = {row(b, i) : i \in 0..(count[b] - 1)}
    OBVIOUS
  <2>1. ASSUME NEW e \in Rows(b) PROVE e \in {row(b, i) : i \in 0..(count[b] - 1)}
    <3>1. PICK c \in Branch : \E i \in 0..(count[c] - 1) : e = row(c, i)
      BY <1>7 DEF Rows
    <3>2. PICK i \in 0..(count[c] - 1) : e = row(c, i)
      BY <3>1
    <3>3. c = b
      BY <1>4, <1>6, <3>2 DEF Rows
    <3> QED
      BY <3>2, <3>3
  <2>2. ASSUME NEW i \in 0..(count[b] - 1) PROVE row(b, i) \in Rows(b)
    BY <1>4, <1>6, <1>8 DEF Rows
  <2> QED
    BY <2>1, <2>2
<1>10. \A b \in Branch : IsFiniteSet(Imported(b, count[b])) /\ Cardinality(Rows(b)) = count[b]
  <2> SUFFICES ASSUME NEW b \in Branch
               PROVE  IsFiniteSet(Rows(b)) /\ Cardinality(Rows(b)) = count[b]
    BY <1>3, <1>9 DEF row
  <2> DEFINE D == 0..(count[b] - 1)
             f == [i \in D |-> row(b, i)]
  <2>1. IsFiniteSet(D) /\ Cardinality(D) = count[b]
    <3>1. count[b] \in Nat /\ count[b] - 1 \in Int
      BY <1>4
    <3> QED
      BY <3>1, FS_Interval
  <2>2. \A i, j \in D : row(b, i) = row(b, j) => i = j
    BY <1>6
  <2>3. f \in Surjection(D, Rows(b))
    BY <1>9 DEF Surjection
  <2>4. f \in Injection(D, Rows(b))
    BY <2>2, <2>3 DEF Injection, Surjection, IsInjective
  <2> QED
    BY <2>1, <2>3, <2>4, FS_Surjection
<1>11. \A b \in Branch : Sequences(b) = 0..(count[b] - 1)
  BY <1>6, <1>9 DEF Sequences
<1>12. IsFiniteSet(events)
  <2> DEFINE All == {Imported(b, count[b]) : b \in Branch}
             g == [b \in Branch |-> Imported(b, count[b])]
  <2>1. g \in Surjection(Branch, All)
    BY DEF Surjection
  <2>2. IsFiniteSet(All)
    BY <1>2, <2>1, FS_Surjection
  <2> QED
    BY <1>10, <2>2, FS_UNION
<1>13. events \subseteq Row
  BY <1>4, <1>5, <1>7
<1>14. ASSUME NEW e \in events, NEW f \in events, e.id = f.id PROVE e = f
  <2>1a. PICK b \in Branch : \E i \in 0..(count[b] - 1) : e = row(b, i)
    BY <1>7
  <2>1. PICK i \in 0..(count[b] - 1) : e = row(b, i)
    BY <2>1a
  <2>2a. PICK c \in Branch : \E j \in 0..(count[c] - 1) : f = row(c, j)
    BY <1>7
  <2>2. PICK j \in 0..(count[c] - 1) : f = row(c, j)
    BY <2>2a
  <2>3. i \in 0..(MaxImported - 1) /\ j \in 0..(MaxImported - 1)
    BY <1>2, <1>4
  <2>4. b * MaxImported + i = c * MaxImported + j
    BY <1>6, <1>14, <2>1, <2>2, <2>3
  <2>5. b = c /\ i = j
    BY <1>2, <2>3, <2>4, ImportedIds
  <2> QED
    BY <2>1, <2>2, <2>5
<1> QED
  BY <1>10, <1>11, <1>12, <1>13, <1>14 DEF TableInv

\* The invariant holds after any import.
LEMMA JournalInit == Init => JournalInv
<1> SUFFICES ASSUME Init PROVE JournalInv
  OBVIOUS
<1>1. PICK count \in [Branch -> 0..MaxImported] :
        /\ events = UNION {Imported(b, count[b]) : b \in Branch}
        /\ next \in [Branch -> 0..MaxImported]
        /\ \A b \in Branch : next[b] <= count[b]
  BY DEF Init
<1>2. /\ TableInv
      /\ \A b \in Branch : Sequences(b) = 0..(count[b] - 1) /\ Cardinality(Rows(b)) = count[b]
  BY <1>1, ImportIsSound
<1>3. SequencesAreDense /\ CounterIsBehind
  BY <1>1, <1>2 DEF SequencesAreDense, CounterIsBehind
<1>4. RecordersCarryEvents /\ WalksAreFaithful /\ \A r \in Reader : WalkInv(walk[r])
  BY DEF Init, RecordersCarryEvents, WalksAreFaithful, WalkInv, NoWalk
<1>5. TypeOK
  <2>1. NoWalk \in Walk
    BY DEF NoWalk, Walk
  <2>2. next \in [Branch -> Nat]
    BY <1>1, BoundsType
  <2> QED
    BY <1>2, <2>1, <2>2 DEF Init, TypeOK, TableInv
<1> QED
  BY <1>2, <1>3, <1>4, <1>5 DEF JournalInv

-----------------------------------------------------------------------------
(* Appending. *)

\* A step that leaves table, counters and walks alone only has to keep the
\* types and the recorders' events.
LEMMA TableUntouched ==
  ASSUME JournalInv, UNCHANGED <<events, next, walk>>, TypeOK', RecordersCarryEvents'
  PROVE  JournalInv'
<1>1. TableInv' /\ SequencesAreDense' /\ CounterIsBehind' /\ WalksAreFaithful'
  BY DEF JournalInv, TableInv, SequencesAreDense, CounterIsBehind, WalksAreFaithful, Sequences, Rows
<1>2. \A r \in Reader : WalkInv(walk[r])'
  BY DEF JournalInv, WalkInv, Matching, Position, Ids
<1> QED
  BY <1>1, <1>2 DEF JournalInv

\* allocate_sequence takes the number of rows of the branch, whatever the
\* counter says.
LEMMA AllocatedIsNext ==
  ASSUME JournalInv, NEW b \in Branch
  PROVE  /\ Cardinality(Rows(b)) \in Nat
         /\ Allocated(b) = Cardinality(Rows(b))
<1> DEFINE n == Cardinality(Rows(b))
<1>1. IsFiniteSet(Rows(b)) /\ n \in Nat
  BY FS_Subset, FS_CardinalityType DEF JournalInv, TableInv, Rows
<1>2. Sequences(b) = 0..(n - 1)
  BY DEF JournalInv, SequencesAreDense
<1>3. next[b] \in Nat /\ next[b] <= n
  BY DEF JournalInv, TypeOK, CounterIsBehind
<1>4. FirstFree(b) = n
  <2>1. CASE Rows(b) = {}
    BY <2>1, FS_EmptySet DEF FirstFree
  <2>2. CASE Rows(b) # {}
    <3>1. n # 0
      BY <1>1, <2>2, FS_EmptySet
    <3> HIDE DEF n
    <3>2. n - 1 \in Sequences(b) /\ \A y \in Sequences(b) : n - 1 >= y
      BY <1>1, <1>2, <3>1
    <3>3. Sequences(b) \in SUBSET Nat
      BY <1>1, <1>2
    <3>4. Max(Sequences(b)) = n - 1
      BY <3>2, <3>3, MaxIs
    <3> QED
      BY <1>1, <2>2, <3>4 DEF FirstFree
  <2> QED
    BY <2>1, <2>2
<1> HIDE DEF n
<1>5. Max({next[b], n}) = n
  BY <1>1, <1>3, MaxIs
<1> QED
  BY <1>1, <1>4, <1>5 DEF Allocated, n

\* EventId::new is an identifier no row has.
LEMMA FreshIdIsFresh ==
  ASSUME JournalInv
  PROVE  FreshId \in Nat /\ \A e \in events : e.id < FreshId
<1> DEFINE S == {0} \cup Ids(events)
<1>1. S \in SUBSET Nat /\ S # {}
  BY DEF JournalInv, TableInv, Row, Ids
<1>2. IsFiniteSet(S)
  <2>1. IsFiniteSet(Ids(events)) /\ IsFiniteSet({0})
    BY IdsFinite, FS_Singleton DEF JournalInv, TableInv
  <2> QED
    BY <2>1, FS_Union
<1>3. Max(S) \in S /\ \A y \in S : Max(S) >= y
  <2> HIDE DEF S
  <2> QED
    BY <1>1, <1>2, MaxIsLargest
<1>4. FreshId = Max(S) + 1
  BY DEF FreshId, Ids
<1>5. \A e \in events : e.id \in S
  BY DEF Ids
<1> HIDE DEF S
<1>6. PICK m \in Nat : m = Max(S)
  BY <1>1, <1>3
<1>7. \A y \in S : y \in Nat /\ y < m + 1
  BY <1>1, <1>3, <1>6
<1> QED
  BY <1>4, <1>5, <1>6, <1>7

\* A row that is added after every row of its branch, under a new identifier,
\* moves no row of a query to a smaller position, and none at all of a query
\* over one branch.
LEMMA PositionsOnlyGrow ==
  ASSUME TableInv, TableInv', NEW new, events' = events \cup {new},
         \A e \in events : e.branch = new.branch => e.sequence < new.sequence,
         NEW scope \in Nat, NEW e \in Matching(scope)
  PROVE  /\ Position(e, scope) <= Position(e, scope)'
         /\ scope # NoId => Position(e, scope)' = Position(e, scope)
<1> DEFINE A == {f \in Matching(scope) : Before(f, e)}
           B == {f \in Matching(scope)' : Before(f, e)}
<1>1. Matching(scope) \subseteq Matching(scope)' /\ Matching(scope)' \subseteq Matching(scope) \cup {new}
  BY DEF Matching
<1>2. IsFiniteSet(B)
  <2>1. IsFiniteSet(Matching(scope)')
    BY FS_Subset DEF TableInv, Matching
  <2> QED
    BY <2>1, FS_Subset
<1>3. A \subseteq B
  BY <1>1
<1>4. Position(e, scope) = Cardinality(A) /\ Position(e, scope)' = Cardinality(B)
  BY DEF Position, Before
<1>5. scope # NoId => A = B
  <2> SUFFICES ASSUME scope # NoId, new \in Matching(scope)' PROVE ~Before(new, e)
    BY <1>1
  <2>1. new.branch = scope /\ e.branch = scope /\ e \in events
    BY DEF Matching
  <2>2. e.sequence < new.sequence
    BY <2>1
  <2>3. e \in Row /\ new \in Row
    BY <2>1 DEF TableInv
  <2>4. e.sequence \in Nat /\ new.sequence \in Nat
    BY <2>3 DEF Row
  <2> QED
    BY <2>1, <2>2, <2>4 DEF Before
<1> HIDE DEF A, B
<1> QED
  BY <1>2, <1>3, <1>4, <1>5, FS_Subset

\* The transaction of append preserves the invariant.
LEMMA RecordInv ==
  ASSUME JournalInv, NEW r \in Recorder, Record(r)
  PROVE  JournalInv'
<1>0. PICK event \in NewEvent : event = append[r].event
  BY DEF Record, At, JournalInv, RecordersCarryEvents
<1>1. PICK b \in Branch : b = event.branch
  BY DEF NewEvent
<1>2. PICK n \in Nat : n = Cardinality(Rows(b)) /\ Allocated(b) = n
  BY AllocatedIsNext
<1>3. PICK id \in Nat : id = FreshId /\ \A e \in events : e.id < id
  BY FreshIdIsFresh
<1> DEFINE new == [id |-> id, branch |-> b, sequence |-> n,
                   parent |-> event.parent, input |-> event.input, payload |-> event.payload]
<1>4. /\ events' = events \cup {new}
      /\ next' = [next EXCEPT ![b] = n + 1]
      /\ blobs' = blobs \cup ({event.payload} \cap Large)
      /\ append' = [append EXCEPT ![r] = [pc |-> "idle", event |-> NoEvent]]
      /\ UNCHANGED <<stored, walk>>
  BY <1>0, <1>1, <1>2, <1>3 DEF Record, Return
<1>5. new \in Row
  BY DEF Row, NewEvent
<1>6. /\ new.id = id /\ new.branch = b /\ new.sequence = n
      /\ new \notin events
  BY <1>3 DEF JournalInv, TableInv, Row
<1>7. event.payload \in Payload
  BY DEF NewEvent
<1> HIDE DEF new
<1>8. TableInv'
  <2>1. IsFiniteSet(events')
    BY <1>4, FS_AddElement DEF JournalInv, TableInv
  <2>2. \A e, f \in events' : e.id = f.id => e = f
    <3>1. \A e \in events : e.id # new.id
      BY <1>3, <1>6 DEF JournalInv, TableInv, Row
    <3> QED
      BY <1>4, <3>1 DEF JournalInv, TableInv
  <2> QED
    BY <1>4, <1>5, <2>1, <2>2 DEF JournalInv, TableInv
<1>9. TypeOK'
  <2>1. next' \in [Branch -> Nat]
    BY <1>1, <1>2, <1>4 DEF JournalInv, TypeOK
  <2>2. blobs' \subseteq Payload
    BY <1>4, <1>7 DEF JournalInv, TypeOK
  <2>3. append' \in [Recorder -> [pc : {"idle", "verify", "prepare", "transaction"},
                                  event : NewEvent \cup {NoEvent}]]
    BY <1>4 DEF JournalInv, TypeOK
  <2> QED
    BY <1>4, <1>8, <2>1, <2>2, <2>3 DEF JournalInv, TypeOK, TableInv
<1>10. Rows(b)' = Rows(b) \cup {new} /\ \A c \in Branch : c # b => Rows(c)' = Rows(c)
  BY <1>4, <1>6 DEF Rows
<1>11. Cardinality(Rows(b)') = n + 1
  <2>1. IsFiniteSet(Rows(b))
    BY FS_Subset DEF JournalInv, TableInv, Rows
  <2>2. new \notin Rows(b)
    BY <1>6 DEF Rows
  <2>3. Cardinality(Rows(b) \cup {new}) = Cardinality(Rows(b)) + 1
    BY <2>1, <2>2, FS_AddElement
  <2>4. Rows(b)' = Rows(b) \cup {new}
    BY <1>10
  <2> QED
    BY <1>2, <2>3, <2>4
<1>12. Sequences(b) = 0..(n - 1)
  BY <1>2 DEF JournalInv, SequencesAreDense
<1>13. SequencesAreDense'
  <2>1. Sequences(b)' = Sequences(b) \cup {n}
    BY <1>6, <1>10 DEF Sequences
  <2>2. Sequences(b)' = 0..n
    BY <1>2, <1>12, <2>1
  <2>3. \A c \in Branch : c # b => Sequences(c)' = Sequences(c)
    BY <1>10 DEF Sequences
  <2>4. Sequences(b)' = 0..(Cardinality(Rows(b)') - 1)
    <3>1. (n + 1) - 1 = n
      OBVIOUS
    <3> QED
      BY <1>11, <2>2, <3>1
  <2>5. \A c \in Branch : c # b => Sequences(c)' = 0..(Cardinality(Rows(c)') - 1)
    BY <1>10, <2>3 DEF JournalInv, SequencesAreDense
  <2> QED
    BY <2>4, <2>5 DEF SequencesAreDense
<1>14. CounterIsBehind'
  <2>1. next'[b] = n + 1 /\ \A c \in Branch : c # b => next'[c] = next[c]
    BY <1>4 DEF JournalInv, TypeOK
  <2>2. next'[b] <= Cardinality(Rows(b)')
    BY <1>11, <2>1
  <2>3. \A c \in Branch : c # b => next'[c] <= Cardinality(Rows(c)')
    BY <1>10, <2>1 DEF JournalInv, CounterIsBehind
  <2> QED
    BY <2>2, <2>3 DEF CounterIsBehind
<1>15. RecordersCarryEvents'
  BY <1>4 DEF JournalInv, RecordersCarryEvents, TypeOK
<1>16. \A e \in events : e.branch = new.branch => e.sequence < new.sequence
  <2> SUFFICES ASSUME NEW e \in events, e.branch = b PROVE e.sequence < n
    BY <1>6
  <2>1. e.sequence \in 0..(n - 1)
    BY <1>12 DEF Sequences, Rows
  <2> QED
    BY <1>2, <2>1
<1>17. ASSUME NEW q \in Reader PROVE WalkInv(walk[q])'
  <2>0. PICK w \in Walk : w = walk[q]
    BY DEF JournalInv, TypeOK
  <2> SUFFICES ASSUME w.more PROVE WalkInv(w)'
    BY <1>4, <2>0 DEF WalkInv
  <2>1. w.scope \in Nat /\ w.offset \in Nat
    <3>1. w.scope \in Branch \cup {NoId} /\ w.offset \in Nat
      BY DEF Walk
    <3>2. Branch \subseteq Nat
      BY BranchType
    <3>3. NoId \in Nat
      BY DEF NoId
    <3> QED
      BY <3>1, <3>2, <3>3
  <2>2. /\ w.had \subseteq Ids(Matching(w.scope))
        /\ w.seen \subseteq Ids(events)
        /\ \A e \in Matching(w.scope) :
              e.id \in w.had /\ Position(e, w.scope) < w.offset => e.id \in w.seen
        /\ w.scope # NoId => \A e \in Matching(w.scope) :
              e.id \in w.seen => Position(e, w.scope) < w.offset
    BY <2>0 DEF JournalInv, WalkInv
  <2>3. Matching(w.scope) \subseteq Matching(w.scope)' /\ Matching(w.scope)' \subseteq Matching(w.scope) \cup {new}
    BY <1>4 DEF Matching
  <2>4. new.id \notin Ids(events) /\ new.id \notin Ids(Matching(w.scope))
    BY <1>3, <1>6 DEF Ids, Matching, JournalInv, TableInv, Row
  <2>5. \A e \in Matching(w.scope) :
          /\ Position(e, w.scope) \in Nat /\ Position(e, w.scope)' \in Nat
          /\ Position(e, w.scope) <= Position(e, w.scope)'
          /\ w.scope # NoId => Position(e, w.scope)' = Position(e, w.scope)
    <3> SUFFICES ASSUME NEW e \in Matching(w.scope)
                 PROVE  /\ Position(e, w.scope) \in Nat /\ Position(e, w.scope)' \in Nat
                        /\ Position(e, w.scope) <= Position(e, w.scope)'
                        /\ w.scope # NoId => Position(e, w.scope)' = Position(e, w.scope)
      OBVIOUS
    <3>1. TableInv
      BY DEF JournalInv
    <3>2. Position(e, w.scope) \in Nat
      BY <3>1, MatchingFinite
    <3>3. Position(e, w.scope)' \in Nat
      <4>1. IsFiniteSet(Matching(w.scope)')
        BY <1>8, FS_Subset DEF TableInv, Matching
      <4> QED
        BY <4>1, FS_Subset, FS_CardinalityType DEF Position
    <3> QED
      BY <1>4, <1>8, <1>16, <2>1, <3>1, <3>2, <3>3, PositionsOnlyGrow
  <2>6. w.had \subseteq Ids(Matching(w.scope)') /\ w.seen \subseteq Ids(events')
    BY <1>4, <2>2, <2>3 DEF Ids
  <2>7. \A e \in Matching(w.scope)' :
          e.id \in w.had /\ Position(e, w.scope)' < w.offset => e.id \in w.seen
    BY <2>1, <2>2, <2>3, <2>4, <2>5
  <2>8. w.scope # NoId => \A e \in Matching(w.scope)' :
          e.id \in w.seen => Position(e, w.scope)' < w.offset
    BY <2>1, <2>2, <2>3, <2>4, <2>5
  <2> QED
    BY <2>6, <2>7, <2>8 DEF WalkInv, Ids
<1>18. WalksAreFaithful'
  BY <1>4 DEF JournalInv, WalksAreFaithful
<1> QED
  BY <1>8, <1>9, <1>13, <1>14, <1>15, <1>17, <1>18 DEF JournalInv

-----------------------------------------------------------------------------
(* Reading. *)

\* What a walk must satisfy to be given its next page: WalkInv, whether or not
\* it has been told that there is more.
Underway(w) == WalkInv([w EXCEPT !.more = TRUE])

\* A page turned keeps the reader's promises: no row is repeated within a
\* branch, and at the end none is missing.
LEMMA TurnedIsFaithful ==
  ASSUME TableInv, NEW w \in Walk, Underway(w), ~w.repeated, ~w.missed
  PROVE  LET fetched == Page(w.scope, w.offset, Limit + 1)
             page == Page(w.scope, w.offset, Limit)
             u == Turned(w, page, Cardinality(fetched) > Limit, w.offset + Cardinality(page))
         IN  u \in Walk /\ WalkInv(u) /\ ~u.missed /\ ~u.repeated
<1> DEFINE fetched == Page(w.scope, w.offset, Limit + 1)
           page == Page(w.scope, w.offset, Limit)
           M == Matching(w.scope)
           n == Cardinality(M)
           more == Cardinality(fetched) > Limit
           seen == w.seen \cup Ids(page)
           u == Turned(w, page, more, w.offset + Cardinality(page))
<1>1. /\ w.had \subseteq Ids(M) /\ w.seen \subseteq Ids(events)
      /\ \A e \in M : e.id \in w.had /\ Position(e, w.scope) < w.offset => e.id \in w.seen
      /\ w.scope # NoId => \A e \in M : e.id \in w.seen => Position(e, w.scope) < w.offset
  BY DEF Underway, WalkInv, Walk
<1>2. w.offset \in Nat /\ Limit \in Nat /\ Limit # 0 /\ Limit + 1 \in Nat /\ Limit + 1 # 0
  BY LimitType DEF Walk
<1>3. /\ n \in Nat
      /\ n >= w.offset + Limit => Cardinality(page) = Limit
      /\ n < w.offset + Limit => Cardinality(page) = IF n >= w.offset THEN n - w.offset ELSE 0
  BY <1>2, PageSize
<1>4. /\ n >= w.offset + (Limit + 1) => Cardinality(fetched) = Limit + 1
      /\ n < w.offset + (Limit + 1) =>
            Cardinality(fetched) = IF n >= w.offset THEN n - w.offset ELSE 0
  BY <1>2, PageSize
<1>5. \A e \in M : Position(e, w.scope) \in 0..(n - 1)
  BY PositionBijection DEF Bijection, Injection
<1>6. page = {e \in M : Position(e, w.scope) \in w.offset..(w.offset + Limit - 1)}
  BY DEF Page
<1>7. \A e, f \in M : e.id = f.id => e = f
  BY DEF TableInv, Matching
<1>8. M \subseteq events /\ Ids(events) \subseteq Nat
  BY DEF Matching, TableInv, Ids, Row
<1> HIDE DEF M, page, fetched, n
<1>9. w.scope # NoId => w.seen \cap Ids(page) = {}
  <2> SUFFICES ASSUME w.scope # NoId, NEW e \in page, e.id \in w.seen PROVE FALSE
    BY DEF Ids
  <2>1. e \in M /\ Position(e, w.scope) >= w.offset
    BY <1>2, <1>6
  <2> QED
    BY <1>1, <1>2, <1>3, <1>5, <2>1
<1>10. CASE more
  <2>1. n >= w.offset + Limit /\ Cardinality(page) = Limit
    BY <1>2, <1>3, <1>4, <1>10
  <2>2. u = [w EXCEPT !.offset = w.offset + Limit, !.seen = seen, !.repeated = FALSE, !.more = TRUE]
    BY <1>9, <1>10, <2>1 DEF Turned, Walk
  <2> HIDE DEF u
  <2>3. /\ u.offset = w.offset + Limit /\ u.seen = seen /\ u.repeated = FALSE /\ u.missed = w.missed
        /\ u.scope = w.scope /\ u.had = w.had
    BY <2>2 DEF Walk
  <2>4. seen \subseteq Ids(events)
    BY <1>1, <1>6, <1>8 DEF Ids
  <2>5. w.offset + Limit \in Nat /\ seen \subseteq Nat
    BY <1>2, <1>8, <2>4
  <2>6. u \in Walk
    <3> HIDE DEF seen
    <3> QED
      BY <2>2, <2>5 DEF Walk
  <2>7. \A e \in M : e.id \in w.had /\ Position(e, w.scope) < w.offset + Limit => e.id \in seen
    <3> SUFFICES ASSUME NEW e \in M, e.id \in w.had, Position(e, w.scope) < w.offset + Limit
                 PROVE  e.id \in seen
      OBVIOUS
    <3>1. CASE Position(e, w.scope) < w.offset
      BY <1>1, <3>1
    <3>2. CASE Position(e, w.scope) >= w.offset
      <4>1. e \in page
        BY <1>2, <1>3, <1>5, <1>6, <3>2
      <4> QED
        BY <4>1 DEF Ids
    <3> QED
      BY <1>2, <1>3, <1>5, <3>1, <3>2
  <2>8. w.scope # NoId => \A e \in M : e.id \in seen => Position(e, w.scope) < w.offset + Limit
    <3> SUFFICES ASSUME w.scope # NoId, NEW e \in M, e.id \in seen
                 PROVE  Position(e, w.scope) < w.offset + Limit
      OBVIOUS
    <3>1. CASE e.id \in w.seen
      BY <1>1, <1>2, <1>3, <1>5, <3>1
    <3>2. CASE e.id \in Ids(page)
      <4>1. e \in page
        BY <1>6, <1>7, <3>2 DEF Ids
      <4> QED
        BY <1>2, <1>6, <4>1
    <3> QED
      BY <3>1, <3>2
  <2>9. WalkInv(u)
    <3> HIDE DEF seen
    <3> QED
      BY <1>1, <2>3, <2>4, <2>7, <2>8 DEF WalkInv, M
  <2> QED
    BY <2>3, <2>6, <2>9 DEF u, page, fetched
<1>11. CASE ~more
  <2>1. n <= w.offset + Limit
    BY <1>2, <1>3, <1>4, <1>11
  <2>2. \A e \in M : e \in page \/ Position(e, w.scope) < w.offset
    BY <1>2, <1>3, <1>5, <1>6, <2>1
  <2>3. w.had \subseteq seen
    <3> SUFFICES ASSUME NEW e \in M, e.id \in w.had PROVE e.id \in seen
      BY <1>1 DEF Ids
    <3> QED
      BY <1>1, <2>2 DEF Ids
  <2>4. u = [NoWalk EXCEPT !.repeated = FALSE, !.missed = FALSE]
    <3>1. w.repeated = FALSE
      BY DEF Walk
    <3> QED
      BY <1>9, <1>11, <2>3, <3>1 DEF Turned
  <2>5. u = NoWalk
    BY <2>4 DEF NoWalk
  <2>6. NoWalk \in Walk /\ WalkInv(NoWalk) /\ ~NoWalk.missed /\ ~NoWalk.repeated
    BY DEF NoWalk, Walk, WalkInv
  <2> HIDE DEF u
  <2> QED
    BY <2>5, <2>6 DEF u, page, fetched
<1> QED
  BY <1>10, <1>11

\* Fetching a page preserves the invariant.
LEMMA FetchInv ==
  ASSUME JournalInv, NEW r \in Reader, NEW w \in Walk, Underway(w), ~w.repeated, ~w.missed,
         Fetch(r, w), UNCHANGED <<events, next, stored, blobs, append>>
  PROVE  JournalInv'
<1> DEFINE fetched == Page(w.scope, w.offset, Limit + 1)
           page == Page(w.scope, w.offset, Limit)
<1>1. PICK u \in Walk : /\ walk' = [walk EXCEPT ![r] = u]
                        /\ WalkInv(u) /\ ~u.missed /\ ~u.repeated
  <2>1. walk' = [walk EXCEPT ![r] = Turned(w, page, Cardinality(fetched) > Limit,
                                           w.offset + Cardinality(page))]
    BY DEF Fetch
  <2> QED
    BY <2>1, TurnedIsFaithful DEF JournalInv
<1>2. walk'[r] = u /\ \A q \in Reader : q # r => walk'[q] = walk[q]
  BY <1>1 DEF JournalInv, TypeOK
<1>3. TypeOK'
  BY <1>1 DEF JournalInv, TypeOK
<1>4. TableInv' /\ SequencesAreDense' /\ CounterIsBehind' /\ RecordersCarryEvents'
  BY DEF JournalInv, TableInv, SequencesAreDense, CounterIsBehind, RecordersCarryEvents, Sequences, Rows
<1>5. ASSUME NEW q \in Reader PROVE WalkInv(walk[q])'
  <2>1. PICK v : v = walk'[q] /\ WalkInv(v)
    BY <1>1, <1>2 DEF JournalInv
  <2>2. WalkInv(v)'
    BY <2>1 DEF WalkInv, Matching, Position, Ids
  <2> QED
    BY <2>1, <2>2 DEF WalkInv
<1>6. WalksAreFaithful'
  BY <1>1, <1>2 DEF JournalInv, WalksAreFaithful
<1> QED
  BY <1>3, <1>4, <1>5, <1>6 DEF JournalInv

\* So do the first page of a walk and the following ones.
LEMMA ReaderInv ==
  ASSUME JournalInv, NEW r \in Reader,
         (\E scope \in Branch \cup {NoId} : FirstPage(r, scope)) \/ NextPage(r)
  PROVE  JournalInv'
<1>1. ASSUME NEW scope \in Branch \cup {NoId}, FirstPage(r, scope) PROVE JournalInv'
  <2>1. PICK had \in SUBSET Nat : had = Ids(Matching(scope))
    BY DEF JournalInv, TableInv, Ids, Matching, Row
  <2> DEFINE w == [NoWalk EXCEPT !.scope = scope, !.had = had]
  <2>2. /\ w.scope = scope /\ w.had = had /\ w.seen = {} /\ w.offset = 0
        /\ w.repeated = FALSE /\ w.missed = FALSE
    BY DEF NoWalk
  <2>3. w \in Walk
    BY DEF NoWalk, Walk
  <2>4. Fetch(r, w) /\ UNCHANGED <<events, next, stored, blobs, append>>
    BY <1>1, <2>1 DEF FirstPage
  <2> HIDE DEF w
  <2>5. Underway(w)
    <3>1. \A e : Position(e, scope) \in Nat
      BY MatchingFinite DEF JournalInv
    <3>2. \A e : ~(Position(e, scope) < 0)
      BY <3>1
    <3> QED
      BY <2>1, <2>2, <2>3, <3>2 DEF Underway, WalkInv, Walk
  <2> QED
    BY <2>2, <2>3, <2>4, <2>5, FetchInv
<1>2. CASE NextPage(r)
  <2>1. PICK w \in Walk : w = walk[r]
    BY DEF JournalInv, TypeOK
  <2>2. w.more /\ Fetch(r, w) /\ UNCHANGED <<events, next, stored, blobs, append>>
    BY <1>2, <2>1 DEF NextPage
  <2>3. ~w.repeated /\ ~w.missed /\ WalkInv(w)
    BY <2>1 DEF JournalInv, WalksAreFaithful
  <2>4. [w EXCEPT !.more = TRUE] = w
    BY <2>2 DEF Walk
  <2> QED
    BY <2>2, <2>3, <2>4, FetchInv DEF Underway
<1> QED
  BY <1>1, <1>2

-----------------------------------------------------------------------------
(* Every step. *)

\* The steps of a recorder before its transaction, and those that give up.
LEMMA RecorderInv ==
  ASSUME JournalInv, NEW r \in Recorder,
         \/ \E event \in Requests : Append(r, event)
         \/ VerifyBlobs(r) \/ PreparePayload(r) \/ Record(r) \/ Abandon(r)
  PROVE  JournalInv'
<1> DEFINE Caller == [pc : {"idle", "verify", "prepare", "transaction"}, event : NewEvent \cup {NoEvent}]
<1>0. append \in [Recorder -> Caller]
  BY DEF JournalInv, TypeOK
<1>1. ASSUME NEW event \in Requests, Append(r, event) PROVE JournalInv'
  <2>1. event \in NewEvent
    BY LargeType DEF Requests, NewEvent, JournalInv, TableInv, Ids, Row, NoId
  <2>2. TypeOK'
    BY <1>1, <2>1 DEF JournalInv, TypeOK, Append
  <2>3. RecordersCarryEvents'
    BY <1>0, <1>1, <2>1 DEF JournalInv, RecordersCarryEvents, Append
  <2> QED
    BY <1>1, <2>2, <2>3, TableUntouched DEF Append
<1>2. ASSUME NEW pc \in {"verify", "prepare", "transaction"}, Goto(r, pc), append[r].pc # "idle"
      PROVE  append' \in [Recorder -> Caller] /\ RecordersCarryEvents'
  <2> DEFINE c == [append[r] EXCEPT !.pc = pc]
  <2>1. append' = [append EXCEPT ![r] = c]
    BY <1>2 DEF Goto
  <2>2. c \in Caller /\ c.event = append[r].event
    BY <1>0
  <2>3. append[r].event \in NewEvent
    BY <1>2 DEF JournalInv, RecordersCarryEvents
  <2> HIDE DEF c, Caller
  <2> QED
    BY <1>0, <2>1, <2>2, <2>3 DEF JournalInv, RecordersCarryEvents
<1>3. ASSUME Return(r) PROVE append' \in [Recorder -> Caller] /\ RecordersCarryEvents'
  BY <1>0, <1>3 DEF Return, JournalInv, RecordersCarryEvents
<1>4. CASE VerifyBlobs(r)
  <2>1. append' \in [Recorder -> Caller] /\ RecordersCarryEvents'
    BY <1>2, <1>3, <1>4 DEF VerifyBlobs, At
  <2>2. TypeOK'
    BY <1>4, <2>1 DEF VerifyBlobs, JournalInv, TypeOK
  <2> QED
    BY <1>4, <2>1, <2>2, TableUntouched DEF VerifyBlobs
<1>5. CASE PreparePayload(r)
  <2>1. append' \in [Recorder -> Caller] /\ RecordersCarryEvents'
    BY <1>2, <1>5 DEF PreparePayload, At
  <2>2. TypeOK'
    BY <1>5, <2>1, LargeType DEF PreparePayload, JournalInv, TypeOK
  <2> QED
    BY <1>5, <2>1, <2>2, TableUntouched DEF PreparePayload
<1>6. CASE Record(r)
  BY <1>6, RecordInv
<1>7. CASE Abandon(r)
  <2>1. append' \in [Recorder -> Caller] /\ RecordersCarryEvents'
    BY <1>3, <1>7 DEF Abandon
  <2>2. TypeOK'
    BY <1>7, <2>1 DEF Abandon, JournalInv, TypeOK
  <2> QED
    BY <1>7, <2>1, <2>2, TableUntouched DEF Abandon
<1> QED
  BY <1>1, <1>4, <1>5, <1>6, <1>7

\* The invariant is inductive.
LEMMA JournalStep == JournalInv /\ [Next]_vars => JournalInv'
<1> SUFFICES ASSUME JournalInv, [Next]_vars PROVE JournalInv'
  OBVIOUS
<1>1. ASSUME NEW p \in Payload, RegisterBlob(p) PROVE JournalInv'
  <2>1. TypeOK' /\ RecordersCarryEvents'
    BY <1>1 DEF RegisterBlob, JournalInv, TypeOK, RecordersCarryEvents
  <2> QED
    BY <1>1, <2>1, TableUntouched DEF RegisterBlob
<1>2. CASE UNCHANGED vars
  <2>1. TypeOK' /\ RecordersCarryEvents' /\ UNCHANGED <<events, next, walk>>
    BY <1>2 DEF vars, JournalInv, TypeOK, RecordersCarryEvents
  <2> QED
    BY <2>1, TableUntouched
<1> QED
  BY <1>1, <1>2, RecorderInv, ReaderInv DEF Next

\* Every reachable state satisfies the invariant.
LEMMA JournalAlways == Spec => []JournalInv
<1> QED
  BY JournalInit, JournalStep, PTL DEF Spec

\* The journal, its counters, its callers and its readers are well typed.
THEOREM TypeCorrect == Spec => []TypeOK
<1>1. JournalInv => TypeOK
  BY DEF JournalInv
<1> QED
  BY <1>1, JournalAlways, PTL

\* EventJournal::append gives the events of a branch the sequences 0, 1, 2, ...
\* without gap or duplicate, for any number of concurrent recorders, whatever
\* transactions roll back and however stale an imported counter is.
THEOREM SequencesStayDense == Spec => []SequencesAreDense
<1>1. JournalInv => SequencesAreDense
  BY DEF JournalInv
<1> QED
  BY <1>1, JournalAlways, PTL

\* A reader that follows next_offset misses no event that was there when it
\* began, for every page size, while any number of recorders append to any
\* branch; within one branch it is given none twice.
THEOREM WalksStayFaithful == Spec => []WalksAreFaithful
<1>1. JournalInv => WalksAreFaithful
  BY DEF JournalInv
<1> QED
  BY <1>1, JournalAlways, PTL
=============================================================================
