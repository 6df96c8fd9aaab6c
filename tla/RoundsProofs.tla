----------------------------- MODULE RoundsProofs -----------------------------
(***************************************************************************)
(* What the convergence report may conclude from a log that anyone may     *)
(* have lost lines of, for any files, contents, rounds and faults.         *)
(*                                                                         *)
(* The report compares a record with the one before it, so what has to be  *)
(* known of a record is what the task was at when it was written           *)
(* (Truthful), where it stands among the records (Ordered), what its       *)
(* sequence number counts (Counted), and where the reviewer's calls stand  *)
(* between them (CallsPlaced).  That an automatic fix gives the next round *)
(* another number than the one before it (Numbered) is what makes the      *)
(* calls tell of a lost record.                                            *)
(***************************************************************************)
EXTENDS Rounds, FiniteSetTheorems, TLAPS

Trees == {t \in [Paths -> Contents \cup {Same, Deleted}] : \A p \in Paths : t[p] \in MayHold(p)}
Listings == UNION {[S -> Contents \cup {Same, Deleted}] : S \in SUBSET Paths}
Items ==
  [kind : {"bad"}] \cup [kind : {"reviewer"}, number : Nat]
  \cup [kind : {"record"}, seq : Nat \ {0}, id : Nat \ {0}, number : Nat,
        snapshot : Trees \cup {Unseen}, paths : Listings, error : BOOLEAN]
Boundaries == [number : Nat, repo : Trees, listed : Trees, called : BOOLEAN]

Typed ==
  /\ repo \in Trees /\ shot \in Trees
  /\ log \in Seq(Items) /\ done \in Seq(Boundaries) /\ torn \in BOOLEAN
  /\ stage \in {"start", "worker", "ended", "review", "reviewed"}
  /\ number \in Nat \ {0}

\* The numbers of the reviews: each is 1 or one more than the last.
Numbered ==
  /\ stage = "start" <=> Len(done) = 0
  /\ Len(done) <= MaxRounds
  /\ stage = "start" => number = 1
  /\ stage \in {"worker", "ended"} => number \in {1, done[Len(done)].number + 1}
  /\ stage \in {"review", "reviewed"} => number = done[Len(done)].number
  /\ \A n \in 1..Len(done) : done[n].number < n
  /\ \A n \in 2..Len(done) : done[n].number \in {1, done[n - 1].number + 1}

\* The records stand in the order of their boundaries, and each but the first
\* has one before it.
Ordered ==
  /\ \A j \in RecordPlaces : log[j].id \in 1..Len(done)
  /\ \A i, j \in RecordPlaces : i < j => log[i].id < log[j].id
  /\ \A j \in 1..Len(log) + 1 :
       Before(j) # {} => \E m \in Before(j) : \A i \in Before(j) : i <= m

\* What a sequence number counts.
Counted ==
  \A j \in RecordPlaces :
    /\ BadPlaces = {} => log[j].seq = Cardinality(Before(j)) + 1
    /\ (\E b \in BadPlaces : b < j) => log[j].seq = 1

\* The files a tree changes, with their contents.
Listed(tree) == [p \in {q \in Paths : tree[q] # Same} |-> tree[p]]

\* What a record tells of its boundary.
Tells(record, boundary) ==
  /\ record.number = boundary.number
  /\ record.snapshot \in {boundary.repo, Unseen}
  /\ ~record.error => record.snapshot = boundary.repo /\ record.paths = Listed(boundary.listed)
Truthful == \A j \in RecordPlaces : Tells(log[j], done[log[j].id])

\* A logged call stands after the records up to its round, and before the others.
CallOf(n, c) ==
  /\ log[c].kind = "reviewer" /\ log[c].number = done[n].number
  /\ \A j \in RecordPlaces : /\ log[j].id <= n => j < c
                             /\ n < log[j].id => c < j
CallsPlaced == \A n \in 1..Len(done) : done[n].called => \E c \in 1..Len(log) : CallOf(n, c)

Sound == Ordered /\ Counted /\ Truthful /\ CallsPlaced

\* The inductive invariant.
RoundsInvariant == Typed /\ Numbered /\ Sound

-----------------------------------------------------------------------------
(* The log *)

\* The greatest of a set of numbers.
LEMMA MaxIs ==
  ASSUME NEW S \in SUBSET Int, NEW m \in S, \A i \in S : i <= m
  PROVE  Max(S) = m
<1>1. \A x \in S : (\A y \in S : x >= y) => x = m
  OBVIOUS
<1>2. \A y \in S : m >= y
  OBVIOUS
<1> QED BY <1>1, <1>2 DEF Max

\* The places of the log before an append and after it.
LEMMA Placed ==
  ASSUME Typed, NEW item \in Items, log' = Append(log, item)
  PROVE  /\ log' \in Seq(Items) /\ Len(log') = Len(log) + 1
         /\ \A i \in 1..Len(log) : log'[i] = log[i]
         /\ log'[Len(log) + 1] = item
         /\ RecordPlaces' = IF item.kind = "record" THEN RecordPlaces \cup {Len(log) + 1} ELSE RecordPlaces
         /\ BadPlaces' = IF item.kind = "bad" THEN BadPlaces \cup {Len(log) + 1} ELSE BadPlaces
         /\ \A j \in 1..Len(log) + 1 : Before(j)' = Before(j)
         /\ Before(Len(log) + 1) = RecordPlaces
<1>1. /\ log' \in Seq(Items) /\ Len(log') = Len(log) + 1 /\ Len(log) \in Nat
      /\ \A i \in 1..Len(log) : log'[i] = log[i]
      /\ log'[Len(log) + 1] = item
  BY DEF Typed
<1>2. 1..Len(log') = 1..Len(log) \cup {Len(log) + 1}
  BY <1>1
<1>3. RecordPlaces' = IF item.kind = "record" THEN RecordPlaces \cup {Len(log) + 1} ELSE RecordPlaces
  BY <1>1, <1>2 DEF RecordPlaces
<1>4. BadPlaces' = IF item.kind = "bad" THEN BadPlaces \cup {Len(log) + 1} ELSE BadPlaces
  BY <1>1, <1>2 DEF BadPlaces
<1>5. ASSUME NEW j \in 1..Len(log) + 1
      PROVE  Before(j)' = Before(j)
  BY <1>1, <1>3 DEF Before, RecordPlaces
<1>6. Before(Len(log) + 1) = RecordPlaces
  BY <1>1 DEF Before, RecordPlaces
<1> QED BY <1>1, <1>3, <1>4, <1>5, <1>6

\* Each record but the first still has one before it.
LEMMA StillBefore ==
  ASSUME Typed, Ordered, NEW item \in Items, log' = Append(log, item)
  PROVE  \A j \in 1..Len(log') + 1 :
           Before(j)' # {} => \E m \in Before(j)' : \A i \in Before(j)' : i <= m
<1>1. PICK n \in Nat : n = Len(log)
  BY DEF Typed
<1>2. Len(log') = n + 1
  BY <1>1, Placed
<1>3. Before(n + 2)' = IF item.kind = "record" THEN Before(n + 1) \cup {n + 1} ELSE Before(n + 1)
  BY <1>1, <1>2, Placed DEF Before, RecordPlaces
<1>4. \A i \in Before(n + 1) : i \in Int /\ i <= n + 1
  BY <1>1 DEF Before, RecordPlaces
<1>5. Before(n + 2)' # {} => \E m \in Before(n + 2)' : \A i \in Before(n + 2)' : i <= m
  <2>1. CASE item.kind = "record"
    <3>1. n + 1 \in Before(n + 2)' /\ n + 1 <= n + 1
      BY <1>3, <2>1
    <3>2. \A i \in Before(n + 2)' : i <= n + 1
      BY <1>3, <1>4, <2>1, <3>1
    <3> QED BY <3>1, <3>2
  <2>2. CASE item.kind # "record"
    <3>1. Before(n + 2)' = Before(n + 1) /\ n + 1 \in 1..n + 1
      BY <1>1, <1>3, <2>2
    <3> QED BY <1>1, <3>1 DEF Ordered
  <2> QED BY <2>1, <2>2
<1>6. ASSUME NEW j \in 1..n + 1
      PROVE  Before(j)' # {} => \E m \in Before(j)' : \A i \in Before(j)' : i <= m
  BY <1>1, Placed DEF Ordered
<1>7. \A j \in 1..Len(log') + 1 : j \in 1..n + 1 \/ j = n + 2
  BY <1>2
<1> QED BY <1>5, <1>6, <1>7

\* The sequence number of the next record.
LEMMA NextSeqIs ==
  ASSUME Typed, Ordered, Counted
  PROVE  /\ NextSeq \in Nat \ {0}
         /\ BadPlaces = {} => NextSeq = Cardinality(RecordPlaces) + 1
         /\ BadPlaces # {} => NextSeq = 1
<1>0. Len(log) \in Nat /\ RecordPlaces \in SUBSET (1..Len(log)) /\ IsFiniteSet(RecordPlaces)
  <2>1. Len(log) \in Nat /\ RecordPlaces \in SUBSET (1..Len(log))
    BY DEF Typed, RecordPlaces
  <2>2. IsFiniteSet(1..Len(log))
    BY <2>1, FS_Interval
  <2> QED BY <2>1, <2>2, FS_Subset
<1>1. CASE BadPlaces # {}
  BY <1>1 DEF NextSeq
<1>2. CASE BadPlaces = {} /\ RecordPlaces = {}
  BY <1>2, FS_EmptySet DEF NextSeq
<1>3. CASE BadPlaces = {} /\ RecordPlaces # {}
  <2>1. Before(Len(log) + 1) = RecordPlaces /\ Len(log) + 1 \in 1..Len(log) + 1
    <3>1. \A i \in RecordPlaces : i < Len(log) + 1
      BY <1>0
    <3>2. Before(Len(log) + 1) = RecordPlaces
      BY <3>1 DEF Before
    <3>3. Len(log) + 1 \in 1..Len(log) + 1
      BY <1>0
    <3> QED BY <3>2, <3>3
  <2>2. PICK m \in RecordPlaces : \A i \in RecordPlaces : i <= m
    BY <1>3, <2>1 DEF Ordered
  <2>3. Max(RecordPlaces) = m
    <3>1. RecordPlaces \in SUBSET Int
      BY <1>0
    <3> QED BY <2>2, <3>1, MaxIs
  <2>4. log[m].seq = Cardinality(Before(m)) + 1
    BY <1>3, <2>2 DEF Counted
  <2>5. RecordPlaces = Before(m) \cup {m} /\ m \notin Before(m)
    <3>1. \A i \in RecordPlaces : i < m \/ i = m
      BY <1>0, <2>2
    <3>2. ~(m < m)
      BY <1>0
    <3> QED BY <3>1, <3>2 DEF Before
  <2>6. IsFiniteSet(Before(m))
    BY <1>0, FS_Subset DEF Before
  <2>7. Cardinality(RecordPlaces) = Cardinality(Before(m)) + 1 /\ Cardinality(Before(m)) \in Nat
    BY <2>5, <2>6, FS_AddElement, FS_CardinalityType
  <2> QED BY <1>3, <2>3, <2>4, <2>7 DEF NextSeq
<1> QED BY <1>1, <1>2, <1>3

-----------------------------------------------------------------------------
(* A boundary of the task *)

\* A boundary that is passed leaves those before it.
LEMMA DoneGrows ==
  ASSUME Typed, NEW b \in Boundaries, done' = Append(done, b)
  PROVE  /\ done' \in Seq(Boundaries) /\ Len(done) \in Nat /\ Len(done') = Len(done) + 1
         /\ \A n \in 1..Len(done) : done'[n] = done[n]
         /\ done'[Len(done) + 1] = b
         /\ \A n \in 1..Len(done') : n \in 1..Len(done) \/ n = Len(done) + 1
BY DEF Typed

\* What a boundary writes, if it writes anything.
LEMMA PassedWrites ==
  ASSUME Typed, Ordered, Counted, NEW num \in Nat, NEW snapshot \in Trees, Passed(num, snapshot)
  PROVE  \E r \in Items, b \in Boundaries :
           /\ r.kind = "record" /\ r.seq = NextSeq /\ r.id = Len(done) + 1 /\ r.number = num
           /\ r.snapshot \in {snapshot, Unseen}
           /\ ~r.error => r.snapshot = snapshot /\ r.paths = Listed(repo)
           /\ b.number = num /\ b.repo = snapshot /\ b.listed = repo /\ ~b.called
           /\ done' = Append(done, b)
           /\ log' \in {log, Append(log, r), Append(log, Bad)}
           /\ torn' \in BOOLEAN
<1> DEFINE b == [number |-> num, repo |-> snapshot, listed |-> repo, called |-> FALSE]
           r(seen, paths, error) == Record(NextSeq, Len(done) + 1, num, seen, paths, error)
<1>1. b \in Boundaries /\ done' = Append(done, b)
  BY DEF Passed, Boundaries, Typed
<1>2. NextSeq \in Nat \ {0} /\ Len(done) + 1 \in Nat \ {0}
  BY NextSeqIs DEF Typed
<1>3. Observed = Listed(repo) /\ Observed \in Listings /\ NoPaths \in Listings
  <2>1. Observed = Listed(repo)
    BY DEF Observed, Classified, Listed
  <2>2. Observed \in [Classified -> Contents \cup {Same, Deleted}] /\ Classified \in SUBSET Paths
    BY DEF Observed, Classified, Typed, Trees
  <2>3. NoPaths \in [{} -> Contents \cup {Same, Deleted}] /\ {} \in SUBSET Paths
    BY DEF NoPaths
  <2> QED BY <2>1, <2>2, <2>3 DEF Listings
<1>4. \A seen \in {snapshot, Unseen}, paths \in Listings, error \in BOOLEAN :
        /\ r(seen, paths, error) \in Items
        /\ r(seen, paths, error).kind = "record" /\ r(seen, paths, error).seq = NextSeq
        /\ r(seen, paths, error).id = Len(done) + 1 /\ r(seen, paths, error).number = num
        /\ r(seen, paths, error).snapshot = seen /\ r(seen, paths, error).paths = paths
        /\ r(seen, paths, error).error = error
  BY <1>2 DEF Record, Items
<1>5. PICK seen \in {snapshot, Unseen}, paths \in Listings, error \in BOOLEAN :
        /\ ~error => seen = snapshot /\ paths = Observed
        /\ Written(r(seen, paths, error)) \/ Lost \/ CutShort
  BY <1>3 DEF Passed
<1>6. log' \in {log, Append(log, r(seen, paths, error)), Append(log, Bad)} /\ torn' \in BOOLEAN
  BY <1>5 DEF Written, Lost, CutShort, Typed
<1>7. b.number = num /\ b.repo = snapshot /\ b.listed = repo /\ ~b.called
  OBVIOUS
<1> HIDE DEF b, r
<1> QED BY <1>1, <1>3, <1>4, <1>5, <1>6, <1>7

\* A boundary without a record, whether a torn line is left or nothing.
LEMMA LostSound ==
  ASSUME Typed, Sound, NEW b \in Boundaries, done' = Append(done, b), ~b.called,
         log' \in {log, Append(log, Bad)}
  PROVE  Sound' /\ log' \in Seq(Items)
<1>1. /\ log' \in Seq(Items) /\ RecordPlaces' = RecordPlaces
      /\ \A i \in 1..Len(log) : log'[i] = log[i]
      /\ \A j \in 1..Len(log) + 1 : Before(j)' = Before(j)
      /\ Len(log') \in Nat /\ Len(log) \in Nat /\ Len(log) <= Len(log')
      /\ BadPlaces \subseteq BadPlaces'
      /\ \A i \in BadPlaces' : i \in BadPlaces \/ i = Len(log) + 1
      /\ \A j \in 1..Len(log') + 1 :
           Before(j)' # {} => \E m \in Before(j)' : \A i \in Before(j)' : i <= m
  <2>1. CASE log' = log
    <3>1. log \in Seq(Items) /\ Len(log) \in Nat
      BY DEF Typed
    <3>2. RecordPlaces' = RecordPlaces /\ BadPlaces' = BadPlaces
      BY <2>1 DEF RecordPlaces, BadPlaces
    <3>3. \A j : Before(j)' = Before(j)
      BY <3>2 DEF Before
    <3>4. \A j \in 1..Len(log) + 1 :
            Before(j) # {} => \E m \in Before(j) : \A i \in Before(j) : i <= m
      BY DEF Sound, Ordered
    <3> QED BY <2>1, <3>1, <3>2, <3>3, <3>4
  <2>2. CASE log' = Append(log, Bad)
    <3>1. Bad \in Items /\ Bad.kind = "bad"
      BY DEF Bad, Items
    <3>2. Len(log) \in Nat
      BY DEF Typed
    <3> HIDE DEF Bad
    <3> QED BY <2>2, <3>1, <3>2, Placed, StillBefore DEF Sound
  <2> QED BY <2>1, <2>2
<1>2. \A j \in RecordPlaces : j \in 1..Len(log) /\ log'[j] = log[j] /\ Before(j)' = Before(j)
                             /\ done'[log[j].id] = done[log[j].id] /\ log[j].id \in 1..Len(done')
  BY <1>1, DoneGrows DEF RecordPlaces, Sound, Ordered
<1>3. Ordered'
  BY <1>1, <1>2 DEF Sound, Ordered
<1>4. Counted'
  <2>1. \A j \in RecordPlaces : (\E i \in BadPlaces' : i < j) => \E i \in BadPlaces : i < j
    BY <1>1, <1>2
  <2> QED BY <1>1, <1>2, <2>1 DEF Sound, Counted
<1>5. Truthful'
  BY <1>1, <1>2 DEF Sound, Truthful
<1>6. CallsPlaced'
  <2> SUFFICES ASSUME NEW n \in 1..Len(done'), done'[n].called
               PROVE  \E c \in 1..Len(log') : CallOf(n, c)'
    BY DEF CallsPlaced
  <2>1. n \in 1..Len(done) /\ done'[n] = done[n]
    BY DoneGrows
  <2>2. PICK c \in 1..Len(log) : CallOf(n, c)
    BY <2>1 DEF Sound, CallsPlaced
  <2>3. c \in 1..Len(log') /\ log'[c] = log[c]
    BY <1>1
  <2> QED BY <1>1, <1>2, <2>1, <2>2, <2>3 DEF CallOf
<1> QED BY <1>1, <1>3, <1>4, <1>5, <1>6 DEF Sound

\* A boundary with a record.
LEMMA RecordSound ==
  ASSUME Typed, Sound, NEW b \in Boundaries, NEW r \in Items,
         done' = Append(done, b), ~b.called, log' = Append(log, r),
         r.kind = "record", r.seq = NextSeq, r.id = Len(done) + 1, r.number = b.number,
         r.snapshot \in {b.repo, Unseen},
         ~r.error => r.snapshot = b.repo /\ r.paths = Listed(b.listed)
  PROVE  Sound' /\ log' \in Seq(Items)
<1>0. PICK k \in Nat : k = Len(log) + 1
  BY DEF Typed
<1>1. /\ log' \in Seq(Items) /\ RecordPlaces' = RecordPlaces \cup {k} /\ BadPlaces' = BadPlaces
      /\ \A i \in 1..k - 1 : log'[i] = log[i]
      /\ log'[k] = r /\ Len(log') = k /\ Len(log) = k - 1
      /\ \A j \in 1..k : Before(j)' = Before(j)
      /\ Before(k) = RecordPlaces /\ k \in 1..k
  BY <1>0, Placed
<1>2. \A j \in RecordPlaces : j \in 1..k - 1 /\ j \in 1..k /\ log'[j] = log[j] /\ Before(j)' = Before(j)
                             /\ done'[log[j].id] = done[log[j].id] /\ log[j].id \in 1..Len(done)
                             /\ log[j].id \in 1..Len(done')
  BY <1>1, DoneGrows DEF RecordPlaces, Sound, Ordered
<1>3. Len(done) \in Nat /\ Len(done') = Len(done) + 1 /\ done'[Len(done) + 1] = b
  BY DoneGrows
<1>4. Ordered'
  <2>1. \A j \in RecordPlaces' : log'[j].id \in 1..Len(done')
    BY <1>1, <1>2, <1>3
  <2>2. \A i, j \in RecordPlaces' : i < j => log'[i].id < log'[j].id
    <3> SUFFICES ASSUME NEW i \in RecordPlaces', NEW j \in RecordPlaces', i < j
                 PROVE  log'[i].id < log'[j].id
      OBVIOUS
    <3>1. i \in RecordPlaces
      BY <1>1, <1>2
    <3>2. CASE j \in RecordPlaces
      BY <1>2, <3>1, <3>2 DEF Sound, Ordered
    <3>3. CASE j = k
      BY <1>1, <1>2, <1>3, <3>1, <3>3
    <3> QED BY <1>1, <3>2, <3>3
  <2> QED BY <2>1, <2>2, StillBefore DEF Sound, Ordered
<1>5. Counted'
  <2>1. NextSeq \in Nat \ {0} /\ (BadPlaces = {} => NextSeq = Cardinality(RecordPlaces) + 1)
        /\ (BadPlaces # {} => NextSeq = 1)
    BY NextSeqIs DEF Sound
  <2> QED BY <1>1, <1>2, <2>1 DEF Sound, Counted
<1>6. Truthful'
  <2>1. \A j \in RecordPlaces : Tells(log'[j], done'[log'[j].id])
    BY <1>2 DEF Sound, Truthful
  <2>2. Tells(log'[k], done'[log'[k].id])
    BY <1>1, <1>3 DEF Tells
  <2> QED BY <1>1, <2>1, <2>2 DEF Truthful
<1>7. CallsPlaced'
  <2> SUFFICES ASSUME NEW n \in 1..Len(done'), done'[n].called
               PROVE  \E c \in 1..Len(log') : CallOf(n, c)'
    BY DEF CallsPlaced
  <2>1. n \in 1..Len(done) /\ done'[n] = done[n]
    BY DoneGrows
  <2>2. PICK c \in 1..k - 1 : CallOf(n, c)
    BY <1>1, <2>1 DEF Sound, CallsPlaced
  <2>3. c \in 1..Len(log') /\ log'[c] = log[c] /\ c < k
    BY <1>1
  <2>4. \A j \in RecordPlaces' : (log'[j].id <= n => j < c) /\ (n < log'[j].id => c < j)
    <3>1. \A j \in RecordPlaces : (log'[j].id <= n => j < c) /\ (n < log'[j].id => c < j)
      BY <1>2, <2>2 DEF CallOf
    <3>2. ~(log'[k].id <= n)
      BY <1>1, <1>3, <2>1
    <3> QED BY <1>1, <2>3, <3>1, <3>2
  <2> QED BY <2>1, <2>2, <2>3, <2>4 DEF CallOf
<1> QED BY <1>1, <1>4, <1>5, <1>6, <1>7 DEF Sound

\* A boundary keeps the log true, whatever becomes of its record.
LEMMA PassedSound ==
  ASSUME Typed, Sound, NEW num \in Nat, NEW snapshot \in Trees, Passed(num, snapshot)
  PROVE  /\ Sound' /\ log' \in Seq(Items) /\ torn' \in BOOLEAN
         /\ \E b \in Boundaries : b.number = num /\ done' = Append(done, b)
<1>1. PICK r \in Items, b \in Boundaries :
        /\ r.kind = "record" /\ r.seq = NextSeq /\ r.id = Len(done) + 1 /\ r.number = num
        /\ r.snapshot \in {snapshot, Unseen}
        /\ ~r.error => r.snapshot = snapshot /\ r.paths = Listed(repo)
        /\ b.number = num /\ b.repo = snapshot /\ b.listed = repo /\ ~b.called
        /\ done' = Append(done, b)
        /\ log' \in {log, Append(log, r), Append(log, Bad)}
        /\ torn' \in BOOLEAN
  BY PassedWrites DEF Sound
<1>2. CASE log' \in {log, Append(log, Bad)}
  BY <1>1, <1>2, LostSound
<1>3. CASE log' = Append(log, r)
  BY <1>1, <1>3, RecordSound
<1> QED BY <1>1, <1>2, <1>3

\* Most steps leave the log and the boundaries.
LEMMA QuietSound ==
  ASSUME Sound, UNCHANGED <<log, done>>
  PROVE  Sound'
<1>1. RecordPlaces' = RecordPlaces /\ BadPlaces' = BadPlaces
  BY DEF RecordPlaces, BadPlaces
<1>2. \A j : Before(j)' = Before(j)
  BY <1>1 DEF Before
<1>3. Ordered'
  BY <1>1, <1>2 DEF Sound, Ordered
<1>4. Counted'
  BY <1>1, <1>2 DEF Sound, Counted
<1>5. Truthful'
  BY <1>1 DEF Sound, Truthful
<1>6. CallsPlaced'
  <2>1. \A n, c : CallOf(n, c)' <=> CallOf(n, c)
    BY <1>1 DEF CallOf
  <2> QED BY <2>1 DEF Sound, CallsPlaced
<1> QED BY <1>3, <1>4, <1>5, <1>6 DEF Sound

\* A review: its call stands behind every record there is.
LEMMA ReviewSound ==
  ASSUME RoundsInvariant, Review
  PROVE  Typed' /\ Sound' /\ Numbered'
<1> DEFINE n == Len(done)
           called == [done EXCEPT ![n].called = TRUE]
<1>1. /\ Typed /\ Sound /\ Numbered /\ stage = "review" /\ stage' = "reviewed"
      /\ UNCHANGED <<repo, torn, number, shot>>
  BY DEF RoundsInvariant, Sound, Review
<1>2. n \in 1..n /\ n \in Nat
  BY <1>1 DEF Typed, Numbered
<1>3. CASE UNCHANGED <<log, done>>
  <2>1. Typed'
    BY <1>1, <1>3 DEF Typed
  <2>2. Sound'
    BY <1>1, <1>3, QuietSound
  <2>3. Numbered'
    BY <1>1, <1>3 DEF Numbered
  <2> QED BY <2>1, <2>2, <2>3
<1>4. CASE log' = Append(log, Call(number)) /\ done' = called
  <2>1. /\ done' \in Seq(Boundaries) /\ Len(done') = n
        /\ \A m \in 1..n : /\ done'[m].number = done[m].number /\ done'[m].repo = done[m].repo
                           /\ done'[m].listed = done[m].listed
                           /\ m # n => done'[m].called = done[m].called
    <3>1. done \in Seq(Boundaries)
      BY <1>1 DEF Typed
    <3>2. done[n] \in Boundaries /\ done' = [done EXCEPT ![n] = [done[n] EXCEPT !.called = TRUE]]
      BY <1>2, <1>4, <3>1
    <3>3. [done[n] EXCEPT !.called = TRUE] \in Boundaries
      BY <3>2 DEF Boundaries
    <3>4. done' \in Seq(Boundaries) /\ Len(done') = n
          /\ \A m \in 1..n : done'[m] = IF m = n THEN [done[n] EXCEPT !.called = TRUE] ELSE done[m]
      BY <1>2, <3>1, <3>2, <3>3
    <3>5. /\ [done[n] EXCEPT !.called = TRUE].number = done[n].number
          /\ [done[n] EXCEPT !.called = TRUE].repo = done[n].repo
          /\ [done[n] EXCEPT !.called = TRUE].listed = done[n].listed
      BY <3>2 DEF Boundaries
    <3> QED BY <3>4, <3>5
  <2>2. Call(number) \in Items /\ Call(number).kind = "reviewer" /\ Call(number).number = number
    BY <1>1 DEF Call, Items, Typed
  <2>3. PICK k \in Nat : k = Len(log) + 1
    BY <1>1 DEF Typed
  <2> HIDE DEF called, n
  <2>4. /\ log' \in Seq(Items) /\ RecordPlaces' = RecordPlaces /\ BadPlaces' = BadPlaces
        /\ \A i \in 1..k - 1 : log'[i] = log[i]
        /\ log'[k] = Call(number) /\ Len(log') = k /\ Len(log) = k - 1
        /\ \A j \in 1..k : Before(j)' = Before(j)
    BY <1>1, <1>4, <2>2, <2>3, Placed
  <2>5. \A j \in RecordPlaces : /\ j \in 1..k - 1 /\ j \in 1..k /\ j < k /\ log'[j] = log[j]
                               /\ Before(j)' = Before(j) /\ log[j].id \in 1..n /\ log[j].id <= n
    BY <1>1, <1>2, <2>4 DEF RecordPlaces, Sound, Ordered, n
  <2>6. Typed'
    BY <1>1, <2>1, <2>4 DEF Typed
  <2>7. Ordered'
    <3>1. \A j \in 1..Len(log') + 1 :
            Before(j)' # {} => \E m \in Before(j)' : \A i \in Before(j)' : i <= m
      BY <1>1, <1>4, <2>2, StillBefore DEF Sound
    <3>2. \A j \in RecordPlaces' : log'[j].id \in 1..Len(done')
      BY <2>1, <2>4, <2>5
    <3>3. \A i, j \in RecordPlaces' : i < j => log'[i].id < log'[j].id
      BY <1>1, <2>4, <2>5 DEF Sound, Ordered
    <3> QED BY <3>1, <3>2, <3>3 DEF Ordered
  <2>8. Counted'
    BY <1>1, <2>4, <2>5 DEF Sound, Counted
  <2>9. Truthful'
    <3>1. \A j \in RecordPlaces : Tells(log[j], done[log[j].id])
      BY <1>1 DEF Sound, Truthful
    <3>2. \A j \in RecordPlaces : Tells(log[j], done'[log[j].id])
      BY <2>1, <2>5, <3>1 DEF Tells
    <3> QED BY <2>4, <2>5, <3>2 DEF Truthful
  <2>10. CallsPlaced'
    <3> SUFFICES ASSUME NEW m \in 1..n, done'[m].called
                 PROVE  \E c \in 1..k : CallOf(m, c)'
      BY <2>1, <2>4 DEF CallsPlaced
    <3>1. CASE m = n
      <4>1. log'[k].kind = "reviewer" /\ log'[k].number = done'[n].number
        BY <1>1, <1>2, <2>1, <2>2, <2>4 DEF Numbered, n
      <4>2. \A j \in RecordPlaces' : j < k /\ ~(n < log'[j].id)
        BY <1>2, <2>4, <2>5 DEF n
      <4>3. k \in 1..k
        BY <2>4, <1>1 DEF Typed
      <4> QED BY <3>1, <4>1, <4>2, <4>3 DEF CallOf
    <3>2. CASE m # n
      <4>1. PICK c \in 1..k - 1 : CallOf(m, c)
        BY <1>1, <2>1, <2>4, <3>2 DEF Sound, CallsPlaced, n
      <4>2. c \in 1..k /\ log'[c] = log[c]
        BY <2>4, <4>1
      <4> QED BY <2>1, <2>4, <2>5, <4>1, <4>2 DEF CallOf
    <3> QED BY <3>1, <3>2
  <2>11. Numbered'
    BY <1>1, <1>2, <2>1 DEF Numbered, n
  <2> QED BY <2>6, <2>7, <2>8, <2>9, <2>10, <2>11 DEF Sound
<1> QED BY <1>3, <1>4 DEF Review

\* A boundary takes the number that the last one allows.
LEMMA BoundaryNumbered ==
  ASSUME Typed, Numbered, NEW b \in Boundaries, done' = Append(done, b), Len(done) < MaxRounds,
         \/ stage = "start" /\ b.number = 0 /\ stage' = "worker"
         \/ stage = "ended" /\ b.number = number /\ stage' = "review",
         UNCHANGED number
  PROVE  Numbered'
<1>1. PICK n \in Nat : n = Len(done)
  BY DEF Typed
<1>2. /\ Len(done') = n + 1 /\ done'[n + 1] = b
      /\ \A m \in 1..n : done'[m] = done[m]
  BY <1>1, DoneGrows
<1>3. number \in Nat \ {0} /\ \A m \in 1..n : done[m].number \in Nat
  <2>1. number \in Nat \ {0} /\ \A m \in 1..n : done[m] \in Boundaries
    BY <1>1 DEF Typed
  <2> QED BY <2>1 DEF Boundaries
<1>4. n + 1 <= MaxRounds
  BY <1>1, RoundsAssumption
<1>5. n # 0 => b.number \in {1, done[n].number + 1}
  BY <1>1 DEF Numbered
<1>6. n = 0 => b.number = 0 /\ number = 1
  BY <1>1 DEF Numbered
<1>7. \A m \in 1..n + 1 : done'[m].number < m
  <2>1. \A m \in 1..n : done'[m].number < m
    BY <1>1, <1>2 DEF Numbered
  <2>2. b.number < n + 1
    <3>1. CASE n = 0
      BY <1>6, <3>1
    <3>2. CASE n # 0
      <4>1. n \in 1..n /\ done[n].number < n /\ done[n].number \in Nat
        BY <1>1, <1>2, <1>3, <2>1, <3>2
      <4> QED BY <1>5, <3>2, <4>1
    <3> QED BY <3>1, <3>2
  <2> QED BY <1>2, <2>1, <2>2
<1>8. \A m \in 2..n + 1 : done'[m].number \in {1, done'[m - 1].number + 1}
  <2>1. \A m \in 2..n : done[m].number \in {1, done[m - 1].number + 1} /\ m \in 1..n /\ m - 1 \in 1..n
    BY <1>1 DEF Numbered
  <2>2. n # 0 => n \in 1..n /\ (n + 1) - 1 = n
    OBVIOUS
  <2> QED BY <1>2, <1>5, <2>1, <2>2
<1>9. n + 1 # 0
  BY <1>1
<1> QED BY <1>1, <1>2, <1>4, <1>5, <1>6, <1>7, <1>8, <1>9 DEF Numbered

\* Both kinds of boundary keep the invariant.
LEMMA BoundarySound ==
  ASSUME RoundsInvariant, StartTask \/ RecordRound
  PROVE  RoundsInvariant'
<1>1. PICK num \in Nat, snapshot \in Trees :
        /\ Passed(num, snapshot)
        /\ \/ stage = "start" /\ num = 0 /\ stage' = "worker"
           \/ stage = "ended" /\ num = number /\ stage' = "review"
  BY DEF RoundsInvariant, Typed, StartTask, RecordRound
<1>2. Typed /\ Sound /\ Numbered /\ UNCHANGED <<repo, shot, number>>
  BY DEF RoundsInvariant, StartTask, RecordRound
<1>3. /\ Sound' /\ log' \in Seq(Items) /\ torn' \in BOOLEAN
      /\ \E b \in Boundaries : b.number = num /\ done' = Append(done, b)
  BY <1>1, <1>2, PassedSound
<1>4. PICK b \in Boundaries : b.number = num /\ done' = Append(done, b)
  BY <1>3
<1>5. Len(done) < MaxRounds
  BY <1>1 DEF Passed
<1>6. Numbered'
  BY <1>1, <1>2, <1>4, <1>5, BoundaryNumbered
<1>7. done' \in Seq(Boundaries)
  BY <1>2, <1>4, DoneGrows
<1>8. Typed'
  BY <1>1, <1>2, <1>3, <1>7 DEF Typed
<1> QED BY <1>3, <1>6, <1>8 DEF RoundsInvariant

\* The steps that leave both logs alone keep the invariant.
LEMMA OthersSound ==
  ASSUME RoundsInvariant,
         Change \/ WorkerEnds \/ Stopped \/ AutoFix \/ NewSeries \/ ExplicitFix \/ UNCHANGED vars
  PROVE  RoundsInvariant'
<1>1. UNCHANGED <<log, done>> /\ Typed /\ Numbered /\ Sound
  BY DEF RoundsInvariant, Change, WorkerEnds, Stopped, AutoFix, NewSeries, ExplicitFix, vars
<1>2. Sound'
  BY <1>1, QuietSound
<1>3. Len(done) \in Nat /\ (Len(done) # 0 => done[Len(done)].number \in Nat)
  <2>1. Len(done) \in Nat /\ (Len(done) # 0 => done[Len(done)] \in Boundaries)
    BY <1>1 DEF Typed
  <2> QED BY <2>1 DEF Boundaries
<1>4. CASE Change
  <2>1. PICK p \in Paths : \E c \in MayHold(p) : repo' = [repo EXCEPT ![p] = c]
    BY <1>4 DEF Change
  <2>2. MayHold(p) \subseteq Contents \cup {Same, Deleted}
    BY RoundsAssumption DEF MayHold, Contents
  <2>3. repo' \in Trees
    BY <1>1, <2>1, <2>2 DEF Typed, Trees
  <2>4. Typed'
    BY <1>1, <1>4, <2>3 DEF Typed, Change
  <2>5. Numbered'
    BY <1>1, <1>4 DEF Numbered, Change
  <2> QED BY <1>2, <2>4, <2>5 DEF RoundsInvariant
<1>5. CASE WorkerEnds
  <2>1. Typed'
    BY <1>1, <1>5 DEF Typed, WorkerEnds
  <2>2. Numbered'
    BY <1>1, <1>5 DEF Numbered, WorkerEnds
  <2> QED BY <1>2, <2>1, <2>2 DEF RoundsInvariant
<1>6. CASE Stopped \/ NewSeries \/ ExplicitFix
  <2>1. Typed'
    BY <1>1, <1>6 DEF Typed, Stopped, NewSeries, ExplicitFix
  <2>2. Numbered'
    BY <1>1, <1>6 DEF Numbered, Stopped, NewSeries, ExplicitFix
  <2> QED BY <1>2, <2>1, <2>2 DEF RoundsInvariant
<1>7. CASE AutoFix
  <2>1. Typed'
    BY <1>1, <1>7 DEF Typed, AutoFix
  <2>2. Numbered'
    BY <1>1, <1>3, <1>7 DEF Numbered, AutoFix
  <2> QED BY <1>2, <2>1, <2>2 DEF RoundsInvariant
<1>8. CASE UNCHANGED vars
  BY <1>1, <1>2, <1>8 DEF RoundsInvariant, Typed, Numbered, vars
<1> QED BY <1>4, <1>5, <1>6, <1>7, <1>8

\* The inductive invariant holds.
THEOREM RoundsInvariantHolds == Spec => []RoundsInvariant
<1>1. Init => RoundsInvariant
  <2> SUFFICES ASSUME Init PROVE RoundsInvariant
    OBVIOUS
  <2>1. repo \in Trees /\ shot = repo
    BY DEF Init, Trees, MayHold
  <2>2. /\ log \in Seq(Items) /\ Len(log) = 0 /\ done \in Seq(Boundaries) /\ Len(done) = 0
        /\ stage = "start" /\ number = 1 /\ torn = FALSE
    BY DEF Init
  <2>3. RecordPlaces = {} /\ \A j : Before(j) = {}
    BY <2>2 DEF RecordPlaces, Before
  <2>4. Typed
    <3>1. number \in Nat \ {0}
      BY <2>2
    <3>2. torn \in BOOLEAN
      BY <2>2, Zenon
    <3>3. shot \in Trees
      BY <2>1, Zenon
    <3> QED BY <2>1, <2>2, <3>1, <3>2, <3>3 DEF Typed
  <2>5. Numbered
    BY <2>2, RoundsAssumption DEF Numbered
  <2>6. Sound
    BY <2>2, <2>3 DEF Sound, Ordered, Counted, Truthful, CallsPlaced
  <2> QED BY <2>4, <2>5, <2>6 DEF RoundsInvariant
<1>2. RoundsInvariant /\ [Next]_vars => RoundsInvariant'
  <2>1. RoundsInvariant /\ Review => RoundsInvariant'
    BY ReviewSound DEF RoundsInvariant
  <2> QED BY <2>1, BoundarySound, OthersSound DEF Next
<1> QED BY <1>1, <1>2, PTL DEF Spec

-----------------------------------------------------------------------------
(* What the report may conclude *)

\* The state has its type, the records stand in order and their sequence numbers
\* count them until a line is torn, for any number of rounds and faults.
THEOREM RoundsTypeCorrect == Spec => []RoundsType
<1>1. RoundsInvariant => RoundsType
  <2> SUFFICES ASSUME RoundsInvariant PROVE RoundsType
    OBVIOUS
  <2>1. Typed /\ Numbered /\ Sound
    BY DEF RoundsInvariant
  <2>2. /\ Len(done) \in Nat /\ number \in Nat \ {0} /\ MaxRounds \in Nat \ {0}
        /\ Len(done) # 0 => done[Len(done)].number \in Nat /\ done[Len(done)].number < Len(done)
    <3>1. Len(done) \in Nat /\ (Len(done) # 0 => done[Len(done)] \in Boundaries /\ Len(done) \in 1..Len(done))
      BY <2>1 DEF Typed
    <3> QED BY <2>1, <3>1, RoundsAssumption DEF Boundaries, Numbered, Typed
  <2>3. number \in 1..MaxRounds
    BY <2>1, <2>2 DEF Numbered, Typed
  <2>4. \A p \in Paths : repo[p] \in MayHold(p) /\ shot[p] \in MayHold(p)
    BY <2>1 DEF Typed, Trees
  <2>5. ASSUME NEW j \in RecordPlaces
        PROVE  /\ log[j].id \in 1..Len(done)
               /\ log[j].number = done[log[j].id].number
               /\ \A i \in Before(j) : log[i].id < log[j].id
               /\ BadPlaces = {} => log[j].seq = Cardinality(Before(j)) + 1
    BY <2>1 DEF Sound, Ordered, Counted, Truthful, Tells, Before
  <2> QED BY <2>1, <2>3, <2>4, <2>5 DEF RoundsType, Typed
<1> QED BY <1>1, RoundsInvariantHolds, PTL

\* A round that is compared has a record before it, and no gap behind that one.
LEMMA ComparedIs ==
  ASSUME RoundsInvariant, NEW j \in RecordPlaces, Compared(j)
  PROVE  /\ Previous(j) \in RecordPlaces /\ Previous(j) < j
         /\ log[j].seq = log[Previous(j)].seq + 1
         /\ ~Mismatch(Previous(j), j)
         /\ Delta(j) = CompareRoundRecords(log[Previous(j)], log[j])
<1>1. /\ ~Gap(j) /\ Before(j) # {}
      /\ Delta(j) = CompareRoundRecords(log[Previous(j)], log[j])
  BY DEF Compared, Delta, Gap
<1>2. j \in 1..Len(log) + 1 /\ Before(j) \in SUBSET Int
  BY DEF RoundsInvariant, Typed, RecordPlaces, Before
<1>3. PICK m \in Before(j) : \A i \in Before(j) : i <= m
  BY <1>1, <1>2 DEF RoundsInvariant, Sound, Ordered
<1>4. Previous(j) = m
  BY <1>2, <1>3, MaxIs DEF Previous
<1> QED BY <1>1, <1>3, <1>4 DEF Gap, Before

\* What a loss leaves in the log keeps the report from comparing across it.
THEOREM LossesAlwaysShow == Spec => []LossesShow
<1>1. RoundsInvariant => LossesShow
  <2> SUFFICES ASSUME RoundsInvariant, NEW j \in RecordPlaces, Compared(j)
               PROVE  /\ \A b \in BadPlaces : b > j
                      /\ LET next == log[Previous(j)].id + 1 IN
                         next < log[j].id => ~(done[next].called /\ done[next].number > 1)
    BY DEF LossesShow
  <2> DEFINE i == Previous(j)
             next == log[i].id + 1
  <2>1. i \in RecordPlaces /\ i < j /\ log[j].seq = log[i].seq + 1 /\ ~Mismatch(i, j)
    BY ComparedIs
  <2>2. Typed /\ Numbered /\ Sound
    BY DEF RoundsInvariant
  <2> HIDE DEF i
  <2>3. i \in 1..Len(log) /\ j \in 1..Len(log) /\ log[i].kind = "record" /\ log[j].kind = "record"
    BY <2>1 DEF RecordPlaces
  <2>4. log[i].seq \in Nat \ {0}
    <3>1. log[i] \in Items
      BY <2>2, <2>3 DEF Typed
    <3> QED BY <2>3, <3>1 DEF Items
  <2>5. ASSUME NEW b \in BadPlaces
        PROVE  b > j
    <3>1. b \in 1..Len(log) /\ b # j
      BY <2>3 DEF BadPlaces
    <3>2. b < j => log[j].seq = 1
      BY <2>2 DEF Sound, Counted
    <3>3. ~(b < j)
      BY <2>1, <2>4, <3>2
    <3> QED BY <2>3, <3>1, <3>3
  <2>6. ASSUME next < log[j].id, done[next].called, done[next].number > 1
        PROVE  FALSE
    <3>1. log[i].id \in 1..Len(done) /\ log[j].id \in 1..Len(done) /\ log[i].number = done[log[i].id].number
      BY <2>1, <2>2 DEF Sound, Ordered, Truthful, Tells
    <3>2. next \in 1..Len(done) /\ next \in 2..Len(done) /\ next - 1 = log[i].id /\ log[i].id <= next
      BY <2>2, <2>6, <3>1 DEF Typed
    <3>3. PICK c \in 1..Len(log) : CallOf(next, c)
      BY <2>2, <2>6, <3>2 DEF Sound, CallsPlaced
    <3>4. i < c /\ c < j /\ log[c].kind = "reviewer" /\ log[c].number = done[next].number
      BY <2>1, <2>6, <3>2, <3>3 DEF CallOf
    <3>5. done[next].number = log[i].number + 1 /\ log[i].number \in Nat
      <4>1. done[log[i].id] \in Boundaries
        BY <2>2, <3>1 DEF Typed
      <4>2. done[next].number \in {1, done[next - 1].number + 1}
        BY <2>2, <3>2 DEF Numbered
      <4>3. done[log[i].id].number \in Nat
        BY <4>1 DEF Boundaries
      <4>4. done[next].number = 1 \/ done[next].number = log[i].number + 1
        BY <3>1, <3>2, <4>2
      <4> QED BY <2>6, <3>1, <4>3, <4>4
    <3>6. c \in i + 1 .. j - 1
      BY <2>3, <3>4
    <3>7. ~IsBaseline(log[i])
      BY <2>6, <3>5 DEF IsBaseline
    <3>8. Mismatch(i, j)
      BY <3>4, <3>5, <3>6, <3>7 DEF Mismatch
    <3> QED BY <2>1, <3>8
  <2> QED BY <2>5, <2>6 DEF i
<1> QED BY <1>1, RoundsInvariantHolds, PTL

\* Recognised contents with the same safe normal form mean the same: what the
\* normal form leaves out of source code is blank or a comment nothing reads.
LEMMA NormalFormKeepsSense ==
  ASSUME NEW p \in Paths \ Docs, NEW before, NEW after, NonSemantic(p, before, after)
  PROVE  Harmless(p, before, after)
<1> DEFINE ByLook(c) == {i \in 1..Len(Lines[c]) :
                           LineKinds[Lines[c][i]] # "blank" /\ ~RoundCommentLine(Lines[c][i])}
           Form(c) == RoundSemanticDigest(p, c)
<1>1. /\ before \in Contents /\ after \in Contents
      /\ Form(before) # {} /\ Form(before) = Form(after)
  BY DEF NonSemantic
<1>2. RoundPathClass(p) # "doc" /\ (RoundPathClass(p) = "code" <=> p \in Codes)
  BY DEF RoundPathClass
<1>3. ASSUME NEW c \in Contents, c \notin Guarded, Recognised(c)
      PROVE  Meant(c) = ByLook(c)
  <2>1. ASSUME NEW i \in 1..Len(Lines[c])
        PROVE  i \in Meant(c) <=> i \in ByLook(c)
    <3>1. Lines[c][i] \in DOMAIN LineKinds
      BY RoundsAssumption DEF Contents
    <3>2. LineKinds[Lines[c][i]] \in {"text", "blank", "comment", "directive"}
      BY <1>3, <3>1, RoundsAssumption DEF Recognised
    <3>3. i \notin Inside[c]
      BY <1>3 DEF Recognised
    <3> QED BY <3>2, <3>3 DEF Meant, RoundCommentLine
  <2> QED BY <2>1 DEF Meant
<1>4. ASSUME NEW c \in Contents, Form(c) # {}, Recognised(c)
      PROVE  Form(c) = {Sense(p, c)}
  <2>1. CASE Lines[c] = <<>>
    BY <2>1 DEF RoundSemanticDigest, Sense
  <2>2. CASE Lines[c] # <<>>
    <3>1. p \in Codes /\ c \notin Guarded
      BY <1>2, <1>4, <2>2 DEF RoundSemanticDigest
    <3>2. Form(c) = {Kept(Lines[c], ByLook(c))}
      BY <1>2, <2>2, <3>1 DEF RoundSemanticDigest, NormalizeRoundContent
    <3>3. Sense(p, c) = Kept(Lines[c], ByLook(c))
      BY <1>3, <1>4, <2>2, <3>1 DEF Sense
    <3> QED BY <3>2, <3>3
  <2> QED BY <2>1, <2>2
<1>5. ASSUME Recognised(before), Recognised(after)
      PROVE  Sense(p, before) = Sense(p, after)
  <2>1. Form(before) = {Sense(p, before)} /\ Form(after) = {Sense(p, after)}
    BY <1>1, <1>4, <1>5
  <2> HIDE DEF Form
  <2> QED BY <1>1, <2>1
<1> QED BY <1>1, <1>5 DEF Harmless, SameSense

\* What two listings of the changed files tell of the files that are not among
\* the changed ones, and of those that are only not among the ones that matter.
LEMMA ListingsTell ==
  ASSUME NEW t \in Trees, NEW u \in Trees, NEW prev, NEW curr,
         prev.paths = Listed(t), curr.paths = Listed(u), NEW p \in Paths
  PROVE  /\ p \notin ChangedPaths(prev, curr) => t[p] = u[p]
         /\ p \notin Docs \cup SemanticPaths(prev, curr) => Harmless(p, t[p], u[p])
<1>1. /\ DOMAIN prev.paths = {q \in Paths : t[q] # Same}
      /\ DOMAIN curr.paths = {q \in Paths : u[q] # Same}
      /\ \A q \in DOMAIN prev.paths : prev.paths[q] = t[q]
      /\ \A q \in DOMAIN curr.paths : curr.paths[q] = u[q]
  BY DEF Listed
<1>2. p \notin ChangedPaths(prev, curr) => t[p] = u[p]
  BY <1>1 DEF ChangedPaths
<1>3. ASSUME p \notin Docs \cup SemanticPaths(prev, curr), p \in ChangedPaths(prev, curr)
      PROVE  Harmless(p, t[p], u[p])
  <2>1. RoundPathClass(p) # "doc"
    BY <1>3 DEF RoundPathClass
  <2>2. /\ p \in DOMAIN prev.paths \cap DOMAIN curr.paths
        /\ NonSemantic(p, prev.paths[p], curr.paths[p])
    BY <1>3, <2>1 DEF SemanticPaths
  <2>3. NonSemantic(p, t[p], u[p])
    BY <1>1, <2>2
  <2> QED BY <1>3, <2>3, NormalFormKeepsSense
<1> QED BY <1>2, <1>3 DEF Harmless, SameSense

\* The class the report gives a round tells the truth about the two boundaries it
\* compares (ClassesAreTrue), for any files, contents, edits between snapshot and
\* listing, lost records and numbers of rounds: equal snapshots are equal files;
\* otherwise both records are free of errors and list what was changed when they
\* were written, and what a class says of a content is claimed for those whose
\* strings and comments the code recognises.
THEOREM ClassesAlwaysTrue == Spec => []ClassesAreTrue
<1>1. RoundsInvariant => ClassesAreTrue
  <2> SUFFICES ASSUME RoundsInvariant, NEW j \in RecordPlaces, Compared(j)
               PROVE  LET before == done[log[Previous(j)].id]
                          after == done[log[j].id] IN
                      CASE Delta(j) = "same-snapshot" -> before.repo = after.repo
                        [] Delta(j) = "comment-format-only" ->
                             \A p \in Paths : before.listed[p] = after.listed[p]
                                \/ (p \notin Docs /\ Harmless(p, before.listed[p], after.listed[p]))
                        [] Delta(j) = "doc-change" ->
                             \A p \in Paths \ Docs : Harmless(p, before.listed[p], after.listed[p])
                        [] OTHER -> before.repo # after.repo
    BY DEF ClassesAreTrue
  <2> DEFINE i == Previous(j)
             prev == log[i]
             curr == log[j]
             t == done[log[i].id].repo
             u == done[log[j].id].repo
             v == done[log[i].id].listed
             w == done[log[j].id].listed
  <2>1. i \in RecordPlaces /\ Delta(j) = CompareRoundRecords(prev, curr) /\ Delta(j) # "unknown"
    BY ComparedIs DEF Compared
  <2> HIDE DEF i
  <2>2. /\ prev.snapshot \in {t, Unseen} /\ curr.snapshot \in {u, Unseen}
        /\ ~prev.error => prev.snapshot = t /\ prev.paths = Listed(v)
        /\ ~curr.error => curr.snapshot = u /\ curr.paths = Listed(w)
    BY <2>1 DEF RoundsInvariant, Sound, Truthful, Tells
  <2>3. t \in Trees /\ u \in Trees /\ v \in Trees /\ w \in Trees
    <3>1. log[i].id \in 1..Len(done) /\ log[j].id \in 1..Len(done)
      BY <2>1 DEF RoundsInvariant, Sound, Ordered
    <3>2. done[log[i].id] \in Boundaries /\ done[log[j].id] \in Boundaries
      BY <3>1 DEF RoundsInvariant, Typed
    <3> QED BY <3>2 DEF Boundaries
  <2> HIDE DEF t, u, v, w, prev, curr
  <2>4. CASE RoundSnapshotsEqual(prev, curr)
    <3>1. Delta(j) = "same-snapshot"
      BY <2>1, <2>4 DEF CompareRoundRecords
    <3>2. t = u
      BY <2>2, <2>4 DEF RoundSnapshotsEqual
    <3> QED BY <3>1, <3>2 DEF t, u, i
  <2>5. CASE ~RoundSnapshotsEqual(prev, curr)
    <3>1. ~prev.error /\ ~curr.error /\ ChangedPaths(prev, curr) # {}
      BY <2>1, <2>5 DEF CompareRoundRecords
    <3>2. \A p \in Paths :
            /\ p \notin ChangedPaths(prev, curr) => v[p] = w[p]
            /\ p \notin Docs \cup SemanticPaths(prev, curr) => Harmless(p, v[p], w[p])
      BY <2>2, <2>3, <3>1, ListingsTell
    <3>3. /\ Delta(j) # "same-snapshot"
          /\ Delta(j) \in {"comment-format-only", "doc-change"} => SemanticPaths(prev, curr) = {}
          /\ Delta(j) = "comment-format-only" => ChangedPaths(prev, curr) \cap Docs = {}
      BY <2>1, <2>5, <3>1 DEF CompareRoundRecords
    <3>4. t # u
      <4>1. PICK p \in Paths : TRUE
        <5>1. ChangedPaths(prev, curr) \subseteq Paths
          BY <2>2, <3>1 DEF ChangedPaths, Listed
        <5> QED BY <3>1, <5>1
      <4>2. t[p] # "unseen"
        BY <2>3, <4>1, RoundsAssumption DEF Trees, Contents, Same, Deleted
      <4>3. t # Unseen
        BY <4>2 DEF Unseen
      <4> QED BY <2>2, <2>5, <3>1, <4>3 DEF RoundSnapshotsEqual
    <3>5. Delta(j) = "comment-format-only" =>
            \A p \in Paths : v[p] = w[p] \/ (p \notin Docs /\ Harmless(p, v[p], w[p]))
      BY <3>2, <3>3
    <3>6. Delta(j) = "doc-change" => \A p \in Paths \ Docs : Harmless(p, v[p], w[p])
      BY <3>2, <3>3
    <3> QED BY <3>3, <3>4, <3>5, <3>6 DEF t, u, v, w, i
  <2> QED BY <2>4, <2>5
<1> QED BY <1>1, RoundsInvariantHolds, PTL

=============================================================================
