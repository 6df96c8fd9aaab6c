--------------------------- MODULE RepoSearchProofs ---------------------------
(***************************************************************************)
(* That an answer is the corpus of one moment of the search and that a     *)
(* cached index is the one its fingerprint stands for, for any number of   *)
(* searches, files, versions and edits.                                    *)
(*                                                                         *)
(* Two fingerprints that are equal bracket what was read between them:     *)
(* the versions of a file only grow, so each of the three readings of a    *)
(* file (for the first fingerprint, for the index, for the second one) is  *)
(* at least the one before it, and what the two fingerprints say alike of  *)
(* the first and the last holds of the middle one.                         *)
(***************************************************************************)
EXTENDS RepoSearch, TLAPS

\* What the answers rest on.  Git's index rests while a search runs, and a new
\* file that was too large, binary or a link and became a text does not go back:
\* no fingerprint tells two such states apart (buildWorktreeDigest: skipped
\* files have one projection).  Versions a file cannot return to are already in
\* the model, see Edit.
NothingReturns ==
  /\ ~StageAnytime
  /\ \A u, v, w \in Versions :
       u < v /\ v < w /\ Kinds[u] # "text" /\ Kinds[w] # "text" => Kinds[v] # "text"

\* The states a file may be in at all.
Legal(f, v) == v \in States /\ (v = 0 => f \in Fresh) /\ (v = Gone => f \notin Fresh)

\* The files that a search with these excluded directories may index.
Scope(index, drop) == {f \in Files \ drop : Stored(index[f]) => Kinds[index[f]] # "link"}

\* What a fingerprint says of a file fits version v.
Says(fp, index, f, v) ==
  /\ Legal(f, v)
  /\ IF Stored(index[f])
     THEN IF v = index[f] THEN \A e \in fp.diff : e[1] # f ELSE <<f, v>> \in fp.diff
     ELSE IF Stored(v) THEN <<f, Projection(v)>> \in fp.plain ELSE \A e \in fp.plain : e[1] # f

\* What is in a fingerprint was put there by the three steps that take it.
WellPrinted(fp, index, drop) ==
  /\ fp.index = IndexDigest(index, drop)
  /\ \A e \in fp.diff : e[1] \notin drop /\ Stored(index[e[1]]) /\ e[2] # index[e[1]]
  /\ \A d, e \in fp.diff : d[1] = e[1] => d = e
  /\ \A e \in fp.plain : e[1] \notin drop /\ ~Stored(index[e[1]]) /\ (e[2] # Skipped => Kinds[e[2]] = "text")
  /\ \A d, e \in fp.plain : d[1] = e[1] => d = e

\* The texts hold of file f what it is in state v.
Fits(texts, f, v) == \A x \in Versions : <<f, x>> \in texts <=> x = v /\ Reads(v) = "indexed"

\* The texts hold of file f what was read after the fingerprint and not after
\* the file was in state top.
Within(texts, fp, index, f, top) ==
  \E v, w \in States : /\ Says(fp, index, f, v) /\ Legal(f, w) /\ v <= w /\ w <= top
                       /\ Fits(texts, f, w)

-----------------------------------------------------------------------------
(* One search *)

\* The running fingerprint has come to file f.
Covers(r, index, f) ==
  \/ r.pc \in {"list", "hash"} /\ Stored(index[f])
  \/ r.pc = "hash" /\ ~Stored(index[f]) /\ f \notin r.todo

\* The fingerprint of the attempt is complete.
HasBefore(r) == r.check # "before" \/ r.pc \in {"enumerate", "others", "read", "snippets"}

\* What was read of file f, up to the state top, which the running fingerprint
\* has seen when it covers f.
FileRead(r, index, f, top) ==
  /\ Covers(r, index, f) => Says(r.fp, index, f, top)
  /\ HasBefore(r) => \E v \in States : Says(r.before, index, f, v) /\ v <= top
  /\ (r.check = "mid" /\ r.pc # "snippets") \/ (r.pc = "read" /\ f \notin r.todo)
       => Within(r.docs, r.before, index, f, top)
  /\ r.check = "mid" /\ r.pc \in {"diff", "list", "hash"} => Within(r.truth, r.before, index, f, top)
  /\ (\E d \in r.docs : d[1] = f) /\ (r.check = "last" \/ (r.pc = "snippets" /\ f \notin r.todo))
       => Within(r.lines, r.before, index, f, top)

\* The sets of a search hold what the step it is at has put there.
Shape(r, index) ==
  LET drop == r.options.drop IN
  /\ r.out = "none"
  /\ r.pc \in {"enumerate", "others", "read"} => r.check = "before"
  /\ r.pc \in {"enumerate", "others"} => r.docs = {}
  /\ r.check = "before" => r.lines = {}
  /\ r.check = "mid" => r.lines = {} \/ r.pc = "snippets"
  /\ r.pc = "snippets" => r.check = "mid"
  /\ r.pc \in {"diff", "list", "hash"} => WellPrinted(r.fp, index, drop)
  /\ r.pc = "diff" => r.fp.diff = {}
  /\ r.pc \in {"diff", "list"} => r.fp.plain = {}
  /\ r.pc = "hash" => /\ \A f \in r.todo : f \notin drop /\ ~Stored(index[f])
                      /\ \A e \in r.fp.plain : e[1] \notin r.todo
  /\ r.pc = "others" => r.todo = Tracked(index, drop)
  /\ r.pc = "read" => r.todo \subseteq Scope(index, drop)
  /\ HasBefore(r) => WellPrinted(r.before, index, drop)
  /\ \A d \in r.docs \cup r.truth : d[1] \in Scope(index, drop)
  /\ \A d \in r.lines : \E e \in r.docs : e[1] = d[1]
  /\ r.pc = "snippets" => /\ \A f \in r.todo : \E e \in r.docs : e[1] = f
                          /\ \A d \in r.lines : d[1] \notin r.todo
  /\ r.check = "last" \/ r.pc = "snippets" =>
       r.docs = Described(r.before) /\ r.truth = r.docs

SoundSearch(r, index, tree) ==
  IF r.pc = "idle" THEN r.out = "answer" => r.docs = r.truth /\ r.lines = r.truth
  ELSE /\ Shape(r, index)
       /\ \A f \in Scope(index, r.options.drop) :
            \E top \in States : Legal(f, top) /\ top <= tree[f] /\ FileRead(r, index, f, top)

\* The inductive invariant; that it holds of a state, the type of the state is
\* taken for granted.
SearchInvariant ==
  /\ \A f \in Files : Legal(f, work[f])
  /\ CacheTellsTruth
  /\ \A s \in Searchers : SoundSearch(search[s], staged, work)

-----------------------------------------------------------------------------
(* The type *)

\* A pass of an index over files takes each of them once, and none that is
\* excluded.
OnceEach(r) ==
  /\ r.pc # "idle" => r.options \in Options
  /\ \A d \in r.docs : d[1] \notin r.options.drop
  /\ \A d, e \in r.docs : d[1] = e[1] => d = e
  /\ r.pc \in {"others", "read"} => \A f \in r.todo : f \notin r.options.drop
  /\ r.pc = "read" => \A d \in r.docs : d[1] \notin r.todo
  /\ r.pc \in {"enumerate", "others"} => r.docs = {}
  /\ r.check = "before" => r.docs = {} \/ r.pc \in {"idle", "read"}

TypeInvariant == SearchType /\ \A s \in Searchers : OnceEach(search[s])

\* The versions, and what Reads tells of each.
LEMMA VersionFacts ==
  /\ Versions = 1 .. Len(Kinds) /\ Gone = Len(Kinds) + 1 /\ Len(Kinds) \in Nat \ {0}
  /\ States = 0 .. Gone
  /\ \A v \in Versions : Kinds[v] \in {"text", "skip", "link"}
  /\ \A v : Reads(v) = "indexed" <=> v \in Versions /\ Kinds[v] = "text"
  /\ \A v : Reads(v) = "missing" <=> v \notin Versions
<1>1. Versions = 1 .. Len(Kinds) /\ Gone = Len(Kinds) + 1 /\ Len(Kinds) \in Nat \ {0}
  BY SearchAssumption DEF Versions, Gone
<1>2. \A v \in Versions : Kinds[v] \in {"text", "skip", "link"}
  BY <1>1, SearchAssumption
<1> QED BY <1>1, <1>2 DEF States, Reads, Stored

\* A fingerprint that has not begun.
LEMMA EmptyPrintType == EmptyPrint \in Prints
BY DEF EmptyPrint, Prints

\* What the steps put into a search has its type.
LEMMA PartTypes ==
  ASSUME NEW index \in [Files -> States], NEW tree \in [Files -> States], NEW drop
  PROVE  /\ IndexDigest(index, drop) \in SUBSET (Files \X Versions)
         /\ DiffDigest(index, tree, drop) \in SUBSET (Files \X States)
         /\ Corpus(index, tree, drop) \in SUBSET (Files \X Versions)
         /\ Tracked(index, drop) \in SUBSET (Files \ drop)
         /\ Untracked(index, tree, drop) \in SUBSET (Files \ drop)
         /\ \A v \in Versions : Projection(v) \in Versions \cup {Skipped}
<1>1. Tracked(index, drop) \in SUBSET (Files \ drop) /\ Untracked(index, tree, drop) \in SUBSET (Files \ drop)
  BY DEF Tracked, Untracked
<1>2. IndexDigest(index, drop) \in SUBSET (Files \X Versions)
  BY DEF IndexDigest, Tracked, Stored
<1>3. DiffDigest(index, tree, drop) \in SUBSET (Files \X States)
  BY DEF DiffDigest
<1>4. Corpus(index, tree, drop) \in SUBSET (Files \X Versions)
  BY <1>1, VersionFacts DEF Corpus
<1>5. \A v \in Versions : Projection(v) \in Versions \cup {Skipped}
  BY DEF Projection
<1> QED BY <1>1, <1>2, <1>3, <1>4, <1>5

\* A search that becomes another of its type leaves the rest as it was.
LEMMA BecomesKeepsType ==
  ASSUME TypeInvariant, NEW s \in Searchers, NEW r \in Searches, OnceEach(r),
         Becomes(s, r), UNCHANGED cache
  PROVE  TypeInvariant'
<1>1. SearchType'
  BY DEF TypeInvariant, SearchType, Becomes
<1>2. \A t \in Searchers : OnceEach(search[t])'
  BY DEF TypeInvariant, SearchType, Becomes, OnceEach
<1> QED BY <1>1, <1>2 DEF TypeInvariant

\* A field of a search that gets a value of its type leaves it a search.
LEMMA FieldTypes ==
  ASSUME NEW r \in Searches
  PROVE  /\ \A x \in {"idle", "index", "diff", "list", "hash", "enumerate", "others", "read", "snippets"} :
              [r EXCEPT !.pc = x] \in Searches
         /\ \A x \in {"before", "mid", "last"} : [r EXCEPT !.check = x] \in Searches
         /\ \A x \in 0..MaxAttempts : [r EXCEPT !.attempt = x] \in Searches
         /\ \A x \in {"none", "answer", "error", "limit", "race"} : [r EXCEPT !.out = x] \in Searches
         /\ \A x \in Options \cup {Idle.options} : [r EXCEPT !.options = x] \in Searches
         /\ \A x \in Prints : [r EXCEPT !.fp = x] \in Searches /\ [r EXCEPT !.before = x] \in Searches
         /\ \A x \in SUBSET Files : [r EXCEPT !.todo = x] \in Searches
         /\ \A x \in BOOLEAN : [r EXCEPT !.hit = x] \in Searches
         /\ \A x \in SUBSET (Files \X Versions) :
              [r EXCEPT !.docs = x] \in Searches /\ [r EXCEPT !.lines = x] \in Searches
              /\ [r EXCEPT !.truth = x] \in Searches
         /\ \A x \in 0..MaxEdits : [r EXCEPT !.from = x] \in Searches
<1> HIDE DEF Idle
<1>1. \A x \in {"idle", "index", "diff", "list", "hash", "enumerate", "others", "read", "snippets"} :
        [r EXCEPT !.pc = x] \in Searches
  BY DEF Searches
<1>2. \A x \in {"before", "mid", "last"} : [r EXCEPT !.check = x] \in Searches
  BY DEF Searches
<1>7. \A x \in 0..MaxAttempts : [r EXCEPT !.attempt = x] \in Searches
  BY DEF Searches
<1>8. \A x \in {"none", "answer", "error", "limit", "race"} : [r EXCEPT !.out = x] \in Searches
  BY DEF Searches
<1>3. /\ \A x \in Options \cup {Idle.options} : [r EXCEPT !.options = x] \in Searches
      /\ \A x \in BOOLEAN : [r EXCEPT !.hit = x] \in Searches
  BY DEF Searches
<1>4. \A x \in Prints : [r EXCEPT !.fp = x] \in Searches /\ [r EXCEPT !.before = x] \in Searches
  BY DEF Searches
<1>5. /\ \A x \in SUBSET Files : [r EXCEPT !.todo = x] \in Searches
      /\ \A x \in 0..MaxEdits : [r EXCEPT !.from = x] \in Searches
  BY DEF Searches
<1>6. \A x \in SUBSET (Files \X Versions) :
        [r EXCEPT !.docs = x] \in Searches /\ [r EXCEPT !.lines = x] \in Searches
        /\ [r EXCEPT !.truth = x] \in Searches
  BY DEF Searches
<1> QED BY <1>1, <1>2, <1>3, <1>4, <1>5, <1>6, <1>7, <1>8

\* What the fields of a search are.
LEMMA FieldsOf ==
  ASSUME NEW r \in Searches
  PROVE  /\ r.pc \in {"idle", "index", "diff", "list", "hash", "enumerate", "others", "read", "snippets"}
         /\ r.check \in {"before", "mid", "last"} /\ r.attempt \in 0..MaxAttempts
         /\ r.options \in Options \cup {Idle.options} /\ r.fp \in Prints /\ r.before \in Prints
         /\ r.todo \in SUBSET Files /\ r.docs \in SUBSET (Files \X Versions)
         /\ r.lines \in SUBSET (Files \X Versions) /\ r.truth \in SUBSET (Files \X Versions)
         /\ r.from \in 0..MaxEdits
<1> HIDE DEF Idle
<1> QED BY DEF Searches

\* The search that starts a fingerprint.
LEMMA PrintingType ==
  ASSUME NEW r \in Searches, NEW check \in {"before", "mid", "last"}
  PROVE  /\ Printing(r, check) \in Searches
         /\ Printing(r, check).pc = "index" /\ Printing(r, check).check = check
         /\ Printing(r, check).fp = EmptyPrint /\ Printing(r, check).todo = {}
         /\ Printing(r, check).out = r.out /\ Printing(r, check).options = r.options
         /\ Printing(r, check).docs = r.docs /\ Printing(r, check).lines = r.lines
         /\ Printing(r, check).truth = r.truth /\ Printing(r, check).before = r.before
         /\ Printing(r, check).from = r.from /\ Printing(r, check).attempt = r.attempt
<1>1. Printing(r, check) \in Searches
  BY EmptyPrintType, FieldTypes DEF Printing
<1>2. /\ Printing(r, check).pc = "index" /\ Printing(r, check).check = check
      /\ Printing(r, check).fp = EmptyPrint /\ Printing(r, check).todo = {}
  BY DEF Printing, Searches
<1>3. /\ Printing(r, check).out = r.out /\ Printing(r, check).options = r.options
      /\ Printing(r, check).docs = r.docs /\ Printing(r, check).lines = r.lines
  BY DEF Printing, Searches
<1>4. /\ Printing(r, check).truth = r.truth /\ Printing(r, check).before = r.before
      /\ Printing(r, check).from = r.from /\ Printing(r, check).attempt = r.attempt
  BY DEF Printing, Searches
<1> QED BY <1>1, <1>2, <1>3, <1>4

\* The search that begins, ends or starts over.
LEMMA RecordTypes ==
  ASSUME NEW r \in Searches, r.options \in Options
  PROVE  /\ \A check \in {"before", "mid", "last"} :
              /\ Printing(r, check) \in Searches
              /\ \A left \in SUBSET Files : Then(r, left, check) \in Searches
         /\ \A out \in {"answer", "error", "limit", "race"} :
              /\ Ended(r, out) \in Searches /\ (OnceEach(r) => OnceEach(Ended(r, out)))
              /\ Fails(r, out) \in Searches /\ OnceEach(Fails(r, out))
         /\ \A n \in 1..MaxAttempts :
              /\ Attempt(n, r.options, r.from) \in Searches
              /\ OnceEach(Attempt(n, r.options, r.from))
<1>0. MaxAttempts = 2 /\ 0 \in 0..MaxEdits
  BY SearchAssumption DEF MaxAttempts
<1>1. \A check \in {"before", "mid", "last"} : Printing(r, check) \in Searches
  BY PrintingType
<1>2. \A check \in {"before", "mid", "last"}, left \in SUBSET Files : Then(r, left, check) \in Searches
  BY <1>1 DEF Then, Searches
<1>3. Idle \in Searches
  BY <1>0, EmptyPrintType DEF Idle, Searches
<1>4. ASSUME NEW out \in {"answer", "error", "limit", "race"}
      PROVE  /\ Ended(r, out) \in Searches /\ (OnceEach(r) => OnceEach(Ended(r, out)))
             /\ Fails(r, out) \in Searches /\ OnceEach(Fails(r, out))
  <2>1. Ended(r, out) \in Searches
    <3> DEFINE o == [Idle EXCEPT !.out = out, !.options = r.options, !.from = r.from]
               p == [o EXCEPT !.docs = r.docs]
               q == [p EXCEPT !.lines = r.lines]
    <3>1. o \in Searches
      BY <1>3, FieldTypes, FieldsOf
    <3>2. Ended(r, out) = [q EXCEPT !.truth = r.truth]
      BY DEF Ended
    <3>3. r.docs \in SUBSET (Files \X Versions) /\ r.lines \in SUBSET (Files \X Versions)
          /\ r.truth \in SUBSET (Files \X Versions)
      BY FieldsOf
    <3> HIDE DEF o
    <3>4. p \in Searches
      BY <3>1, <3>3, FieldTypes
    <3> HIDE DEF p
    <3>5. q \in Searches
      BY <3>3, <3>4, FieldTypes
    <3> HIDE DEF q
    <3> QED BY <3>2, <3>3, <3>5, FieldTypes
  <2>2. Fails(r, out) \in Searches
    BY <2>1, FieldTypes DEF Fails
  <2>3. /\ Ended(r, out).pc = "idle" /\ Ended(r, out).options = r.options
        /\ Ended(r, out).docs = r.docs
        /\ Fails(r, out).pc = "idle" /\ Fails(r, out).docs = {}
    BY DEF Ended, Fails, Idle
  <2> QED BY <2>1, <2>2, <2>3 DEF OnceEach
<1>5. ASSUME NEW n \in 1..MaxAttempts
      PROVE  /\ Attempt(n, r.options, r.from) \in Searches
             /\ OnceEach(Attempt(n, r.options, r.from))
  <2>1. Attempt(n, r.options, r.from) \in Searches
    <3>1. n \in 0..MaxAttempts /\ r.options \in Options \cup {Idle.options} /\ r.from \in 0..MaxEdits
      BY <1>0 DEF Searches
    <3> HIDE DEF Idle
    <3> QED BY <1>3, <3>1, FieldTypes DEF Attempt
  <2>2. /\ Attempt(n, r.options, r.from).docs = {} /\ Attempt(n, r.options, r.from).pc = "index"
        /\ Attempt(n, r.options, r.from).options = r.options
    BY DEF Attempt, Idle
  <2> QED BY <2>1, <2>2 DEF OnceEach
<1> QED BY <1>1, <1>2, <1>4, <1>5

\* The steps that take a fingerprint.
LEMMA PrintKeepsType ==
  ASSUME TypeInvariant, NEW s \in Searchers,
         PrintIndex(s) \/ PrintDiff(s) \/ PrintList(s) \/ PrintHash(s)
  PROVE  TypeInvariant'
<1> DEFINE r == search[s]
           drop == r.options.drop
<1>0. r \in Searches /\ OnceEach(r) /\ staged \in [Files -> States] /\ work \in [Files -> States]
  BY DEF TypeInvariant, SearchType
<1>1. /\ IndexDigest(staged, drop) \in SUBSET (Files \X Versions)
      /\ DiffDigest(staged, work, drop) \in SUBSET (Files \X States)
      /\ Corpus(staged, work, drop) \in SUBSET (Files \X Versions)
      /\ Untracked(staged, work, drop) \in SUBSET Files
      /\ \A v \in Versions : Projection(v) \in Versions \cup {Skipped}
  BY <1>0, PartTypes
<1> HIDE DEF r, drop
<1>2. CASE PrintIndex(s)
  <2> DEFINE fp == [EmptyPrint EXCEPT !.index = IndexDigest(staged, drop)]
             truth == CASE r.check = "before" -> {}
                        [] r.check = "mid"    -> Corpus(staged, work, drop)
                        [] r.check = "last"   -> r.truth
             q == [r EXCEPT !.pc = "diff", !.fp = fp, !.truth = truth]
  <2>1. fp \in Prints /\ truth \in SUBSET (Files \X Versions)
    BY <1>0, <1>1, EmptyPrintType DEF Prints, Searches
  <2>2. Becomes(s, q) /\ UNCHANGED cache /\ r.pc = "index"
    BY <1>2 DEF PrintIndex, At, r, drop
  <2> HIDE DEF fp, truth
  <2>3. q \in Searches
    BY <1>0, <2>1, FieldTypes
  <2>4. OnceEach(q)
    BY <1>0, <2>2 DEF OnceEach, Searches
  <2> QED BY <2>2, <2>3, <2>4, BecomesKeepsType
<1>3. CASE PrintDiff(s)
  <2> DEFINE fp == [r.fp EXCEPT !.diff = DiffDigest(staged, work, drop)]
             q == [r EXCEPT !.pc = "list", !.fp = fp]
  <2>1. fp \in Prints
    BY <1>0, <1>1 DEF Prints, Searches
  <2>2. Becomes(s, q) /\ UNCHANGED cache /\ r.pc = "diff"
    BY <1>3 DEF PrintDiff, At, r, drop
  <2> HIDE DEF fp
  <2>3. q \in Searches
    BY <1>0, <2>1, FieldTypes
  <2>4. OnceEach(q)
    BY <1>0, <2>2 DEF OnceEach, Searches
  <2> QED BY <2>2, <2>3, <2>4, BecomesKeepsType
<1>4. CASE PrintList(s)
  <2> DEFINE q == [r EXCEPT !.pc = "hash", !.todo = Untracked(staged, work, drop)]
  <2>1. Becomes(s, q) /\ UNCHANGED cache /\ r.pc = "list"
    BY <1>4 DEF PrintList, At, r, drop
  <2>2. q \in Searches
    BY <1>0, <1>1, FieldTypes
  <2>3. OnceEach(q)
    BY <1>0, <2>1 DEF OnceEach, Searches
  <2> QED BY <2>1, <2>2, <2>3, BecomesKeepsType
<1>5. CASE PrintHash(s)
  <2>1. PICK f \in Files :
          /\ f \in r.todo
          /\ Becomes(s, IF Reads(work[f]) = "missing" THEN Fails(r, "error")
                        ELSE [r EXCEPT !.todo = r.todo \ {f},
                                       !.fp = [r.fp EXCEPT !.plain = r.fp.plain \cup {<<f, Projection(work[f])>>}]])
    BY <1>5 DEF PrintHash, NextOf, r
  <2>2. r.pc = "hash" /\ UNCHANGED cache
    BY <1>5 DEF PrintHash, At, r
  <2>3. CASE Reads(work[f]) = "missing"
    <3>1. r.options \in Options
      BY <1>0, <2>2 DEF OnceEach
    <3>2. Becomes(s, Fails(r, "error"))
      BY <2>1, <2>3
    <3>3. Fails(r, "error") \in Searches /\ OnceEach(Fails(r, "error"))
      BY <1>0, <3>1, RecordTypes
    <3> QED BY <2>2, <3>2, <3>3, BecomesKeepsType
  <2>4. CASE Reads(work[f]) # "missing"
    <3> DEFINE fp == [r.fp EXCEPT !.plain = r.fp.plain \cup {<<f, Projection(work[f])>>}]
               q == [r EXCEPT !.todo = r.todo \ {f}, !.fp = fp]
    <3>1. work[f] \in Versions
      BY <1>0, <2>4, VersionFacts
    <3>2. fp \in Prints
      BY <1>0, <1>1, <2>1, <3>1 DEF Prints, Searches
    <3>3. Becomes(s, q)
      BY <2>1, <2>4
    <3> HIDE DEF fp
    <3>4. q \in Searches
      BY <1>0, <2>1, <3>2, FieldTypes, FieldsOf
    <3>5. OnceEach(q)
      BY <1>0, <2>2 DEF OnceEach, Searches
    <3> QED BY <2>2, <3>3, <3>4, <3>5, BecomesKeepsType
  <2> QED BY <2>3, <2>4
<1> QED BY <1>2, <1>3, <1>4, <1>5

\* The search after the last file of a pass, and before.
LEMMA ThenFacts ==
  ASSUME NEW r \in Searches, NEW left \in SUBSET Files, NEW check \in {"mid", "last"}
  PROVE  /\ Then(r, left, check) \in Searches
         /\ Then(r, left, check).options = r.options /\ Then(r, left, check).docs = r.docs
         /\ left = {} => /\ Then(r, left, check).pc = "index" /\ Then(r, left, check).check = check
         /\ left # {} => /\ Then(r, left, check).pc = r.pc /\ Then(r, left, check).check = r.check
         /\ Then(r, left, check).todo = left
         /\ Then(r, left, check).out = r.out /\ Then(r, left, check).before = r.before
         /\ Then(r, left, check).lines = r.lines /\ Then(r, left, check).truth = r.truth
         /\ Then(r, left, check).from = r.from /\ Then(r, left, check).attempt = r.attempt
<1>1. CASE left = {}
  BY <1>1, PrintingType DEF Then
<1>2. CASE left # {}
  <2> DEFINE q == [r EXCEPT !.todo = left]
  <2>1. Then(r, left, check) = q
    BY <1>2 DEF Then
  <2>2. q \in Searches /\ q.todo = left /\ q.options = r.options /\ q.docs = r.docs /\ q.pc = r.pc /\ q.check = r.check
    BY DEF Searches
  <2>3. /\ q.out = r.out /\ q.before = r.before /\ q.lines = r.lines /\ q.truth = r.truth
        /\ q.from = r.from /\ q.attempt = r.attempt
    BY DEF Searches
  <2> QED BY <1>2, <2>1, <2>2, <2>3
<1> QED BY <1>1, <1>2

\* The steps that find and read the files of an index.
LEMMA BuildKeepsType ==
  ASSUME TypeInvariant, NEW s \in Searchers,
         Load(s) \/ Enumerate(s) \/ Others(s) \/ ReadFile(s)
  PROVE  TypeInvariant'
<1> DEFINE r == search[s]
           drop == r.options.drop
<1>0. r \in Searches /\ OnceEach(r) /\ staged \in [Files -> States] /\ work \in [Files -> States]
  BY DEF TypeInvariant, SearchType
<1>1. /\ Tracked(staged, drop) \in SUBSET (Files \ drop)
      /\ Untracked(staged, work, drop) \in SUBSET (Files \ drop)
  BY <1>0, PartTypes
<1> HIDE DEF r
<1>2. CASE Load(s)
  <2>1. r.pc = "hash" /\ r.check = "before" /\ r.options \in Options /\ r.docs = {} /\ UNCHANGED cache
    BY <1>0, <1>2 DEF Load, Printed, At, r, OnceEach
  <2>2. CASE Matches(cache, r.fp, r.options)
    <3> DEFINE q == [r EXCEPT !.before = r.fp, !.hit = TRUE, !.docs = cache.docs]
    <3>1. Becomes(s, Printing(q, "mid"))
      BY <1>2, <2>2 DEF Load, r
    <3>2. /\ cache # NoCache /\ cache.drop = drop
          /\ \A d \in cache.docs : d \in (Files \ drop) \X Versions
          /\ \A d, e \in cache.docs : d[1] = e[1] => d = e
      BY <2>2 DEF Matches, TypeInvariant, SearchType
    <3>3. q \in Searches
      <4>1. cache.docs \in SUBSET (Files \X Versions)
        BY <3>2
      <4> QED BY <1>0, <4>1, FieldTypes, FieldsOf
    <3>4. q.docs = cache.docs /\ q.options = r.options
      BY <1>0 DEF Searches
    <3> HIDE DEF q
    <3>5. Printing(q, "mid") \in Searches
      BY <3>3, PrintingType
    <3>6. OnceEach(Printing(q, "mid"))
      BY <2>1, <3>2, <3>3, <3>4, PrintingType DEF OnceEach
    <3> QED BY <2>1, <3>1, <3>5, <3>6, BecomesKeepsType
  <2>3. CASE ~Matches(cache, r.fp, r.options)
    <3> DEFINE q == [r EXCEPT !.pc = "enumerate", !.before = r.fp]
    <3>1. Becomes(s, q)
      BY <1>2, <2>3 DEF Load, r
    <3>2. q \in Searches
      BY <1>0, FieldTypes, FieldsOf
    <3>3. OnceEach(q)
      BY <1>0, <2>1 DEF OnceEach, Searches
    <3> QED BY <2>1, <3>1, <3>2, <3>3, BecomesKeepsType
  <2> QED BY <2>2, <2>3
<1>3. CASE Enumerate(s)
  <2> DEFINE q == [r EXCEPT !.pc = "others", !.todo = Tracked(staged, drop)]
  <2>1. Becomes(s, q) /\ UNCHANGED cache /\ r.pc = "enumerate"
    BY <1>3 DEF Enumerate, At, r
  <2>2. q \in Searches
    BY <1>0, <1>1, FieldTypes
  <2>3. OnceEach(q)
    BY <1>0, <1>1, <2>1 DEF OnceEach, Searches
  <2> QED BY <2>1, <2>2, <2>3, BecomesKeepsType
<1>4. CASE Others(s)
  <2> DEFINE paths == r.todo \cup Untracked(staged, work, drop)
             q == [r EXCEPT !.pc = "read"]
  <2>1. r.pc = "others" /\ r.options \in Options /\ r.docs = {} /\ UNCHANGED cache
    BY <1>0, <1>4 DEF Others, At, r, OnceEach
  <2>2. Becomes(s, Fails(r, "limit")) \/ Becomes(s, Then(q, paths, "mid"))
    BY <1>4 DEF Others, r
  <2>3. paths \in SUBSET Files /\ \A f \in paths : f \notin drop
    BY <1>0, <1>1, <2>1 DEF OnceEach, Searches
  <2>4. q \in Searches /\ q.docs = {} /\ q.options = r.options /\ q.pc = "read" /\ q.check = r.check
    BY <1>0, <2>1 DEF Searches
  <2> HIDE DEF q, paths
  <2>5. Then(q, paths, "mid") \in Searches
    BY <2>3, <2>4, ThenFacts
  <2>6. OnceEach(Then(q, paths, "mid"))
    <3>1. /\ Then(q, paths, "mid").docs = {} /\ Then(q, paths, "mid").options = r.options
          /\ Then(q, paths, "mid").pc \in {"index", "read"} /\ Then(q, paths, "mid").todo = paths
      BY <2>3, <2>4, ThenFacts
    <3> QED BY <2>1, <2>3, <3>1 DEF OnceEach
  <2>7. Fails(r, "limit") \in Searches /\ OnceEach(Fails(r, "limit"))
    BY <1>0, <2>1, RecordTypes
  <2> QED BY <2>1, <2>2, <2>5, <2>6, <2>7, BecomesKeepsType
<1>5. CASE ReadFile(s)
  <2>1. PICK f \in Files :
          f \in r.todo /\ Becomes(s, Then([r EXCEPT !.docs = r.docs \cup TextOf(f)], r.todo \ {f}, "mid"))
    BY <1>5 DEF ReadFile, NextOf, r
  <2> DEFINE q == [r EXCEPT !.docs = r.docs \cup TextOf(f)]
             left == r.todo \ {f}
  <2>2. r.pc = "read" /\ UNCHANGED cache /\ r.options \in Options
    BY <1>0, <1>5 DEF ReadFile, At, r, OnceEach
  <2>3. TextOf(f) \in SUBSET ({f} \X Versions) /\ \A d, e \in TextOf(f) : d = e
    BY VersionFacts DEF TextOf
  <2>4. q \in Searches /\ q.docs = r.docs \cup TextOf(f) /\ q.options = r.options /\ q.pc = "read"
    BY <1>0, <2>2, <2>3 DEF Searches
  <2>5. left \in SUBSET Files
    BY <1>0 DEF Searches
  <2>6. /\ \A d \in q.docs : d[1] \notin drop /\ d[1] \notin left
        /\ \A d, e \in q.docs : d[1] = e[1] => d = e
        /\ \A g \in left : g \notin drop
    <3>1. f \notin drop /\ \A d \in TextOf(f) : d[1] = f
      BY <1>0, <2>1, <2>2, <2>3 DEF OnceEach
    <3>2. \A d \in r.docs : d[1] \notin drop /\ d[1] \notin r.todo
      BY <1>0, <2>2 DEF OnceEach
    <3>3. \A d, e \in r.docs : d[1] = e[1] => d = e
      BY <1>0 DEF OnceEach
    <3>4. \A g \in left : g \notin drop
      BY <1>0, <2>2 DEF OnceEach
    <3> HIDE DEF q
    <3> QED BY <2>1, <2>3, <2>4, <3>1, <3>2, <3>3, <3>4
  <2> HIDE DEF q, left
  <2>7. Then(q, left, "mid") \in Searches
    BY <2>4, <2>5, ThenFacts
  <2>8. OnceEach(Then(q, left, "mid"))
    <3>1. /\ Then(q, left, "mid").docs = q.docs /\ Then(q, left, "mid").options = r.options
          /\ Then(q, left, "mid").todo = left
          /\ \/ Then(q, left, "mid").pc = "index" /\ Then(q, left, "mid").check = "mid"
             \/ Then(q, left, "mid").pc = "read"
      BY <2>4, <2>5, ThenFacts
    <3> QED BY <2>2, <2>6, <3>1 DEF OnceEach
  <2> QED BY <2>1, <2>2, <2>7, <2>8, BecomesKeepsType DEF q, left
<1> QED BY <1>2, <1>3, <1>4, <1>5

\* The steps that end an attempt, and those after the index.
LEMMA EndKeepsType ==
  ASSUME TypeInvariant, NEW s \in Searchers,
         Race(s) \/ Rank(s) \/ Snippet(s) \/ Answer(s)
  PROVE  TypeInvariant'
<1> DEFINE r == search[s]
<1>0. r \in Searches /\ OnceEach(r) /\ work \in [Files -> States]
  BY DEF TypeInvariant, SearchType
<1>1. r.pc # "idle"
  BY DEF Race, Rank, Snippet, Answer, Printed, At
<1>2. r.options \in Options
  BY <1>0, <1>1 DEF OnceEach
<1> HIDE DEF r
<1>3. CASE Race(s)
  <2>1. Becomes(s, StartOver(r)) /\ UNCHANGED cache
    BY <1>3 DEF Race, r
  <2>2. r.attempt \in 0..MaxAttempts /\ MaxAttempts = 2
    BY <1>0 DEF Searches, MaxAttempts
  <2>3. StartOver(r) \in Searches /\ OnceEach(StartOver(r))
    <3>1. CASE r.attempt < MaxAttempts
      <4>1. r.attempt + 1 \in 1..MaxAttempts
        BY <2>2, <3>1
      <4> QED BY <1>0, <1>2, <3>1, <4>1, RecordTypes DEF StartOver
    <3>2. CASE ~(r.attempt < MaxAttempts)
      BY <1>0, <1>2, <3>2, RecordTypes DEF StartOver
    <3> QED BY <3>1, <3>2
  <2> QED BY <2>1, <2>3, BecomesKeepsType
<1>4. CASE Rank(s)
  <2> DEFINE q == [r EXCEPT !.pc = "snippets"]
             left == {d[1] : d \in r.docs}
  <2>1. Becomes(s, Then(q, left, "last")) /\ UNCHANGED cache
    BY <1>4 DEF Rank, r
  <2>2. /\ q \in Searches /\ q.docs = r.docs /\ q.options = r.options
        /\ q.pc = "snippets" /\ q.check = r.check /\ r.check = "mid"
    BY <1>0, <1>4 DEF Searches, Rank, Printed, r
  <2>3. left \in SUBSET Files
    BY <1>0 DEF Searches
  <2> HIDE DEF q, left
  <2>4. Then(q, left, "last") \in Searches
    BY <2>2, <2>3, ThenFacts
  <2>5. OnceEach(Then(q, left, "last"))
    <3>1. /\ Then(q, left, "last").docs = r.docs /\ Then(q, left, "last").options = r.options
          /\ Then(q, left, "last").pc \in {"index", "snippets"}
          /\ Then(q, left, "last").check \in {"mid", "last"}
      BY <2>2, <2>3, ThenFacts
    <3> QED BY <1>0, <1>2, <3>1 DEF OnceEach
  <2> QED BY <2>1, <2>4, <2>5, BecomesKeepsType
<1>5. CASE Snippet(s)
  <2>1. PICK f \in Files :
          f \in r.todo /\ Becomes(s, Then([r EXCEPT !.lines = r.lines \cup TextOf(f)], r.todo \ {f}, "last"))
    BY <1>5 DEF Snippet, NextOf, r
  <2> DEFINE q == [r EXCEPT !.lines = r.lines \cup TextOf(f)]
             left == r.todo \ {f}
  <2>2. r.pc = "snippets" /\ UNCHANGED cache
    BY <1>5 DEF Snippet, At, r
  <2>3. TextOf(f) \in SUBSET (Files \X Versions)
    BY VersionFacts DEF TextOf
  <2>4. /\ q \in Searches /\ q.docs = r.docs /\ q.options = r.options
        /\ q.pc = "snippets" /\ q.check = r.check
    BY <1>0, <2>2, <2>3 DEF Searches
  <2>5. left \in SUBSET Files
    BY <1>0 DEF Searches
  <2> HIDE DEF q, left
  <2>6. Then(q, left, "last") \in Searches
    BY <2>4, <2>5, ThenFacts
  <2>7. OnceEach(Then(q, left, "last"))
    <3>1. /\ Then(q, left, "last").docs = r.docs /\ Then(q, left, "last").options = r.options
          /\ \/ Then(q, left, "last").pc = "index" /\ Then(q, left, "last").check = "last"
             \/ Then(q, left, "last").pc = "snippets" /\ Then(q, left, "last").check = r.check
      BY <2>4, <2>5, ThenFacts
    <3> QED BY <1>0, <1>2, <2>2, <3>1 DEF OnceEach
  <2> QED BY <2>1, <2>2, <2>6, <2>7, BecomesKeepsType DEF q, left
<1>6. CASE Answer(s)
  <2>1. Becomes(s, Ended(r, "answer"))
    BY <1>6 DEF Answer, r
  <2>2. Ended(r, "answer") \in Searches /\ OnceEach(Ended(r, "answer"))
    BY <1>0, <1>2, RecordTypes
  <2>3. /\ work' = work /\ staged' = staged /\ edits' = edits /\ started' = started
        /\ search' = [search EXCEPT ![s] = Ended(r, "answer")]
    BY <2>1 DEF Becomes
  <2>4. cache' = cache \/ cache' = Entry(s)
    BY <1>6 DEF Answer
  <2>5. /\ Entry(s).fp \in Prints /\ Entry(s).drop = r.options.drop
        /\ \A d \in Entry(s).docs : d \in (Files \ Entry(s).drop) \X Versions
        /\ \A d, e \in Entry(s).docs : d[1] = e[1] => d = e
    BY <1>0 DEF Entry, OnceEach, Searches, r
  <2>6. SearchType'
    BY <1>2, <2>2, <2>3, <2>4, <2>5 DEF TypeInvariant, SearchType
  <2>7. \A t \in Searchers : OnceEach(search[t])'
    BY <2>2, <2>3 DEF TypeInvariant, SearchType, OnceEach
  <2> QED BY <2>6, <2>7 DEF TypeInvariant
<1> QED BY <1>3, <1>4, <1>5, <1>6

\* A search begins, or the repository and the cache file change.
LEMMA OthersKeepType ==
  ASSUME TypeInvariant, (\E s \in Searchers : Begin(s)) \/ (\E f \in Files : Edit(f) \/ Stage(f)) \/ Spoil
  PROVE  TypeInvariant'
<1>1. ASSUME NEW s \in Searchers, Begin(s) PROVE TypeInvariant'
  <2>1. PICK options \in Options : search' = [search EXCEPT ![s] = Attempt(1, options, edits)]
    BY <1>1 DEF Begin
  <2>2. [Idle EXCEPT !.options = options, !.from = edits] \in Searches
    <3>1. edits \in 0..MaxEdits /\ 0 \in 0..MaxEdits /\ 0 \in 0..MaxAttempts
      BY SearchAssumption DEF TypeInvariant, SearchType, MaxAttempts
    <3> QED BY <3>1, EmptyPrintType DEF Idle, Searches
  <2>3. Attempt(1, options, edits) \in Searches /\ OnceEach(Attempt(1, options, edits))
    <3> DEFINE r == [Idle EXCEPT !.options = options, !.from = edits]
    <3>1. r.options = options /\ r.from = edits
      BY DEF Idle
    <3> HIDE DEF r
    <3>2. 1 \in 1..MaxAttempts
      BY DEF MaxAttempts
    <3> QED BY <2>2, <3>1, <3>2, RecordTypes DEF r
  <2>4. started' \in 0..MaxSearches
    BY <1>1, SearchAssumption DEF Begin, TypeInvariant, SearchType
  <2>5. SearchType'
    BY <1>1, <2>1, <2>3, <2>4 DEF Begin, TypeInvariant, SearchType
  <2>6. \A t \in Searchers : OnceEach(search[t])'
    BY <2>1, <2>3 DEF TypeInvariant, SearchType, OnceEach
  <2> QED BY <2>5, <2>6 DEF TypeInvariant
<1>2. ASSUME NEW f \in Files, Edit(f) \/ Stage(f) PROVE TypeInvariant'
  <2>1. work' \in [Files -> States] /\ staged' \in [Files -> States] /\ edits' \in 0..MaxEdits
    BY <1>2, SearchAssumption DEF Edit, Stage, TypeInvariant, SearchType
  <2> QED BY <1>2, <2>1 DEF Edit, Stage, TypeInvariant, SearchType, OnceEach
<1>3. CASE Spoil
  BY <1>3 DEF Spoil, TypeInvariant, SearchType, OnceEach
<1> QED BY <1>1, <1>2, <1>3

\* The type of the state and what a pass over files keeps are inductive.
THEOREM TypeInvariantHolds == Spec => []TypeInvariant
<1>1. Init => TypeInvariant
  <2> SUFFICES ASSUME Init PROVE TypeInvariant
    OBVIOUS
  <2>1. 0 \in 0..MaxEdits /\ 0 \in 0..MaxSearches /\ 0 \in 0..MaxAttempts
    BY SearchAssumption DEF MaxAttempts
  <2>2. Idle \in Searches /\ OnceEach(Idle)
    BY <2>1, EmptyPrintType DEF Idle, Searches, OnceEach
  <2>3. work \in [Files -> States] /\ staged \in [Files -> States]
    BY VersionFacts DEF Init
  <2>4. search \in [Searchers -> Searches] /\ \A s \in Searchers : OnceEach(search[s])
    BY <2>2 DEF Init
  <2> QED BY <2>1, <2>3, <2>4 DEF Init, TypeInvariant, SearchType
<1>2. TypeInvariant /\ [Next]_vars => TypeInvariant'
  <2> SUFFICES ASSUME TypeInvariant, [Next]_vars PROVE TypeInvariant'
    OBVIOUS
  <2>1. CASE UNCHANGED vars
    BY <2>1 DEF vars, TypeInvariant, SearchType, OnceEach
  <2> QED
    BY <2>1, PrintKeepsType, BuildKeepsType, EndKeepsType, OthersKeepType DEF Next, Step
<1> QED BY <1>1, <1>2, PTL DEF Spec

\* The state of every search, of the tree and of the cache keeps its type, and
\* no index in the cache holds a file twice or one its options exclude.
THEOREM SearchTypeCorrect == Spec => []SearchType
BY TypeInvariantHolds, PTL DEF TypeInvariant

-----------------------------------------------------------------------------
(* A race takes an edit *)

FullPrint(index, tree, drop) ==
  [index |-> IndexDigest(index, drop), diff |-> DiffDigest(index, tree, drop),
   plain |-> {<<f, Projection(tree[f])>> : f \in Untracked(index, tree, drop)}]

\* All that the fingerprints of a search have seen is still so.
Quiet(r, index, tree) ==
  LET drop == r.options.drop IN
  /\ r.pc \in {"diff", "list", "hash"} => r.fp.index = IndexDigest(index, drop)
  /\ r.pc \in {"list", "hash"} => r.fp.diff = DiffDigest(index, tree, drop)
  /\ r.pc \in {"diff", "list"} => r.fp.plain = {}
  /\ r.pc = "hash" =>
       /\ r.todo \subseteq Untracked(index, tree, drop)
       /\ r.fp.plain = {<<f, Projection(tree[f])>> : f \in Untracked(index, tree, drop) \ r.todo}
  /\ HasBefore(r) => r.before = FullPrint(index, tree, drop)

\* Every attempt but the first began after an edit, and as long as there was no
\* further one the attempt finds everything as it was.
Steady(r) ==
  r.pc # "idle" =>
    /\ r.out = "none" /\ r.attempt >= 1 /\ r.from + r.attempt <= edits + 1
    /\ r.from + r.attempt = edits + 1 => Quiet(r, staged, work)

RaceInvariant == TypeInvariant /\ \A s \in Searchers : Steady(search[s])

\* An attempt has a number and the edits before it a count.
LEMMA Counts ==
  ASSUME TypeInvariant
  PROVE  /\ edits \in Nat
         /\ \A s \in Searchers : search[s].from \in Nat /\ search[s].attempt \in Nat
<1>1. edits \in Nat
  BY SearchAssumption DEF TypeInvariant, SearchType
<1>2. ASSUME NEW s \in Searchers PROVE search[s].from \in Nat /\ search[s].attempt \in Nat
  <2>1. search[s] \in Searches
    BY DEF TypeInvariant, SearchType
  <2> QED BY <2>1, SearchAssumption DEF Searches, MaxAttempts
<1> QED BY <1>1, <1>2

\* A step of one search leaves the count of the others.
LEMMA BecomesKeepsRace ==
  ASSUME RaceInvariant, TypeInvariant', NEW s \in Searchers, NEW r, Steady(r), Becomes(s, r)
  PROVE  RaceInvariant'
<1>1. search'[s] = r /\ \A t \in Searchers \ {s} : search'[t] = search[t]
  BY DEF RaceInvariant, TypeInvariant, SearchType, Becomes
<1>2. staged' = staged /\ work' = work /\ edits' = edits
  BY DEF Becomes
<1>3. ASSUME NEW t \in Searchers PROVE Steady(search[t])'
  <2>1. CASE t = s
    BY <1>1, <1>2, <2>1 DEF Steady, RaceInvariant
  <2>2. CASE t # s
    BY <1>1, <1>2, <2>2 DEF Steady, RaceInvariant
  <2> QED BY <2>1, <2>2
<1> QED BY <1>3 DEF RaceInvariant

\* A search that goes on in the same attempt.
LEMMA SameAttempt ==
  ASSUME NEW r, NEW q, Steady(r), r.pc # "idle",
         q.out = r.out, q.from = r.from, q.attempt = r.attempt,
         Quiet(r, staged, work) => Quiet(q, staged, work)
  PROVE  Steady(q)
BY DEF Steady

\* A fingerprint moves no count.
LEMMA PrintKeepsRace ==
  ASSUME RaceInvariant, TypeInvariant', NEW s \in Searchers,
         PrintIndex(s) \/ PrintDiff(s) \/ PrintList(s) \/ PrintHash(s)
  PROVE  RaceInvariant'
<1> DEFINE r == search[s]
           drop == r.options.drop
<1>0. r \in Searches /\ Steady(r) /\ OnceEach(r) /\ staged \in [Files -> States] /\ work \in [Files -> States]
  BY DEF RaceInvariant, TypeInvariant, SearchType
<1> HIDE DEF r
<1>2. CASE PrintIndex(s)
  <2> DEFINE fp == [EmptyPrint EXCEPT !.index = IndexDigest(staged, drop)]
             truth == CASE r.check = "before" -> {}
                        [] r.check = "mid"    -> Corpus(staged, work, drop)
                        [] r.check = "last"   -> r.truth
             q == [r EXCEPT !.pc = "diff", !.fp = fp, !.truth = truth]
  <2>1. fp.index = IndexDigest(staged, drop) /\ fp.plain = {}
    BY DEF EmptyPrint
  <2>2. Becomes(s, q) /\ r.pc = "index"
    BY <1>2 DEF PrintIndex, At, r
  <2> HIDE DEF fp, truth
  <2>3. q.pc = "diff" /\ q.fp = fp /\ q.check = r.check /\ q.before = r.before /\ q.options = r.options
    BY <1>0 DEF Searches
  <2>4. q.out = r.out /\ q.from = r.from /\ q.attempt = r.attempt
    BY <1>0 DEF Searches
  <2> HIDE DEF q
  <2>5. Quiet(r, staged, work) => Quiet(q, staged, work)
    BY <2>1, <2>2, <2>3 DEF Quiet, HasBefore
  <2> QED BY <1>0, <2>2, <2>4, <2>5, SameAttempt, BecomesKeepsRace
<1>3. CASE PrintDiff(s)
  <2> DEFINE fp == [r.fp EXCEPT !.diff = DiffDigest(staged, work, drop)]
             q == [r EXCEPT !.pc = "list", !.fp = fp]
  <2>1. fp.index = r.fp.index /\ fp.diff = DiffDigest(staged, work, drop) /\ fp.plain = r.fp.plain
    BY <1>0 DEF Searches, Prints
  <2>2. Becomes(s, q) /\ r.pc = "diff"
    BY <1>3 DEF PrintDiff, At, r
  <2> HIDE DEF fp
  <2>3. q.pc = "list" /\ q.fp = fp /\ q.check = r.check /\ q.before = r.before /\ q.options = r.options
    BY <1>0 DEF Searches
  <2>4. q.out = r.out /\ q.from = r.from /\ q.attempt = r.attempt
    BY <1>0 DEF Searches
  <2> HIDE DEF q
  <2>5. Quiet(r, staged, work) => Quiet(q, staged, work)
    BY <2>1, <2>2, <2>3 DEF Quiet, HasBefore
  <2> QED BY <1>0, <2>2, <2>4, <2>5, SameAttempt, BecomesKeepsRace
<1>4. CASE PrintList(s)
  <2> DEFINE q == [r EXCEPT !.pc = "hash", !.todo = Untracked(staged, work, drop)]
  <2>2. Becomes(s, q) /\ r.pc = "list"
    BY <1>4 DEF PrintList, At, r
  <2>3. /\ q.pc = "hash" /\ q.fp = r.fp /\ q.check = r.check /\ q.before = r.before /\ q.options = r.options
        /\ q.todo = Untracked(staged, work, drop)
    BY <1>0 DEF Searches
  <2>4. q.out = r.out /\ q.from = r.from /\ q.attempt = r.attempt
    BY <1>0 DEF Searches
  <2> HIDE DEF q
  <2>5. Quiet(r, staged, work) => Quiet(q, staged, work)
    BY <2>2, <2>3 DEF Quiet, HasBefore
  <2> QED BY <1>0, <2>2, <2>4, <2>5, SameAttempt, BecomesKeepsRace
<1>5. CASE PrintHash(s)
  <2>1. PICK f \in Files :
          /\ f \in r.todo
          /\ Becomes(s, IF Reads(work[f]) = "missing" THEN Fails(r, "error")
                        ELSE [r EXCEPT !.todo = r.todo \ {f},
                                       !.fp = [r.fp EXCEPT !.plain = r.fp.plain \cup {<<f, Projection(work[f])>>}]])
    BY <1>5 DEF PrintHash, NextOf, r
  <2>2. r.pc = "hash"
    BY <1>5 DEF PrintHash, At, r
  <2>3. CASE Reads(work[f]) = "missing"
    <3>1. Becomes(s, Fails(r, "error"))
      BY <2>1, <2>3
    <3>2. Steady(Fails(r, "error"))
      BY DEF Steady, Fails, Ended, Idle
    <3> QED BY <3>1, <3>2, BecomesKeepsRace
  <2>4. CASE Reads(work[f]) # "missing"
    <3> DEFINE fp == [r.fp EXCEPT !.plain = r.fp.plain \cup {<<f, Projection(work[f])>>}]
               q == [r EXCEPT !.todo = r.todo \ {f}, !.fp = fp]
    <3>1. fp.index = r.fp.index /\ fp.diff = r.fp.diff /\ fp.plain = r.fp.plain \cup {<<f, Projection(work[f])>>}
      BY <1>0 DEF Searches, Prints
    <3>2. Becomes(s, q)
      BY <2>1, <2>4
    <3> HIDE DEF fp
    <3>3. /\ q.pc = "hash" /\ q.fp = fp /\ q.check = r.check /\ q.before = r.before /\ q.options = r.options
          /\ q.todo = r.todo \ {f}
      BY <1>0, <2>2 DEF Searches
    <3>4. q.out = r.out /\ q.from = r.from /\ q.attempt = r.attempt
      BY <1>0 DEF Searches
    <3> HIDE DEF q
    <3>5. Quiet(r, staged, work) => Quiet(q, staged, work)
      <4> SUFFICES ASSUME Quiet(r, staged, work) PROVE Quiet(q, staged, work)
        OBVIOUS
      <4>1. r.todo \subseteq Untracked(staged, work, drop)
        BY <2>2 DEF Quiet
      <4>2. r.fp.plain = {<<g, Projection(work[g])>> : g \in Untracked(staged, work, drop) \ r.todo}
        BY <2>2 DEF Quiet
      <4>3. fp.plain = {<<g, Projection(work[g])>> : g \in Untracked(staged, work, drop) \ (r.todo \ {f})}
        BY <2>1, <3>1, <4>1, <4>2
      <4> QED BY <2>2, <3>1, <3>3, <4>1, <4>3 DEF Quiet, HasBefore
    <3> QED BY <1>0, <2>2, <3>2, <3>4, <3>5, SameAttempt, BecomesKeepsRace
  <2> QED BY <2>3, <2>4
<1> QED BY <1>2, <1>3, <1>4, <1>5

\* Nor does the building of an index.
LEMMA BuildKeepsRace ==
  ASSUME RaceInvariant, TypeInvariant', NEW s \in Searchers,
         Load(s) \/ Enumerate(s) \/ Others(s) \/ ReadFile(s) \/ Rank(s) \/ Snippet(s)
  PROVE  RaceInvariant'
<1> DEFINE r == search[s]
           drop == r.options.drop
<1>0. r \in Searches /\ Steady(r) /\ OnceEach(r) /\ staged \in [Files -> States] /\ work \in [Files -> States]
  BY DEF RaceInvariant, TypeInvariant, SearchType
<1>1. r.pc # "idle"
  BY DEF Load, Enumerate, Others, ReadFile, Rank, Snippet, Printed, At
<1>a. ASSUME NEW p \in Searches, NEW left \in SUBSET Files, NEW check \in {"mid", "last"},
             Becomes(s, Then(p, left, check)), HasBefore(r), p.pc \in {"read", "snippets"},
             p.before = r.before, p.options = r.options, p.out = r.out, p.from = r.from, p.attempt = r.attempt
      PROVE  RaceInvariant'
  <2>1. Quiet(r, staged, work) => Quiet(Then(p, left, check), staged, work)
    BY <1>a, ThenFacts DEF Quiet
  <2>2. Steady(Then(p, left, check))
    BY <1>0, <1>1, <1>a, <2>1, ThenFacts, SameAttempt
  <2> QED BY <1>a, <2>2, BecomesKeepsRace
<1> HIDE DEF r
<1>2. CASE Load(s)
  <2>1. r.pc = "hash" /\ r.check = "before" /\ r.todo = {}
    BY <1>2 DEF Load, Printed, At, r
  <2>2. Quiet(r, staged, work) => r.fp = FullPrint(staged, work, drop)
    <3>1. r.fp \in Prints
      BY <1>0 DEF Searches
    <3> QED BY <2>1, <3>1 DEF Quiet, FullPrint, Prints
  <2>3. CASE Matches(cache, r.fp, r.options)
    <3> DEFINE p == [r EXCEPT !.before = r.fp, !.hit = TRUE, !.docs = cache.docs]
               q == Printing(p, "mid")
    <3>1. Becomes(s, q)
      BY <1>2, <2>3 DEF Load, r
    <3>2. q \in Searches
      BY <3>1 DEF Becomes, TypeInvariant, SearchType, RaceInvariant
    <3>3. q.pc = "index" /\ q.before = r.fp /\ q.options = r.options
      BY <1>0 DEF Searches, Printing
    <3>4. q.out = r.out /\ q.from = r.from /\ q.attempt = r.attempt
      BY <1>0 DEF Searches, Printing
    <3> HIDE DEF q
    <3>5. Quiet(r, staged, work) => Quiet(q, staged, work)
      BY <2>2, <3>3 DEF Quiet
    <3> QED BY <1>0, <1>1, <3>1, <3>4, <3>5, SameAttempt, BecomesKeepsRace
  <2>4. CASE ~Matches(cache, r.fp, r.options)
    <3> DEFINE q == [r EXCEPT !.pc = "enumerate", !.before = r.fp]
    <3>1. Becomes(s, q)
      BY <1>2, <2>4 DEF Load, r
    <3>2. /\ q.pc = "enumerate" /\ q.before = r.fp /\ q.options = r.options
          /\ q.out = r.out /\ q.from = r.from /\ q.attempt = r.attempt
      BY <1>0 DEF Searches
    <3> HIDE DEF q
    <3>3. Quiet(r, staged, work) => Quiet(q, staged, work)
      BY <2>2, <3>2 DEF Quiet
    <3> QED BY <1>0, <1>1, <3>1, <3>2, <3>3, SameAttempt, BecomesKeepsRace
  <2> QED BY <2>3, <2>4
<1>3. CASE Enumerate(s)
  <2> DEFINE q == [r EXCEPT !.pc = "others", !.todo = Tracked(staged, drop)]
  <2>1. Becomes(s, q) /\ r.pc = "enumerate"
    BY <1>3 DEF Enumerate, At, r
  <2>2. /\ q.pc = "others" /\ q.before = r.before /\ q.options = r.options
        /\ q.out = r.out /\ q.from = r.from /\ q.attempt = r.attempt
    BY <1>0 DEF Searches
  <2> HIDE DEF q
  <2>3. Quiet(r, staged, work) => Quiet(q, staged, work)
    BY <2>1, <2>2 DEF Quiet, HasBefore
  <2> QED BY <1>0, <1>1, <2>1, <2>2, <2>3, SameAttempt, BecomesKeepsRace
<1>4. CASE Others(s)
  <2> DEFINE paths == r.todo \cup Untracked(staged, work, drop)
             p == [r EXCEPT !.pc = "read"]
  <2>1. r.pc = "others"
    BY <1>4 DEF Others, At, r
  <2>2. Becomes(s, Fails(r, "limit")) \/ Becomes(s, Then(p, paths, "mid"))
    BY <1>4 DEF Others, r
  <2>3. CASE Becomes(s, Fails(r, "limit"))
    <3>1. Steady(Fails(r, "limit"))
      BY DEF Steady, Fails, Ended, Idle
    <3> QED BY <2>3, <3>1, BecomesKeepsRace
  <2>4. CASE Becomes(s, Then(p, paths, "mid"))
    <3>1. paths \in SUBSET Files
      BY <1>0, PartTypes DEF Searches
    <3>2. /\ p \in Searches /\ p.pc = "read" /\ p.before = r.before /\ p.options = r.options
          /\ p.out = r.out /\ p.from = r.from /\ p.attempt = r.attempt
      BY <1>0 DEF Searches
    <3>3. HasBefore(r)
      BY <2>1 DEF HasBefore
    <3> QED BY <1>a, <2>4, <3>1, <3>2, <3>3
  <2> QED BY <2>2, <2>3, <2>4
<1>5. CASE ReadFile(s)
  <2>1. PICK f \in Files : Becomes(s, Then([r EXCEPT !.docs = r.docs \cup TextOf(f)], r.todo \ {f}, "mid"))
    BY <1>5 DEF ReadFile, NextOf, r
  <2> DEFINE p == [r EXCEPT !.docs = r.docs \cup TextOf(f)]
  <2>2. r.pc = "read"
    BY <1>5 DEF ReadFile, At, r
  <2>3. TextOf(f) \in SUBSET (Files \X Versions) /\ r.todo \ {f} \in SUBSET Files
    BY <1>0, VersionFacts DEF TextOf, Searches
  <2>4. /\ p \in Searches /\ p.pc = "read" /\ p.before = r.before /\ p.options = r.options
        /\ p.out = r.out /\ p.from = r.from /\ p.attempt = r.attempt
    BY <1>0, <2>2, <2>3 DEF Searches
  <2>5. HasBefore(r)
    BY <2>2 DEF HasBefore
  <2>6. Becomes(s, Then(p, r.todo \ {f}, "mid"))
    BY <2>1
  <2> HIDE DEF p
  <2> QED BY <1>a, <2>3, <2>4, <2>5, <2>6
<1>6. CASE Rank(s)
  <2> DEFINE p == [r EXCEPT !.pc = "snippets"]
             left == {d[1] : d \in r.docs}
  <2>1. Becomes(s, Then(p, left, "last")) /\ r.check = "mid"
    BY <1>6 DEF Rank, Printed, r
  <2>2. left \in SUBSET Files
    BY <1>0 DEF Searches
  <2>3. /\ p \in Searches /\ p.pc = "snippets" /\ p.before = r.before /\ p.options = r.options
        /\ p.out = r.out /\ p.from = r.from /\ p.attempt = r.attempt
    BY <1>0 DEF Searches
  <2>4. HasBefore(r)
    BY <2>1 DEF HasBefore
  <2> QED BY <1>a, <2>1, <2>2, <2>3, <2>4
<1>7. CASE Snippet(s)
  <2>1. PICK f \in Files : Becomes(s, Then([r EXCEPT !.lines = r.lines \cup TextOf(f)], r.todo \ {f}, "last"))
    BY <1>7 DEF Snippet, NextOf, r
  <2> DEFINE p == [r EXCEPT !.lines = r.lines \cup TextOf(f)]
  <2>2. r.pc = "snippets"
    BY <1>7 DEF Snippet, At, r
  <2>3. TextOf(f) \in SUBSET (Files \X Versions) /\ r.todo \ {f} \in SUBSET Files
    BY <1>0, VersionFacts DEF TextOf, Searches
  <2>4. /\ p \in Searches /\ p.pc = "snippets" /\ p.before = r.before /\ p.options = r.options
        /\ p.out = r.out /\ p.from = r.from /\ p.attempt = r.attempt
    BY <1>0, <2>2, <2>3 DEF Searches
  <2>5. HasBefore(r)
    BY <2>2 DEF HasBefore
  <2>6. Becomes(s, Then(p, r.todo \ {f}, "last"))
    BY <2>1
  <2> HIDE DEF p
  <2> QED BY <1>a, <2>3, <2>4, <2>5, <2>6
<1> QED BY <1>2, <1>3, <1>4, <1>5, <1>6, <1>7

\* A fingerprint that moved since the attempt began shows an edit.
LEMMA MovedTakesEdit ==
  ASSUME RaceInvariant, NEW s \in Searchers, Race(s)
  PROVE  /\ search[s].from + search[s].attempt <= edits
         /\ search[s].out = "none" /\ search[s].attempt >= 1 /\ search[s].pc = "hash"
<1> DEFINE r == search[s]
           drop == r.options.drop
<1>1. r \in Searches /\ Steady(r) /\ edits \in Nat
  BY SearchAssumption DEF RaceInvariant, TypeInvariant, SearchType
<1>2. r.pc = "hash" /\ r.todo = {} /\ r.check \in {"mid", "last"} /\ r.fp # r.before
  BY DEF Race, Printed, At, Moved
<1>3. r.from \in Nat /\ r.attempt \in Nat /\ r.fp \in Prints
  BY <1>1, SearchAssumption DEF Searches, MaxAttempts
<1> HIDE DEF r
<1>4. ~Quiet(r, staged, work)
  <2> SUFFICES ASSUME Quiet(r, staged, work) PROVE FALSE
    OBVIOUS
  <2>1. r.before = FullPrint(staged, work, drop)
    BY <1>2 DEF Quiet, HasBefore
  <2>2. r.fp = FullPrint(staged, work, drop)
    BY <1>2, <1>3 DEF Quiet, FullPrint, Prints
  <2> QED BY <1>2, <2>1, <2>2
<1>5. r.from + r.attempt # edits + 1 /\ r.from + r.attempt <= edits + 1
  BY <1>1, <1>2, <1>4 DEF Steady
<1> QED BY <1>1, <1>2, <1>3, <1>5 DEF Steady, r

\* A retry has a change of the repository behind it.
LEMMA EndKeepsRace ==
  ASSUME RaceInvariant, TypeInvariant', NEW s \in Searchers, Race(s) \/ Answer(s)
  PROVE  RaceInvariant'
<1> DEFINE r == search[s]
<1>1. CASE Race(s)
  <2>1. Becomes(s, StartOver(r))
    BY <1>1 DEF Race
  <2>2. r.from + r.attempt <= edits /\ r.attempt >= 1 /\ r.from \in Nat /\ r.attempt \in Nat /\ edits \in Nat
    BY <1>1, MovedTakesEdit, Counts DEF RaceInvariant
  <2> HIDE DEF r
  <2>3. Steady(Fails(r, "race"))
    BY DEF Steady, Fails, Ended, Idle
  <2>4. Steady(Attempt(r.attempt + 1, r.options, r.from))
    <3> DEFINE q == Attempt(r.attempt + 1, r.options, r.from)
    <3>1. q.pc = "index" /\ q.check = "before" /\ q.out = "none" /\ q.attempt = r.attempt + 1 /\ q.from = r.from
      BY DEF Attempt, Idle
    <3> HIDE DEF q
    <3>2. Quiet(q, staged, work)
      BY <3>1 DEF Quiet, HasBefore
    <3> QED BY <2>2, <3>1, <3>2 DEF Steady, q
  <2> QED BY <2>1, <2>3, <2>4, BecomesKeepsRace DEF StartOver
<1>2. CASE Answer(s)
  <2>1. Becomes(s, Ended(r, "answer"))
    BY <1>2 DEF Answer
  <2>2. Steady(Ended(r, "answer"))
    BY DEF Steady, Ended, Idle
  <2> QED BY <2>1, <2>2, BecomesKeepsRace
<1> QED BY <1>1, <1>2

\* A change of the repository is what the retry it causes is counted with.
LEMMA OthersKeepRace ==
  ASSUME RaceInvariant, TypeInvariant',
         (\E s \in Searchers : Begin(s)) \/ (\E f \in Files : Edit(f) \/ Stage(f)) \/ Spoil
  PROVE  RaceInvariant'
<1>0. edits \in Nat
  BY SearchAssumption DEF RaceInvariant, TypeInvariant, SearchType
<1>1. ASSUME NEW s \in Searchers, Begin(s) PROVE RaceInvariant'
  <2>1. PICK options \in Options : search' = [search EXCEPT ![s] = Attempt(1, options, edits)]
    BY <1>1 DEF Begin
  <2> DEFINE q == Attempt(1, options, edits)
  <2>2. q.pc = "index" /\ q.check = "before" /\ q.out = "none" /\ q.attempt = 1 /\ q.from = edits
    BY DEF Attempt, Idle
  <2>3. search'[s] = q /\ \A t \in Searchers \ {s} : search'[t] = search[t]
    BY <2>1 DEF RaceInvariant, TypeInvariant, SearchType
  <2> HIDE DEF q
  <2>4. staged' = staged /\ work' = work /\ edits' = edits
    BY <1>1 DEF Begin
  <2>5. Quiet(q, staged, work)
    BY <2>2 DEF Quiet, HasBefore
  <2>6. ASSUME NEW t \in Searchers PROVE Steady(search[t])'
    <3>1. CASE t = s
      BY <1>0, <2>2, <2>3, <2>4, <2>5, <3>1 DEF Steady
    <3>2. CASE t # s
      BY <2>3, <2>4, <3>2 DEF Steady, RaceInvariant
    <3> QED BY <3>1, <3>2
  <2> QED BY <2>6 DEF RaceInvariant
<1>2. ASSUME NEW f \in Files, Edit(f) \/ Stage(f) PROVE RaceInvariant'
  <2>1. edits' = edits + 1 /\ search' = search
    BY <1>2 DEF Edit, Stage
  <2>2. ASSUME NEW s \in Searchers PROVE Steady(search[s])'
    <3>1. search[s].from \in Nat /\ search[s].attempt \in Nat
      BY Counts DEF RaceInvariant
    <3> QED BY <1>0, <2>1, <3>1 DEF Steady, RaceInvariant
  <2> QED BY <2>2 DEF RaceInvariant
<1>3. CASE Spoil
  BY <1>3 DEF Spoil, RaceInvariant, Steady
<1> QED BY <1>1, <1>2, <1>3

\* Each attempt that starts over has a change of the repository behind it.
THEOREM RaceInvariantHolds == Spec => []RaceInvariant
<1>1. Init /\ TypeInvariant => RaceInvariant
  BY DEF Init, RaceInvariant, Steady, Idle
<1>2. RaceInvariant /\ TypeInvariant' /\ [Next]_vars => RaceInvariant'
  <2> SUFFICES ASSUME RaceInvariant, TypeInvariant', [Next]_vars PROVE RaceInvariant'
    OBVIOUS
  <2>1. CASE UNCHANGED vars
    BY <2>1 DEF vars, RaceInvariant, Steady
  <2> QED
    BY <2>1, PrintKeepsRace, BuildKeepsRace, EndKeepsRace, OthersKeepRace DEF Next, Step
<1> QED BY <1>1, <1>2, TypeInvariantHolds, PTL DEF Spec

\* No other step gives up with ErrIndexRace.
LEMMA OthersDoNotRace ==
  ASSUME TypeInvariant, NEW s \in Searchers, Step(s), ~Race(s)
  PROVE  search'[s].pc # "idle" \/ search'[s].out \in {"answer", "error", "limit"}
<1> DEFINE r == search[s]
<1>0. r \in Searches /\ OnceEach(r) /\ search \in [Searchers -> Searches]
      /\ staged \in [Files -> States] /\ work \in [Files -> States]
  BY DEF TypeInvariant, SearchType
<1>1. \A q : Becomes(s, q) => search'[s] = q
  BY <1>0 DEF Becomes
<1>2. \A out : Ended(r, out).out = out /\ Fails(r, out).out = out
  BY DEF Ended, Fails, Idle
<1>3. ASSUME NEW q \in Searches, NEW left \in SUBSET Files, NEW check \in {"mid", "last"}, q.pc # "idle"
      PROVE  Then(q, left, check).pc # "idle"
  BY <1>3, ThenFacts
<1> HIDE DEF r
<1>4. CASE PrintIndex(s) \/ PrintDiff(s) \/ PrintList(s)
  <2>1. PICK q : Becomes(s, q) /\ q.pc \in {"diff", "list", "hash"}
    <3>1. CASE PrintIndex(s)
      <4>1. \A fp, truth : [r EXCEPT !.pc = "diff", !.fp = fp, !.truth = truth].pc = "diff"
        BY <1>0 DEF Searches
      <4> QED BY <3>1, <4>1 DEF PrintIndex, r
    <3>2. CASE PrintDiff(s)
      <4>1. \A fp : [r EXCEPT !.pc = "list", !.fp = fp].pc = "list"
        BY <1>0 DEF Searches
      <4> QED BY <3>2, <4>1 DEF PrintDiff, r
    <3>3. CASE PrintList(s)
      <4>1. \A todo : [r EXCEPT !.pc = "hash", !.todo = todo].pc = "hash"
        BY <1>0 DEF Searches
      <4> QED BY <3>3, <4>1 DEF PrintList, r
    <3> QED BY <1>4, <3>1, <3>2, <3>3
  <2> QED BY <1>1, <2>1
<1>5. CASE PrintHash(s)
  <2>1. PICK f \in Files :
          Becomes(s, IF Reads(work[f]) = "missing" THEN Fails(r, "error")
                     ELSE [r EXCEPT !.todo = r.todo \ {f},
                                    !.fp = [r.fp EXCEPT !.plain = r.fp.plain \cup {<<f, Projection(work[f])>>}]])
    BY <1>5 DEF PrintHash, r
  <2>2. r.pc = "hash"
    BY <1>5 DEF PrintHash, At, r
  <2> DEFINE fp == [r.fp EXCEPT !.plain = r.fp.plain \cup {<<f, Projection(work[f])>>}]
             q == [r EXCEPT !.todo = r.todo \ {f}, !.fp = fp]
  <2>3. Becomes(s, Fails(r, "error")) \/ Becomes(s, q)
    BY <2>1
  <2> HIDE DEF fp
  <2>4. q.pc = r.pc
    BY <1>0 DEF Searches
  <2> HIDE DEF q
  <2> QED BY <1>1, <1>2, <2>2, <2>3, <2>4
<1>6. CASE Load(s)
  <2>1. CASE Matches(cache, r.fp, r.options)
    <3> DEFINE q == [r EXCEPT !.before = r.fp, !.hit = TRUE, !.docs = cache.docs]
    <3>1. Becomes(s, Printing(q, "mid"))
      BY <1>6, <2>1 DEF Load, r
    <3>2. Printing(q, "mid").pc = "index"
      BY <1>0 DEF Printing, Searches
    <3> HIDE DEF q
    <3> QED BY <1>1, <3>1, <3>2
  <2>2. CASE ~Matches(cache, r.fp, r.options)
    <3>1. Becomes(s, [r EXCEPT !.pc = "enumerate", !.before = r.fp])
      BY <1>6, <2>2 DEF Load, r
    <3>2. [r EXCEPT !.pc = "enumerate", !.before = r.fp].pc = "enumerate"
      BY <1>0 DEF Searches
    <3> QED BY <1>1, <3>1, <3>2
  <2> QED BY <2>1, <2>2
<1>7. CASE Enumerate(s)
  <2>1. \A todo : [r EXCEPT !.pc = "others", !.todo = todo].pc = "others"
    BY <1>0 DEF Searches
  <2> QED BY <1>1, <1>7, <2>1 DEF Enumerate, r
<1>8. CASE Others(s)
  <2> DEFINE q == [r EXCEPT !.pc = "read"]
             paths == r.todo \cup Untracked(staged, work, r.options.drop)
  <2>1. Becomes(s, Fails(r, "limit")) \/ Becomes(s, Then(q, paths, "mid"))
    BY <1>8 DEF Others, r
  <2>2. q \in Searches /\ q.pc = "read" /\ paths \in SUBSET Files
    BY <1>0, PartTypes DEF Searches
  <2> HIDE DEF q, paths
  <2> QED BY <1>1, <1>2, <1>3, <2>1, <2>2
<1>9. CASE ReadFile(s)
  <2>1. PICK f \in Files : Becomes(s, Then([r EXCEPT !.docs = r.docs \cup TextOf(f)], r.todo \ {f}, "mid"))
    BY <1>9 DEF ReadFile, r
  <2> DEFINE q == [r EXCEPT !.docs = r.docs \cup TextOf(f)]
  <2>2. r.pc = "read" /\ TextOf(f) \in SUBSET (Files \X Versions) /\ r.todo \ {f} \in SUBSET Files
    BY <1>0, <1>9, VersionFacts DEF ReadFile, At, TextOf, Searches, r
  <2>3. q \in Searches /\ q.pc = "read"
    <3>1. r.docs \cup TextOf(f) \in SUBSET (Files \X Versions)
      BY <1>0, <2>2, FieldsOf
    <3>2. q \in Searches
      BY <1>0, <3>1, FieldTypes
    <3>3. q.pc = r.pc
      BY <1>0 DEF Searches
    <3> QED BY <2>2, <3>2, <3>3
  <2>4. Becomes(s, Then(q, r.todo \ {f}, "mid"))
    BY <2>1
  <2> HIDE DEF q
  <2> QED BY <1>1, <1>3, <2>2, <2>3, <2>4
<1>10. CASE Rank(s)
  <2> DEFINE q == [r EXCEPT !.pc = "snippets"]
             left == {d[1] : d \in r.docs}
  <2>1. Becomes(s, Then(q, left, "last"))
    BY <1>10 DEF Rank, r
  <2>2. q \in Searches /\ q.pc = "snippets" /\ left \in SUBSET Files
    BY <1>0 DEF Searches
  <2> HIDE DEF q, left
  <2> QED BY <1>1, <1>3, <2>1, <2>2
<1>11. CASE Snippet(s)
  <2>1. PICK f \in Files : Becomes(s, Then([r EXCEPT !.lines = r.lines \cup TextOf(f)], r.todo \ {f}, "last"))
    BY <1>11 DEF Snippet, r
  <2> DEFINE q == [r EXCEPT !.lines = r.lines \cup TextOf(f)]
  <2>2. r.pc = "snippets" /\ TextOf(f) \in SUBSET (Files \X Versions) /\ r.todo \ {f} \in SUBSET Files
    BY <1>0, <1>11, VersionFacts DEF Snippet, At, TextOf, Searches, r
  <2>3. q \in Searches /\ q.pc = "snippets"
    <3>1. r.lines \cup TextOf(f) \in SUBSET (Files \X Versions)
      BY <1>0, <2>2, FieldsOf
    <3>2. q \in Searches
      BY <1>0, <3>1, FieldTypes
    <3>3. q.pc = r.pc
      BY <1>0 DEF Searches
    <3> QED BY <2>2, <3>2, <3>3
  <2>4. Becomes(s, Then(q, r.todo \ {f}, "last"))
    BY <2>1
  <2> HIDE DEF q
  <2> QED BY <1>1, <1>3, <2>2, <2>3, <2>4
<1>12. CASE Answer(s)
  BY <1>1, <1>2, <1>12 DEF Answer, r
<1> QED BY <1>4, <1>5, <1>6, <1>7, <1>8, <1>9, <1>10, <1>11, <1>12 DEF Step

\* A search gives up with ErrIndexRace only after two changes while it ran, for
\* any number of searches, files and edits, and with git add at any time.
THEOREM RaceNeedsTwoEdits == Spec => RaceTakesTwoEdits
<1>1. RaceInvariant /\ RaceInvariant' /\ [Next]_vars =>
        [\A s \in Searchers :
           search'[s].out = "race" /\ search[s].out # "race" => edits >= search[s].from + 2]_vars
  <2> SUFFICES ASSUME RaceInvariant, RaceInvariant', Next, NEW t \in Searchers,
                      search'[t].out = "race", search[t].out # "race"
               PROVE  edits >= search[t].from + 2
    OBVIOUS
  <2>1. search \in [Searchers -> Searches]
    BY DEF RaceInvariant, TypeInvariant, SearchType
  <2>2. ASSUME NEW s \in Searchers, NEW q, search' = [search EXCEPT ![s] = q]
        PROVE  s = t
    BY <2>1, <2>2
  <2>3. PICK s \in Searchers : Begin(s) \/ Step(s)
    BY DEF Next, Edit, Stage, Spoil
  <2>4. s = t
    BY <2>2, <2>3 DEF Step, Begin, PrintIndex, PrintDiff, PrintList, PrintHash, Load, Enumerate,
                      Others, ReadFile, Race, Rank, Snippet, Answer, Becomes
  <2>5. search'[t].pc = "idle"
    BY DEF RaceInvariant, Steady
  <2>6. ~Begin(t)
    <3>1. \A options : Attempt(1, options, edits).pc = "index"
      BY DEF Attempt, Idle
    <3> QED BY <2>1, <2>5, <3>1 DEF Begin
  <2>7. Race(t)
    BY <2>3, <2>4, <2>5, <2>6, OthersDoNotRace DEF RaceInvariant
  <2> DEFINE r == search[t]
  <2>8. r.from + r.attempt <= edits /\ r.out = "none" /\ r.from \in Nat /\ r.attempt \in Nat /\ edits \in Nat
    BY <2>7, MovedTakesEdit, Counts DEF RaceInvariant
  <2>9. search'[t] = StartOver(r)
    BY <2>1, <2>7 DEF Race, Becomes
  <2> HIDE DEF r
  <2>10. ~(r.attempt < MaxAttempts)
    <3>1. \A n, o, f : Attempt(n, o, f).pc = "index"
      BY DEF Attempt, Idle
    <3> QED BY <2>5, <2>9, <3>1 DEF StartOver
  <2> QED BY <2>8, <2>10 DEF MaxAttempts, r
<1> QED BY <1>1, RaceInvariantHolds, PTL DEF RaceTakesTwoEdits, Spec

-----------------------------------------------------------------------------
(* What two equal fingerprints say of what was read between them *)

\* A file that a fingerprint says is a text is in one state only.
LEMMA SaysOne ==
  ASSUME NEW fp, NEW index, NEW drop, NEW f, NEW v, NEW w,
         WellPrinted(fp, index, drop), Says(fp, index, f, v), Says(fp, index, f, w),
         Reads(v) = "indexed"
  PROVE  v = w
<1>1. v \in Versions /\ Kinds[v] = "text" /\ v # Skipped /\ Projection(v) = v
  BY VersionFacts DEF Skipped, Projection
<1>2. CASE Stored(index[f])
  BY <1>2 DEF Says, WellPrinted
<1>3. CASE ~Stored(index[f])
  <2>1. <<f, v>> \in fp.plain
    BY <1>1, <1>3 DEF Says, Stored
  <2>2. Stored(w) /\ <<f, Projection(w)>> \in fp.plain
    BY <1>3, <2>1 DEF Says
  <2>3. Projection(w) = v
    BY <2>1, <2>2 DEF WellPrinted
  <2> QED BY <1>1, <2>3 DEF Projection
<1> QED BY <1>2, <1>3

\* What a fingerprint says of two states of a file it says of those between.
LEMMA Squeezed ==
  ASSUME NothingReturns, NEW fp, NEW index, NEW drop, NEW f \in Files,
         NEW u \in States, NEW v \in States, NEW w \in States,
         WellPrinted(fp, index, drop), Says(fp, index, f, u), Says(fp, index, f, w),
         Legal(f, v), u <= v, v <= w
  PROVE  Says(fp, index, f, v)
<1>0. u \in Nat /\ v \in Nat /\ w \in Nat /\ Gone \in Nat /\ u <= Gone /\ w <= Gone /\ Gone # 0
  BY VersionFacts
<1>1. CASE Stored(index[f])
  <2>1. u = w
    BY <1>1 DEF Says, WellPrinted
  <2> QED BY <1>0, <2>1
<1>2. CASE ~Stored(index[f])
  <2>1. CASE ~Stored(u)
    <3>1. ~Stored(w) /\ \A e \in fp.plain : e[1] # f
      BY <1>2, <2>1 DEF Says
    <3>2. u \in {0, Gone} /\ w \in {0, Gone}
      BY <1>0, <2>1, <3>1, VersionFacts DEF Stored
    <3>3. u = w
      BY <3>2 DEF Says, Legal
    <3> QED BY <1>0, <3>3
  <2>2. CASE Stored(u)
    <3>1. Stored(w) /\ Projection(u) = Projection(w) /\ <<f, Projection(u)>> \in fp.plain
      BY <1>2, <2>2 DEF Says, WellPrinted
    <3>2. u \in Versions /\ v \in Versions /\ w \in Versions
      BY <1>0, <2>2, <3>1, VersionFacts DEF Stored
    <3>3. CASE Kinds[u] = "text"
      <4>1. Projection(u) = u /\ u # 0
        BY <3>2, <3>3, VersionFacts DEF Projection
      <4>2. w = u
        BY <3>1, <4>1 DEF Projection, Skipped
      <4> QED BY <1>0, <4>2
    <3>4. CASE Kinds[u] # "text"
      <4>1. Projection(u) = Skipped
        BY <3>4, VersionFacts DEF Projection
      <4>2. Kinds[w] # "text"
        <5>1. Reads(w) # "indexed"
          BY <1>0, <3>1, <3>2, <4>1, VersionFacts DEF Projection, Skipped
        <5> QED BY <3>2, <5>1, VersionFacts
      <4>3. Kinds[v] # "text"
        BY <1>0, <3>2, <3>4, <4>2 DEF NothingReturns
      <4>4. Projection(v) = Skipped
        BY <4>3, VersionFacts DEF Projection
      <4> QED BY <1>2, <3>1, <3>2, <4>1, <4>4 DEF Says, Stored
    <3> QED BY <3>3, <3>4
  <2> QED BY <2>1, <2>2
<1> QED BY <1>1, <1>2

\* What a fingerprint describes are versions of files.
LEMMA DescribedType ==
  ASSUME NEW fp \in Prints
  PROVE  Described(fp) \in SUBSET (Files \X Versions)
<1>1. \A e \in fp.diff : e \in Files \X States
  BY DEF Prints
<1>2. \A e \in fp.index : e \in Files \X Versions
  BY DEF Prints
<1>3. \A e \in fp.plain : e \in Files \X (Versions \cup {Skipped})
  BY DEF Prints
<1> QED BY <1>1, <1>2, <1>3, VersionFacts DEF Described

\* The corpus a fingerprint stands for is what it says of each file.
LEMMA DescribedIs ==
  ASSUME NEW index \in [Files -> States], NEW drop, NEW fp \in Prints, WellPrinted(fp, index, drop),
         NEW f \in Files, NEW x \in Versions
  PROVE  <<f, x>> \in Described(fp) <=>
           f \in Scope(index, drop) /\ Says(fp, index, f, x) /\ Reads(x) = "indexed"
<1>0. /\ x # Skipped /\ Stored(x) /\ (Reads(x) = "indexed" <=> Kinds[x] = "text")
      /\ Reads(x) = "indexed" => Projection(x) = x
  BY VersionFacts DEF Stored, Skipped, Projection
<1>1. Legal(f, x)
  BY VersionFacts DEF Legal
<1>2. \A g, v : <<g, v>> \in fp.index <=> g \in Tracked(index, drop) /\ v = index[g]
  BY DEF WellPrinted, IndexDigest
<1>3. f \in Tracked(index, drop) <=> Stored(index[f]) /\ f \in Scope(index, drop)
  BY DEF Tracked, Scope
<1>4. <<f, x>> \in Described(fp) <=>
        \/ <<f, x>> \in fp.diff /\ Reads(x) = "indexed" /\ \E d \in fp.index : d[1] = f
        \/ <<f, x>> \in fp.index /\ Reads(x) = "indexed" /\ \A d \in fp.diff : d[1] # f
        \/ <<f, x>> \in fp.plain /\ x # Skipped
  BY DEF Described
<1>5. (\E d \in fp.index : d[1] = f) <=> f \in Tracked(index, drop)
  <2>1. f \in Tracked(index, drop) => <<f, index[f]>> \in fp.index
    BY <1>2
  <2>2. ASSUME NEW d \in fp.index, d[1] = f
        PROVE  f \in Tracked(index, drop)
    <3>1. PICK g \in Tracked(index, drop) : d = <<g, index[g]>>
      BY DEF WellPrinted, IndexDigest
    <3> QED BY <2>2, <3>1
  <2> QED BY <2>1, <2>2
<1>6. CASE Stored(index[f])
  <2>1. <<f, x>> \notin fp.plain
    BY <1>6 DEF WellPrinted
  <2>2. Says(fp, index, f, x) <=>
          IF x = index[f] THEN \A e \in fp.diff : e[1] # f ELSE <<f, x>> \in fp.diff
    BY <1>1, <1>6 DEF Says
  <2>3. <<f, x>> \in fp.diff => x # index[f]
    BY DEF WellPrinted
  <2> QED BY <1>2, <1>3, <1>4, <1>5, <1>6, <2>1, <2>2, <2>3
<1>7. CASE ~Stored(index[f])
  <2>1. <<f, x>> \notin fp.index /\ ~(\E d \in fp.index : d[1] = f)
    BY <1>2, <1>3, <1>5, <1>7
  <2>2. Says(fp, index, f, x) <=> <<f, Projection(x)>> \in fp.plain
    BY <1>0, <1>1, <1>7 DEF Says
  <2>3. <<f, x>> \in fp.plain => Kinds[x] = "text" /\ f \in Scope(index, drop)
    BY <1>0, <1>7 DEF WellPrinted, Scope
  <2> QED BY <1>0, <1>4, <2>1, <2>2, <2>3
<1> QED BY <1>6, <1>7

\* The texts a fingerprint stands for fit each file in the state it says.
LEMMA DescribedFits ==
  ASSUME NEW index \in [Files -> States], NEW drop, NEW fp \in Prints, WellPrinted(fp, index, drop),
         NEW f \in Scope(index, drop), NEW v \in States, Says(fp, index, f, v)
  PROVE  Fits(Described(fp), f, v)
<1>0. f \in Files
  BY DEF Scope
<1>1. ASSUME NEW x \in Versions
      PROVE  <<f, x>> \in Described(fp) <=> x = v /\ Reads(v) = "indexed"
  <2>1. <<f, x>> \in Described(fp) <=> Says(fp, index, f, x) /\ Reads(x) = "indexed"
    BY <1>0, DescribedIs
  <2>2. Says(fp, index, f, x) /\ Reads(x) = "indexed" => x = v
    BY SaysOne
  <2> QED BY <2>1, <2>2
<1> QED BY <1>1 DEF Fits

\* A file that was read between two fingerprints that say the same was read as
\* they say.
LEMMA SettledFile ==
  ASSUME NothingReturns, NEW index \in [Files -> States], NEW drop, NEW fp \in Prints,
         WellPrinted(fp, index, drop), NEW texts, NEW f \in Scope(index, drop),
         NEW top \in States, Says(fp, index, f, top), Within(texts, fp, index, f, top)
  PROVE  \A x \in Versions : <<f, x>> \in texts <=> <<f, x>> \in Described(fp)
<1>0. f \in Files
  BY DEF Scope
<1>1. PICK v \in States, w \in States :
        Says(fp, index, f, v) /\ Legal(f, w) /\ v <= w /\ w <= top /\ Fits(texts, f, w)
  BY DEF Within
<1>2. Says(fp, index, f, w)
  BY <1>0, <1>1, Squeezed
<1>3. Fits(Described(fp), f, w)
  BY <1>2, DescribedFits
<1> QED BY <1>1, <1>3 DEF Fits

\* Texts that were read file by file between two fingerprints that say the same
\* are the corpus they stand for.
LEMMA Settled ==
  ASSUME NothingReturns, NEW index \in [Files -> States], NEW drop, NEW fp \in Prints,
         WellPrinted(fp, index, drop),
         NEW texts \in SUBSET (Files \X Versions), \A d \in texts : d[1] \in Scope(index, drop),
         \A f \in Scope(index, drop) :
           (\E d \in texts \cup Described(fp) : d[1] = f) =>
             \E top \in States : Says(fp, index, f, top) /\ Within(texts, fp, index, f, top)
  PROVE  texts = Described(fp)
<1>1. Described(fp) \in SUBSET (Files \X Versions)
  BY DescribedType
<1>2. ASSUME NEW f \in Files, NEW x \in Versions
      PROVE  <<f, x>> \in texts <=> <<f, x>> \in Described(fp)
  <2>1. <<f, x>> \in texts => f \in Scope(index, drop)
    OBVIOUS
  <2>2. <<f, x>> \in Described(fp) => f \in Scope(index, drop)
    BY DescribedIs
  <2>3. CASE <<f, x>> \in texts \/ <<f, x>> \in Described(fp)
    <3>1. f \in Scope(index, drop) /\ \E d \in texts \cup Described(fp) : d[1] = f
      BY <2>1, <2>2, <2>3
    <3>2. PICK top \in States : Says(fp, index, f, top) /\ Within(texts, fp, index, f, top)
      BY <3>1
    <3> QED BY <3>1, <3>2, SettledFile
  <2> QED BY <2>3
<1>3. \A d \in texts \cup Described(fp) : d[1] \in Files /\ d[2] \in Versions /\ d = <<d[1], d[2]>>
  BY <1>1
<1> HIDE DEF Files, Versions, Described
<1>4. \A d : d \in texts <=> d \in Described(fp)
  BY <1>2, <1>3
<1> QED BY <1>4

-----------------------------------------------------------------------------
(* The inductive invariant *)

\* The step of a search keeps the invariant when what it becomes is sound.
LEMMA StepSound ==
  ASSUME TypeInvariant, SearchInvariant, NEW s \in Searchers, NEW q, Becomes(s, q),
         SoundSearch(q, staged, work), CacheTellsTruth'
  PROVE  SearchInvariant'
<1>1. search \in [Searchers -> Searches]
  BY DEF TypeInvariant, SearchType
<1>2. ASSUME NEW t \in Searchers
      PROVE  SoundSearch(search'[t], staged, work)
  <2>1. search'[t] = IF t = s THEN q ELSE search[t]
    BY <1>1 DEF Becomes
  <2> QED BY <2>1 DEF SearchInvariant
<1>3. \A t \in Searchers : SoundSearch(search[t], staged, work)'
  BY <1>2 DEF Becomes
<1>4. (\A f \in Files : Legal(f, work[f]))'
  BY DEF SearchInvariant, Becomes
<1> QED BY <1>3, <1>4 DEF SearchInvariant

\* A search that starts, or starts over.
LEMMA FreshSound ==
  ASSUME NEW r, NEW index \in [Files -> States], NEW tree \in [Files -> States], \A f \in Files : Legal(f, tree[f]),
         r.pc = "index", r.check = "before", r.out = "none",
         r.docs = {}, r.lines = {}, r.truth = {}
  PROVE  SoundSearch(r, index, tree)
<1>1. Shape(r, index)
  BY DEF Shape, HasBefore
<1>2. ASSUME NEW f \in Scope(index, r.options.drop)
      PROVE  \E top \in States : Legal(f, top) /\ top <= tree[f] /\ FileRead(r, index, f, top)
  <2>1. f \in Files /\ tree[f] \in States /\ Legal(f, tree[f]) /\ tree[f] <= tree[f]
    BY VersionFacts DEF Scope
  <2>2. FileRead(r, index, f, tree[f])
    BY DEF FileRead, Covers, HasBefore
  <2> QED BY <2>1, <2>2
<1> QED BY <1>1, <1>2 DEF SoundSearch

\* A search that ended without an answer.
LEMMA FailsSound ==
  ASSUME NEW r, NEW index, NEW tree, NEW out \in {"error", "limit", "race"}
  PROVE  SoundSearch(Fails(r, out), index, tree)
<1>1. Fails(r, out).pc = "idle" /\ Fails(r, out).out = out
  BY DEF Fails, Ended, Idle
<1> QED BY <1>1 DEF SoundSearch

\* An attempt that has read nothing is sound.
LEMMA AttemptSound ==
  ASSUME TypeInvariant, SearchInvariant, NEW n, NEW options, NEW from
  PROVE  SoundSearch(Attempt(n, options, from), staged, work)
<1> DEFINE q == Attempt(n, options, from)
<1>1. /\ q.pc = "index" /\ q.check = "before" /\ q.out = "none"
      /\ q.docs = {} /\ q.lines = {} /\ q.truth = {}
  BY DEF Attempt, Idle
<1>2. staged \in [Files -> States] /\ work \in [Files -> States]
  BY DEF TypeInvariant, SearchType
<1> HIDE DEF q
<1> QED BY <1>1, <1>2, FreshSound DEF SearchInvariant, q

\* Files are read in later states only.
LEMMA WithinLater ==
  ASSUME NEW texts, NEW fp, NEW index, NEW f, NEW top \in States, NEW top2 \in States,
         top <= top2, Within(texts, fp, index, f, top)
  PROVE  Within(texts, fp, index, f, top2)
<1>1. PICK v \in States, w \in States :
        Says(fp, index, f, v) /\ Legal(f, w) /\ v <= w /\ w <= top /\ Fits(texts, f, w)
  BY DEF Within
<1>2. w <= top2
  BY <1>1, VersionFacts
<1> QED BY <1>1, <1>2 DEF Within

\* A file that is read now.
LEMMA WithinNow ==
  ASSUME NEW texts, NEW fp, NEW index, NEW f, NEW v \in States, NEW w \in States,
         Says(fp, index, f, v), v <= w, Legal(f, w), Fits(texts, f, w)
  PROVE  Within(texts, fp, index, f, w)
<1>1. w <= w
  BY VersionFacts
<1> QED BY <1>1 DEF Within

\* The steps that take a fingerprint.
LEMMA PrintIndexSound ==
  ASSUME TypeInvariant, SearchInvariant, NEW s \in Searchers, PrintIndex(s)
  PROVE  SearchInvariant'
<1> DEFINE r == search[s]
           drop == r.options.drop
           fp == [EmptyPrint EXCEPT !.index = IndexDigest(staged, drop)]
           truth == CASE r.check = "before" -> {}
                      [] r.check = "mid"    -> Corpus(staged, work, drop)
                      [] r.check = "last"   -> r.truth
           q == [r EXCEPT !.pc = "diff", !.fp = fp, !.truth = truth]
<1>1. r \in Searches /\ OnceEach(r) /\ staged \in [Files -> States] /\ work \in [Files -> States]
  BY DEF TypeInvariant, SearchType
<1>2. Becomes(s, q) /\ UNCHANGED cache /\ r.pc = "index"
  BY DEF PrintIndex, At
<1>3. fp.index = IndexDigest(staged, drop) /\ fp.diff = {} /\ fp.plain = {}
  BY DEF EmptyPrint
<1>4. r.check \in {"before", "mid", "last"}
  BY <1>1 DEF Searches
<1>5. /\ r.check = "before" => truth = {}
      /\ r.check = "mid" => truth = Corpus(staged, work, drop)
      /\ r.check = "last" => truth = r.truth
  BY <1>4
<1>6. SoundSearch(r, staged, work)
  BY DEF SearchInvariant
<1> HIDE DEF fp, truth
<1>7. /\ q.pc = "diff" /\ q.check = r.check /\ q.fp = fp /\ q.truth = truth /\ q.todo = r.todo
      /\ q.options = r.options /\ q.docs = r.docs /\ q.lines = r.lines
      /\ q.before = r.before /\ q.out = r.out
  BY <1>1 DEF Searches
<1> HIDE DEF q, r, drop
<1>8. Shape(r, staged)
  BY <1>2, <1>6 DEF SoundSearch
<1>9. ASSUME NEW f \in Scope(staged, drop), r.check = "mid"
      PROVE  Fits(truth, f, work[f])
  <2>1. f \in Files \ drop /\ (Stored(staged[f]) => f \in Tracked(staged, drop))
    BY DEF Scope, Tracked
  <2>2. Reads(work[f]) = "indexed" => f \in Tracked(staged, drop) \cup Untracked(staged, work, drop)
    BY <2>1, VersionFacts DEF Untracked, Stored
  <2>3. \A x \in Versions : <<f, x>> \in truth <=> x = work[f] /\ Reads(work[f]) = "indexed"
    BY <1>5, <1>9, <2>2 DEF Corpus
  <2> QED BY <2>3 DEF Fits
<1>10. Shape(q, staged)
  <2>1. WellPrinted(fp, staged, drop)
    BY <1>3 DEF WellPrinted
  <2>2. r.check = "mid" => \A d \in truth : d[1] \in Scope(staged, drop)
    <3>1. \A f \in Tracked(staged, drop) \cup Untracked(staged, work, drop) : f \in Scope(staged, drop)
      BY DEF Tracked, Untracked, Scope
    <3> QED BY <1>5, <3>1 DEF Corpus
  <2>3. \A d \in q.docs \cup q.truth : d[1] \in Scope(staged, drop)
    BY <1>4, <1>5, <1>7, <1>8, <2>2 DEF Shape, drop
  <2>4. HasBefore(q) <=> HasBefore(r)
    BY <1>2, <1>7 DEF HasBefore
  <2>5. q.check = "last" => q.truth = q.docs /\ q.docs = Described(q.before)
    BY <1>5, <1>7, <1>8 DEF Shape
  <2> QED BY <1>2, <1>3, <1>7, <1>8, <2>1, <2>3, <2>4, <2>5 DEF Shape, drop
<1>11. ASSUME NEW f \in Scope(staged, drop)
       PROVE  \E top \in States : Legal(f, top) /\ top <= work[f] /\ FileRead(q, staged, f, top)
  <2>0. f \in Files
    BY DEF Scope
  <2>1. PICK top \in States : Legal(f, top) /\ top <= work[f] /\ FileRead(r, staged, f, top)
    BY <1>2, <1>6 DEF SoundSearch, drop
  <2>2. work[f] \in States /\ work[f] <= work[f] /\ Legal(f, work[f])
    BY <1>1, <2>0, VersionFacts DEF SearchInvariant
  <2>3. ~Covers(q, staged, f)
    BY <1>7 DEF Covers
  <2>4. HasBefore(q) => \E v \in States : Says(q.before, staged, f, v) /\ v <= work[f]
    <3>1. HasBefore(q) => HasBefore(r)
      BY <1>2, <1>7 DEF HasBefore
    <3>2. \A v \in States : v <= top => v <= work[f]
      BY <2>1, <2>2, VersionFacts
    <3> QED BY <1>7, <2>1, <3>1, <3>2 DEF FileRead
  <2>5. q.check = "mid" => Within(q.docs, q.before, staged, f, work[f])
    BY <1>2, <1>7, <2>1, <2>2, WithinLater DEF FileRead
  <2>6. q.check = "mid" => Within(q.truth, q.before, staged, f, work[f])
    BY <1>7, <1>9, <2>2, <2>4, WithinNow DEF HasBefore
  <2>7. (\E d \in q.docs : d[1] = f) /\ q.check = "last" => Within(q.lines, q.before, staged, f, work[f])
    BY <1>7, <2>1, <2>2, WithinLater DEF FileRead
  <2>8. FileRead(q, staged, f, work[f])
    BY <1>7, <2>3, <2>4, <2>5, <2>6, <2>7 DEF FileRead
  <2> QED BY <2>2, <2>8
<1>12. SoundSearch(q, staged, work)
  BY <1>7, <1>10, <1>11 DEF SoundSearch, drop
<1> QED BY <1>2, <1>12, StepSound DEF SearchInvariant, CacheTellsTruth

\* While a fingerprint is taken, what was read before stays.
LEMMA ReadsLater ==
  ASSUME NEW r, NEW q, NEW index, NEW f, NEW top \in States, NEW top2 \in States, top <= top2,
         FileRead(r, index, f, top),
         q.check = r.check, q.docs = r.docs, q.lines = r.lines, q.truth = r.truth, q.before = r.before,
         r.pc \in {"diff", "list", "hash"}, q.pc \in {"list", "hash"},
         Covers(q, index, f) => Says(q.fp, index, f, top2)
  PROVE  FileRead(q, index, f, top2)
<1>1. HasBefore(q) => \E v \in States : Says(q.before, index, f, v) /\ v <= top2
  <2>1. HasBefore(q) => HasBefore(r)
    BY DEF HasBefore
  <2>2. \A v \in States : v <= top => v <= top2
    BY VersionFacts
  <2> QED BY <2>1, <2>2 DEF FileRead
<1>2. q.check = "mid" => Within(q.docs, q.before, index, f, top2)
  BY WithinLater DEF FileRead
<1>3. q.check = "mid" => Within(q.truth, q.before, index, f, top2)
  BY WithinLater DEF FileRead
<1>4. (\E d \in q.docs : d[1] = f) /\ q.check = "last" => Within(q.lines, q.before, index, f, top2)
  BY WithinLater DEF FileRead
<1> QED BY <1>1, <1>2, <1>3, <1>4 DEF FileRead

\* The diff of a fingerprint covers the tracked files.
LEMMA PrintDiffSound ==
  ASSUME TypeInvariant, SearchInvariant, NEW s \in Searchers, PrintDiff(s)
  PROVE  SearchInvariant'
<1> DEFINE r == search[s]
           drop == r.options.drop
           fp == [r.fp EXCEPT !.diff = DiffDigest(staged, work, drop)]
           q == [r EXCEPT !.pc = "list", !.fp = fp]
<1>1. r \in Searches /\ OnceEach(r) /\ staged \in [Files -> States] /\ work \in [Files -> States]
  BY DEF TypeInvariant, SearchType
<1>2. Becomes(s, q) /\ UNCHANGED cache /\ r.pc = "diff"
  BY DEF PrintDiff, At
<1>3. fp.index = r.fp.index /\ fp.diff = DiffDigest(staged, work, drop) /\ fp.plain = r.fp.plain
  BY <1>1 DEF Searches, Prints
<1>4. SoundSearch(r, staged, work)
  BY DEF SearchInvariant
<1> HIDE DEF fp
<1>5. /\ q.pc = "list" /\ q.check = r.check /\ q.fp = fp /\ q.truth = r.truth /\ q.todo = r.todo
      /\ q.options = r.options /\ q.docs = r.docs /\ q.lines = r.lines
      /\ q.before = r.before /\ q.out = r.out
  BY <1>1 DEF Searches
<1> HIDE DEF q, r, drop
<1>6. Shape(r, staged)
  BY <1>2, <1>4 DEF SoundSearch
<1>7. Shape(q, staged)
  <2>1. WellPrinted(fp, staged, drop)
    BY <1>2, <1>3, <1>6 DEF Shape, drop, WellPrinted, DiffDigest
  <2>2. HasBefore(q) <=> HasBefore(r)
    BY <1>2, <1>5 DEF HasBefore
  <2> QED BY <1>2, <1>3, <1>5, <1>6, <2>1, <2>2 DEF Shape, drop
<1>8. ASSUME NEW f \in Scope(staged, drop)
      PROVE  \E top \in States : Legal(f, top) /\ top <= work[f] /\ FileRead(q, staged, f, top)
  <2>0. f \in Files \ drop
    BY DEF Scope
  <2>1. PICK top \in States : Legal(f, top) /\ top <= work[f] /\ FileRead(r, staged, f, top)
    BY <1>2, <1>4 DEF SoundSearch, drop
  <2>2. work[f] \in States /\ work[f] <= work[f] /\ Legal(f, work[f])
    BY <1>1, <2>0, VersionFacts DEF SearchInvariant
  <2>3. Covers(q, staged, f) => Says(fp, staged, f, work[f])
    BY <1>3, <1>5, <2>0, <2>2 DEF Covers, Says, DiffDigest
  <2>4. FileRead(q, staged, f, work[f])
    BY <1>2, <1>5, <2>1, <2>2, <2>3, ReadsLater
  <2> QED BY <2>2, <2>4
<1>9. SoundSearch(q, staged, work)
  BY <1>5, <1>7, <1>8 DEF SoundSearch, drop
<1> QED BY <1>2, <1>9, StepSound DEF SearchInvariant, CacheTellsTruth

\* The list of a fingerprint covers the files that are not there.
LEMMA PrintListSound ==
  ASSUME TypeInvariant, SearchInvariant, NEW s \in Searchers, PrintList(s)
  PROVE  SearchInvariant'
<1> DEFINE r == search[s]
           drop == r.options.drop
           q == [r EXCEPT !.pc = "hash", !.todo = Untracked(staged, work, drop)]
<1>1. r \in Searches /\ OnceEach(r) /\ staged \in [Files -> States] /\ work \in [Files -> States]
  BY DEF TypeInvariant, SearchType
<1>2. Becomes(s, q) /\ UNCHANGED cache /\ r.pc = "list"
  BY DEF PrintList, At
<1>3. SoundSearch(r, staged, work)
  BY DEF SearchInvariant
<1>4. /\ q.pc = "hash" /\ q.check = r.check /\ q.fp = r.fp /\ q.truth = r.truth
      /\ q.todo = Untracked(staged, work, drop)
      /\ q.options = r.options /\ q.docs = r.docs /\ q.lines = r.lines
      /\ q.before = r.before /\ q.out = r.out
  BY <1>1 DEF Searches
<1> HIDE DEF q, r, drop
<1>5. Shape(r, staged)
  BY <1>2, <1>3 DEF SoundSearch
<1>6. Shape(q, staged)
  <2>1. HasBefore(q) <=> HasBefore(r)
    BY <1>2, <1>4 DEF HasBefore
  <2>2. r.fp.plain = {} /\ \A f \in q.todo : f \notin drop /\ ~Stored(staged[f])
    BY <1>2, <1>4, <1>5 DEF Shape, Untracked
  <2> QED BY <1>2, <1>4, <1>5, <2>1, <2>2 DEF Shape, drop
<1>7. ASSUME NEW f \in Scope(staged, drop)
      PROVE  \E top \in States : Legal(f, top) /\ top <= work[f] /\ FileRead(q, staged, f, top)
  <2>0. f \in Files \ drop
    BY DEF Scope
  <2>1. PICK top \in States : Legal(f, top) /\ top <= work[f] /\ FileRead(r, staged, f, top)
    BY <1>2, <1>3 DEF SoundSearch, drop
  <2>2. work[f] \in States /\ work[f] <= work[f] /\ Legal(f, work[f]) /\ top <= top
    BY <1>1, <2>0, VersionFacts DEF SearchInvariant
  <2>3. CASE Stored(staged[f])
    <3>1. Says(q.fp, staged, f, top)
      BY <1>2, <1>4, <2>1, <2>3 DEF FileRead, Covers
    <3>2. FileRead(q, staged, f, top)
      BY <1>2, <1>4, <2>1, <2>2, <3>1, ReadsLater
    <3> QED BY <2>1, <3>2
  <2>4. CASE ~Stored(staged[f])
    <3>1. Covers(q, staged, f) => ~Stored(work[f])
      BY <1>4, <2>0, <2>4 DEF Covers, Untracked
    <3>2. Covers(q, staged, f) => Says(q.fp, staged, f, work[f])
      BY <1>2, <1>4, <1>5, <2>2, <2>4, <3>1 DEF Says, Shape
    <3>3. FileRead(q, staged, f, work[f])
      BY <1>2, <1>4, <2>1, <2>2, <3>2, ReadsLater
    <3> QED BY <2>2, <3>3
  <2> QED BY <2>3, <2>4
<1>8. SoundSearch(q, staged, work)
  BY <1>4, <1>6, <1>7 DEF SoundSearch, drop
<1> QED BY <1>2, <1>8, StepSound DEF SearchInvariant, CacheTellsTruth

\* The hashes of a fingerprint cover one new file after the other.
LEMMA PrintHashSound ==
  ASSUME TypeInvariant, SearchInvariant, NEW s \in Searchers, PrintHash(s)
  PROVE  SearchInvariant'
<1> DEFINE r == search[s]
           drop == r.options.drop
<1>1. r \in Searches /\ OnceEach(r) /\ staged \in [Files -> States] /\ work \in [Files -> States]
  BY DEF TypeInvariant, SearchType
<1>2. UNCHANGED cache /\ r.pc = "hash"
  BY DEF PrintHash, At
<1>3. SoundSearch(r, staged, work)
  BY DEF SearchInvariant
<1>4. PICK g \in Files :
        /\ g \in r.todo
        /\ Becomes(s, IF Reads(work[g]) = "missing" THEN Fails(r, "error")
                      ELSE [r EXCEPT !.todo = r.todo \ {g},
                                     !.fp = [r.fp EXCEPT !.plain = r.fp.plain \cup {<<g, Projection(work[g])>>}]])
  BY DEF PrintHash, NextOf
<1>5. CASE Reads(work[g]) = "missing"
  BY <1>2, <1>4, <1>5, FailsSound, StepSound DEF SearchInvariant, CacheTellsTruth
<1>6. CASE Reads(work[g]) # "missing"
  <2> DEFINE fp == [r.fp EXCEPT !.plain = r.fp.plain \cup {<<g, Projection(work[g])>>}]
             q == [r EXCEPT !.todo = r.todo \ {g}, !.fp = fp]
  <2>1. Becomes(s, q)
    BY <1>4, <1>6
  <2>2. fp.index = r.fp.index /\ fp.diff = r.fp.diff /\ fp.plain = r.fp.plain \cup {<<g, Projection(work[g])>>}
    BY <1>1 DEF Searches, Prints
  <2> HIDE DEF fp
  <2>3. /\ q.pc = "hash" /\ q.check = r.check /\ q.fp = fp /\ q.truth = r.truth
        /\ q.todo = r.todo \ {g}
        /\ q.options = r.options /\ q.docs = r.docs /\ q.lines = r.lines
        /\ q.before = r.before /\ q.out = r.out
    BY <1>1, <1>2 DEF Searches
  <2> HIDE DEF q, r, drop
  <2>4. Shape(r, staged)
    BY <1>2, <1>3 DEF SoundSearch
  <2>5. /\ Stored(work[g]) /\ ~Stored(staged[g]) /\ g \notin drop
        /\ Projection(work[g]) # Skipped => Kinds[Projection(work[g])] = "text"
    BY <1>2, <1>4, <1>6, <2>4, VersionFacts DEF Stored, Shape, Projection, drop
  <2>6. Shape(q, staged)
    <3>1. HasBefore(q) <=> HasBefore(r)
      BY <1>2, <2>3 DEF HasBefore
    <3>2. WellPrinted(r.fp, staged, drop) /\ \A e \in r.fp.plain : e[1] \notin r.todo
      BY <1>2, <2>4 DEF Shape, drop
    <3>3. \A e \in fp.plain : e \in r.fp.plain \/ (e[1] = g /\ e[2] = Projection(work[g]))
      BY <2>2
    <3>4. \A d, e \in fp.plain : d[1] = e[1] => d = e
      BY <1>4, <2>2, <3>2 DEF WellPrinted
    <3>5. WellPrinted(fp, staged, drop)
      BY <2>2, <2>5, <3>2, <3>3, <3>4 DEF WellPrinted
    <3>6. \A e \in fp.plain : e[1] \notin q.todo
      BY <2>3, <3>2, <3>3
    <3>7. \A f \in q.todo : f \notin drop /\ ~Stored(staged[f])
      BY <1>2, <2>3, <2>4 DEF Shape, drop
    <3> QED BY <1>2, <2>3, <2>4, <3>1, <3>5, <3>6, <3>7 DEF Shape, drop
  <2>7. ASSUME NEW f \in Scope(staged, drop)
        PROVE  \E top \in States : Legal(f, top) /\ top <= work[f] /\ FileRead(q, staged, f, top)
    <3>0. f \in Files
      BY DEF Scope
    <3>1. PICK top \in States : Legal(f, top) /\ top <= work[f] /\ FileRead(r, staged, f, top)
      BY <1>2, <1>3 DEF SoundSearch, drop
    <3>2. work[f] \in States /\ work[f] <= work[f] /\ Legal(f, work[f]) /\ top <= top
      BY <1>1, <3>0, VersionFacts DEF SearchInvariant
    <3>3. CASE f = g
      <4>1. Says(fp, staged, f, work[f])
        BY <2>2, <2>5, <3>2, <3>3 DEF Says
      <4>2. FileRead(q, staged, f, work[f])
        BY <1>2, <2>3, <3>1, <3>2, <4>1, ReadsLater
      <4> QED BY <3>2, <4>2
    <3>4. CASE f # g
      <4>1. Covers(q, staged, f) => Says(r.fp, staged, f, top)
        BY <1>2, <2>3, <3>1, <3>4 DEF FileRead, Covers
      <4>2. Says(r.fp, staged, f, top) => Says(fp, staged, f, top)
        BY <2>2, <3>4 DEF Says
      <4>3. FileRead(q, staged, f, top)
        BY <1>2, <2>3, <3>1, <3>2, <4>1, <4>2, ReadsLater
      <4> QED BY <3>1, <4>3
    <3> QED BY <3>3, <3>4
  <2>8. SoundSearch(q, staged, work)
    BY <1>2, <2>3, <2>6, <2>7 DEF SoundSearch, drop
  <2> QED BY <1>2, <2>1, <2>8, StepSound DEF SearchInvariant, CacheTellsTruth
<1> QED BY <1>5, <1>6

\* The steps that find and read the files of an index.
LEMMA LoadSound ==
  ASSUME TypeInvariant, SearchInvariant, NEW s \in Searchers, Load(s)
  PROVE  SearchInvariant'
<1> DEFINE r == search[s]
           drop == r.options.drop
<1>1. r \in Searches /\ OnceEach(r) /\ staged \in [Files -> States] /\ work \in [Files -> States]
  BY DEF TypeInvariant, SearchType
<1>2. UNCHANGED cache /\ r.pc = "hash" /\ r.todo = {} /\ r.check = "before"
  BY DEF Load, Printed, At
<1>3. SoundSearch(r, staged, work)
  BY DEF SearchInvariant
<1>4. r.docs = {} /\ r.fp \in Prints
  BY <1>1, <1>2 DEF OnceEach, Searches
<1>5. Shape(r, staged) /\ WellPrinted(r.fp, staged, drop) /\ r.lines = {} /\ r.out = "none"
  BY <1>2, <1>3 DEF SoundSearch, Shape
<1>6. ASSUME NEW f \in Scope(staged, drop)
      PROVE  \E top \in States : /\ Legal(f, top) /\ top <= work[f] /\ top <= top
                                 /\ Says(r.fp, staged, f, top)
  <2>1. PICK top \in States : Legal(f, top) /\ top <= work[f] /\ FileRead(r, staged, f, top)
    BY <1>2, <1>3 DEF SoundSearch
  <2>2. Says(r.fp, staged, f, top)
    BY <1>2, <2>1 DEF FileRead, Covers
  <2> QED BY <2>1, <2>2, VersionFacts
<1>7. CASE Matches(cache, r.fp, r.options)
  <2> DEFINE p == [r EXCEPT !.before = r.fp, !.hit = TRUE, !.docs = cache.docs]
             q == Printing(p, "mid")
  <2>1. Becomes(s, q)
    BY <1>7 DEF Load
  <2>2. cache.docs = Described(r.fp)
    BY <1>7 DEF SearchInvariant, CacheTellsTruth, Matches
  <2>3. p \in Searches
    BY <1>1, <1>4, <2>2, DescribedType, FieldTypes
  <2>4. /\ p.options = r.options /\ p.docs = cache.docs /\ p.before = r.fp /\ p.out = r.out
        /\ p.lines = r.lines /\ p.truth = r.truth
    BY <1>1 DEF Searches
  <2> HIDE DEF p
  <2>5. /\ q.pc = "index" /\ q.check = "mid" /\ q.options = r.options /\ q.docs = Described(r.fp)
        /\ q.before = r.fp /\ q.out = "none" /\ q.lines = {} /\ q.truth = r.truth
    BY <1>5, <2>2, <2>3, <2>4, PrintingType
  <2> HIDE DEF q, r, drop
  <2>6. Shape(q, staged)
    <3>1. \A d \in Described(r.fp) : d[1] \in Scope(staged, drop)
      <4> SUFFICES ASSUME NEW d \in Described(r.fp) PROVE d[1] \in Scope(staged, drop)
        OBVIOUS
      <4>1. d[1] \in Files /\ d[2] \in Versions /\ d = <<d[1], d[2]>>
        BY <1>4, DescribedType
      <4> QED BY <1>1, <1>4, <1>5, <4>1, DescribedIs
    <3>2. \A d \in q.docs \cup q.truth : d[1] \in Scope(staged, drop)
      BY <1>5, <2>5, <3>1 DEF Shape, drop
    <3> QED BY <1>5, <2>5, <3>2 DEF Shape, drop
  <2>7. ASSUME NEW f \in Scope(staged, drop)
        PROVE  \E top \in States : Legal(f, top) /\ top <= work[f] /\ FileRead(q, staged, f, top)
    <3>1. PICK top \in States : /\ Legal(f, top) /\ top <= work[f] /\ top <= top
                                /\ Says(r.fp, staged, f, top)
      BY <1>6
    <3>2. Fits(q.docs, f, top)
      BY <1>1, <1>4, <1>5, <2>5, <3>1, DescribedFits
    <3>3. Within(q.docs, q.before, staged, f, top)
      BY <2>5, <3>1, <3>2, WithinNow
    <3>4. FileRead(q, staged, f, top)
      BY <2>5, <3>1, <3>3 DEF FileRead, Covers
    <3> QED BY <3>1, <3>4
  <2>8. SoundSearch(q, staged, work)
    BY <2>5, <2>6, <2>7 DEF SoundSearch, drop
  <2> QED BY <1>2, <2>1, <2>8, StepSound DEF SearchInvariant, CacheTellsTruth
<1>8. CASE ~Matches(cache, r.fp, r.options)
  <2> DEFINE q == [r EXCEPT !.pc = "enumerate", !.before = r.fp]
  <2>1. Becomes(s, q)
    BY <1>8 DEF Load
  <2>2. /\ q.pc = "enumerate" /\ q.check = "before" /\ q.options = r.options /\ q.docs = {}
        /\ q.before = r.fp /\ q.out = "none" /\ q.lines = {} /\ q.truth = r.truth
    BY <1>1, <1>2, <1>4, <1>5 DEF Searches
  <2> HIDE DEF q, r, drop
  <2>3. Shape(q, staged)
    BY <1>5, <2>2 DEF Shape, drop
  <2>4. ASSUME NEW f \in Scope(staged, drop)
        PROVE  \E top \in States : Legal(f, top) /\ top <= work[f] /\ FileRead(q, staged, f, top)
    <3>1. PICK top \in States : /\ Legal(f, top) /\ top <= work[f] /\ top <= top
                                /\ Says(r.fp, staged, f, top)
      BY <1>6
    <3>2. FileRead(q, staged, f, top)
      BY <2>2, <3>1 DEF FileRead, Covers
    <3> QED BY <3>1, <3>2
  <2>5. SoundSearch(q, staged, work)
    BY <2>2, <2>3, <2>4 DEF SoundSearch, drop
  <2> QED BY <1>2, <2>1, <2>5, StepSound DEF SearchInvariant, CacheTellsTruth
<1> QED BY <1>7, <1>8

\* The listing of the tracked files.
LEMMA EnumerateSound ==
  ASSUME TypeInvariant, SearchInvariant, NEW s \in Searchers, Enumerate(s)
  PROVE  SearchInvariant'
<1> DEFINE r == search[s]
           drop == r.options.drop
           q == [r EXCEPT !.pc = "others", !.todo = Tracked(staged, drop)]
<1>1. r \in Searches
  BY DEF TypeInvariant, SearchType
<1>2. Becomes(s, q) /\ UNCHANGED cache /\ r.pc = "enumerate"
  BY DEF Enumerate, At
<1>3. SoundSearch(r, staged, work)
  BY DEF SearchInvariant
<1>4. /\ q.pc = "others" /\ q.check = r.check /\ q.options = r.options /\ q.docs = r.docs
      /\ q.before = r.before /\ q.out = r.out /\ q.lines = r.lines /\ q.truth = r.truth
      /\ q.todo = Tracked(staged, drop)
  BY <1>1 DEF Searches
<1> HIDE DEF q, r, drop
<1>5. Shape(r, staged)
  BY <1>2, <1>3 DEF SoundSearch
<1>6. Shape(q, staged)
  BY <1>2, <1>4, <1>5 DEF Shape, HasBefore, drop
<1>7. ASSUME NEW f \in Scope(staged, drop), NEW top \in States, FileRead(r, staged, f, top)
      PROVE  FileRead(q, staged, f, top)
  BY <1>2, <1>4, <1>5, <1>7 DEF FileRead, Covers, HasBefore, Shape
<1>8. SoundSearch(q, staged, work)
  BY <1>2, <1>3, <1>4, <1>6, <1>7 DEF SoundSearch, drop
<1> QED BY <1>2, <1>8, StepSound DEF SearchInvariant, CacheTellsTruth

\* Every file in scope is found, or is none at the moment of the last listing.
LEMMA OthersSound ==
  ASSUME TypeInvariant, SearchInvariant, NEW s \in Searchers, Others(s)
  PROVE  SearchInvariant'
<1> DEFINE r == search[s]
           drop == r.options.drop
           paths == r.todo \cup Untracked(staged, work, drop)
           p == [r EXCEPT !.pc = "read"]
           q == Then(p, paths, "mid")
<1>1. r \in Searches /\ OnceEach(r) /\ staged \in [Files -> States] /\ work \in [Files -> States]
  BY DEF TypeInvariant, SearchType
<1>2. UNCHANGED cache /\ r.pc = "others"
  BY DEF Others, At
<1>3. SoundSearch(r, staged, work)
  BY DEF SearchInvariant
<1>4. Becomes(s, Fails(r, "limit")) \/ Becomes(s, q)
  BY DEF Others
<1>5. CASE Becomes(s, Fails(r, "limit"))
  BY <1>2, <1>5, FailsSound, StepSound DEF SearchInvariant, CacheTellsTruth
<1>6. CASE Becomes(s, q)
  <2>1. /\ p \in Searches /\ p.pc = "read" /\ p.check = r.check /\ p.options = r.options
        /\ p.docs = r.docs /\ p.before = r.before /\ p.out = r.out /\ p.lines = r.lines
        /\ p.truth = r.truth
    BY <1>1 DEF Searches
  <2>2. paths \in SUBSET Files
    BY <1>1, PartTypes DEF Searches
  <2> HIDE DEF p, paths
  <2>3. /\ q.options = r.options /\ q.docs = r.docs
        /\ q.before = r.before /\ q.out = r.out /\ q.lines = r.lines /\ q.truth = r.truth
        /\ q.todo = paths
        /\ paths = {} => q.pc = "index" /\ q.check = "mid"
        /\ paths # {} => q.pc = "read" /\ q.check = r.check
    BY <2>1, <2>2, ThenFacts
  <2>4. Shape(r, staged) /\ r.check = "before" /\ r.docs = {} /\ r.lines = {} /\ r.todo = Tracked(staged, drop)
    BY <1>2, <1>3 DEF SoundSearch, Shape
  <2> HIDE DEF q, r, drop
  <2>5. Shape(q, staged)
    <3>1. paths \subseteq Scope(staged, drop)
      BY <2>4 DEF paths, Tracked, Untracked, Scope
    <3> QED BY <1>2, <2>3, <2>4, <3>1 DEF Shape, HasBefore, drop
  <2>6. ASSUME NEW f \in Scope(staged, drop)
        PROVE  \E top \in States : Legal(f, top) /\ top <= work[f] /\ FileRead(q, staged, f, top)
    <3>0. f \in Files \ drop
      BY DEF Scope
    <3>1. PICK top \in States : Legal(f, top) /\ top <= work[f] /\ FileRead(r, staged, f, top)
      BY <1>2, <1>3 DEF SoundSearch, drop
    <3>2. work[f] \in States /\ work[f] <= work[f] /\ Legal(f, work[f])
      BY <1>1, <3>0, VersionFacts DEF SearchInvariant
    <3>3. PICK v \in States : Says(q.before, staged, f, v) /\ v <= top
      BY <1>2, <2>3, <3>1 DEF FileRead, HasBefore
    <3>4. v <= work[f]
      BY <3>1, <3>2, <3>3, VersionFacts
    <3>5. f \notin paths => Within(q.docs, q.before, staged, f, work[f])
      <4>1. ASSUME f \notin paths
            PROVE  ~Stored(work[f])
        BY <2>4, <3>0, <4>1 DEF paths, Tracked, Untracked, Scope
      <4>2. ASSUME f \notin paths
            PROVE  Fits(q.docs, f, work[f])
        BY <2>3, <2>4, <4>1, <4>2, VersionFacts DEF Fits, Stored
      <4> QED BY <3>2, <3>3, <3>4, <4>2, WithinNow
    <3>6. FileRead(q, staged, f, work[f])
      BY <2>3, <2>4, <3>3, <3>4, <3>5 DEF FileRead, Covers
    <3> QED BY <3>2, <3>6
  <2>7. SoundSearch(q, staged, work)
    BY <2>3, <2>5, <2>6 DEF SoundSearch, drop
  <2> QED BY <1>2, <1>6, <2>7, StepSound DEF SearchInvariant, CacheTellsTruth
<1> QED BY <1>4, <1>5, <1>6

\* The read of a file makes the texts fit it, and leaves the other files.
LEMMA ReadFits ==
  ASSUME NEW texts \in SUBSET (Files \X Versions), NEW g \in Files, \A d \in texts : d[1] # g
  PROVE  /\ Fits(texts \cup TextOf(g), g, work[g])
         /\ \A f \in Files \ {g} : \A fp, index : \A top \in States :
              Within(texts, fp, index, f, top) => Within(texts \cup TextOf(g), fp, index, f, top)
<1>1. Fits(texts \cup TextOf(g), g, work[g])
  BY DEF Fits, TextOf
<1>2. ASSUME NEW f \in Files \ {g}, NEW w \in States, Fits(texts, f, w)
      PROVE  Fits(texts \cup TextOf(g), f, w)
  <2>1. \A x \in Versions : <<f, x>> \notin TextOf(g)
    BY DEF TextOf
  <2> QED BY <1>2, <2>1 DEF Fits
<1> QED BY <1>1, <1>2 DEF Within

\* The read of a file for the index is between two fingerprints.
LEMMA ReadFileSound ==
  ASSUME TypeInvariant, SearchInvariant, NEW s \in Searchers, ReadFile(s)
  PROVE  SearchInvariant'
<1> DEFINE r == search[s]
           drop == r.options.drop
<1>1. r \in Searches /\ OnceEach(r) /\ staged \in [Files -> States] /\ work \in [Files -> States]
  BY DEF TypeInvariant, SearchType
<1>2. UNCHANGED cache /\ r.pc = "read"
  BY DEF ReadFile, At
<1>3. SoundSearch(r, staged, work)
  BY DEF SearchInvariant
<1>4. PICK g \in Files :
        /\ g \in r.todo
        /\ Becomes(s, Then([r EXCEPT !.docs = r.docs \cup TextOf(g)], r.todo \ {g}, "mid"))
  BY DEF ReadFile, NextOf
<1> DEFINE left == r.todo \ {g}
           p == [r EXCEPT !.docs = r.docs \cup TextOf(g)]
           q == Then(p, left, "mid")
<1>5. Becomes(s, q)
  BY <1>4
<1>6. TextOf(g) \in SUBSET (Files \X Versions) /\ left \in SUBSET Files /\ \A d \in TextOf(g) : d[1] = g
  BY <1>1, VersionFacts DEF TextOf, Searches
<1>7. /\ p \in Searches /\ p.pc = "read" /\ p.check = r.check /\ p.options = r.options
      /\ p.docs = r.docs \cup TextOf(g) /\ p.before = r.before /\ p.out = r.out
      /\ p.lines = r.lines /\ p.truth = r.truth
  BY <1>1, <1>2, <1>6 DEF Searches
<1> HIDE DEF p, left
<1>8. /\ q.options = r.options /\ q.docs = r.docs \cup TextOf(g)
      /\ q.before = r.before /\ q.out = r.out /\ q.lines = r.lines /\ q.truth = r.truth
      /\ q.todo = left
      /\ left = {} => q.pc = "index" /\ q.check = "mid"
      /\ left # {} => q.pc = "read" /\ q.check = r.check
  BY <1>6, <1>7, ThenFacts
<1>9. /\ Shape(r, staged) /\ r.check = "before" /\ r.lines = {} /\ r.todo \subseteq Scope(staged, drop)
      /\ \A d \in r.docs : d[1] \notin r.todo
  BY <1>1, <1>2, <1>3 DEF SoundSearch, Shape, OnceEach
<1>10. r.docs \in SUBSET (Files \X Versions) /\ \A d \in r.docs : d[1] # g
  BY <1>1, <1>4, <1>9 DEF Searches
<1> HIDE DEF q, r, drop
<1>11. Shape(q, staged)
  <2>1. left \subseteq Scope(staged, drop) /\ g \in Scope(staged, drop)
    BY <1>4, <1>9 DEF left
  <2>2. \A d \in q.docs \cup q.truth : d[1] \in Scope(staged, drop)
    BY <1>6, <1>8, <1>9, <2>1 DEF Shape, drop
  <2> QED BY <1>2, <1>8, <1>9, <2>1, <2>2 DEF Shape, HasBefore, drop
<1>12. ASSUME NEW f \in Scope(staged, drop)
       PROVE  \E top \in States : Legal(f, top) /\ top <= work[f] /\ FileRead(q, staged, f, top)
  <2>0. f \in Files
    BY DEF Scope
  <2>1. PICK top \in States : Legal(f, top) /\ top <= work[f] /\ FileRead(r, staged, f, top)
    BY <1>2, <1>3 DEF SoundSearch, drop
  <2>2. work[f] \in States /\ work[f] <= work[f] /\ Legal(f, work[f])
    BY <1>1, <2>0, VersionFacts DEF SearchInvariant
  <2>3. PICK v \in States : Says(q.before, staged, f, v) /\ v <= top
    BY <1>2, <1>8, <2>1 DEF FileRead, HasBefore
  <2>4. v <= work[f]
    BY <2>1, <2>2, <2>3, VersionFacts
  <2>5. f \notin left => Within(q.docs, q.before, staged, f, work[f])
    <3>1. CASE f = g
      BY <1>8, <1>10, <2>0, <2>2, <2>3, <2>4, <3>1, ReadFits, WithinNow
    <3>2. ASSUME f # g, f \notin left
          PROVE  Within(q.docs, q.before, staged, f, work[f])
      <4>1. Within(r.docs, r.before, staged, f, top)
        BY <1>2, <2>1, <3>2 DEF FileRead, left
      <4>2. Within(r.docs, r.before, staged, f, work[f])
        BY <2>1, <2>2, <4>1, WithinLater
      <4>3. f \in Files \ {g}
        BY <2>0, <3>2
      <4>4. Within(r.docs \cup TextOf(g), r.before, staged, f, work[f])
        BY <1>10, <2>2, <4>2, <4>3, ReadFits
      <4> QED BY <1>8, <4>4
    <3> QED BY <3>1, <3>2
  <2>6. FileRead(q, staged, f, work[f])
    BY <1>8, <1>9, <2>3, <2>4, <2>5 DEF FileRead, Covers
  <2> QED BY <2>2, <2>6
<1>13. SoundSearch(q, staged, work)
  BY <1>8, <1>11, <1>12 DEF SoundSearch, drop
<1> QED BY <1>2, <1>5, <1>13, StepSound DEF SearchInvariant, CacheTellsTruth

\* A fingerprint that did not move settles what was read since the first one.
LEMMA Unmoved ==
  ASSUME NothingReturns, TypeInvariant, SearchInvariant, NEW s \in Searchers,
         Printed(s, "mid") \/ Printed(s, "last"), ~Moved(s)
  PROVE  /\ search[s].docs = Described(search[s].before)
         /\ search[s].truth = Described(search[s].before)
         /\ search[s].check = "last" => search[s].lines = Described(search[s].before)
<1> DEFINE r == search[s]
           drop == r.options.drop
<1>1. r \in Searches /\ staged \in [Files -> States] /\ work \in [Files -> States]
  BY DEF TypeInvariant, SearchType
<1>2. r.pc = "hash" /\ r.todo = {} /\ r.check \in {"mid", "last"} /\ r.fp = r.before
  BY DEF Printed, At, Moved
<1>3. SoundSearch(r, staged, work)
  BY DEF SearchInvariant
<1> HIDE DEF r
<1>4. Shape(r, staged) /\ WellPrinted(r.before, staged, drop)
  BY <1>2, <1>3 DEF SoundSearch, Shape
<1>5. /\ r.before \in Prints /\ r.docs \in SUBSET (Files \X Versions)
      /\ r.truth \in SUBSET (Files \X Versions) /\ r.lines \in SUBSET (Files \X Versions)
  BY <1>1 DEF Searches
<1>6. ASSUME NEW f \in Scope(staged, drop)
      PROVE  \E top \in States : FileRead(r, staged, f, top) /\ Says(r.before, staged, f, top)
  <2>1. PICK top \in States : FileRead(r, staged, f, top)
    BY <1>2, <1>3 DEF SoundSearch
  <2>2. Says(r.fp, staged, f, top)
    BY <1>2, <2>1 DEF FileRead, Covers
  <2> QED BY <1>2, <2>1, <2>2
<1>7. CASE r.check = "mid"
  <2>1. \A f \in Scope(staged, drop) : \E top \in States :
          /\ Says(r.before, staged, f, top)
          /\ Within(r.docs, r.before, staged, f, top) /\ Within(r.truth, r.before, staged, f, top)
    BY <1>2, <1>6, <1>7 DEF FileRead
  <2>2. \A d \in r.docs \cup r.truth : d[1] \in Scope(staged, drop)
    BY <1>4 DEF Shape
  <2> HIDE DEF drop
  <2>3. r.docs = Described(r.before)
    BY <1>1, <1>4, <1>5, <2>1, <2>2, Settled
  <2>4. r.truth = Described(r.before)
    BY <1>1, <1>4, <1>5, <2>1, <2>2, Settled
  <2> QED BY <1>7, <2>3, <2>4 DEF r
<1>8. CASE r.check = "last"
  <2>1. r.docs = Described(r.before) /\ r.truth = Described(r.before)
    BY <1>4, <1>8 DEF Shape
  <2>2. \A d \in r.lines : \E e \in r.docs : e[1] = d[1]
    BY <1>4 DEF Shape
  <2>3. \A d \in r.lines : d[1] \in Scope(staged, drop)
    BY <1>4, <2>2 DEF Shape
  <2>4. ASSUME NEW f \in Scope(staged, drop), \E d \in r.lines \cup Described(r.before) : d[1] = f
        PROVE  \E top \in States : Says(r.before, staged, f, top) /\ Within(r.lines, r.before, staged, f, top)
    <3>1. \E d \in r.docs : d[1] = f
      BY <2>1, <2>2, <2>4
    <3> QED BY <1>6, <1>8, <3>1 DEF FileRead
  <2>5. r.lines = Described(r.before)
    BY <1>1, <1>4, <1>5, <2>3, <2>4, Settled
  <2> QED BY <2>1, <2>5 DEF r
<1> QED BY <1>2, <1>7, <1>8

\* The steps that end an attempt.
LEMMA RankSound ==
  ASSUME NothingReturns, TypeInvariant, SearchInvariant, NEW s \in Searchers, Rank(s)
  PROVE  SearchInvariant'
<1> DEFINE r == search[s]
           drop == r.options.drop
           left == {d[1] : d \in r.docs}
           p == [r EXCEPT !.pc = "snippets"]
           q == Then(p, left, "last")
<1>1. r \in Searches
  BY DEF TypeInvariant, SearchType
<1>2. UNCHANGED cache /\ r.pc = "hash" /\ r.check = "mid" /\ r.todo = {} /\ Becomes(s, q)
  BY DEF Rank, Printed, At
<1>3. SoundSearch(r, staged, work)
  BY DEF SearchInvariant
<1>4. r.docs = Described(r.before) /\ r.truth = Described(r.before)
  BY Unmoved DEF Rank
<1>5. /\ p \in Searches /\ p.pc = "snippets" /\ p.check = r.check /\ p.options = r.options
      /\ p.docs = r.docs /\ p.before = r.before /\ p.out = r.out
      /\ p.lines = r.lines /\ p.truth = r.truth
  BY <1>1 DEF Searches
<1>6. left \in SUBSET Files
  BY <1>1 DEF Searches
<1>7. \A d \in r.docs : d[1] \in left
  OBVIOUS
<1>8. \A f \in left : \E d \in r.docs : d[1] = f
  OBVIOUS
<1> HIDE DEF p, left
<1>9. /\ q.options = r.options /\ q.docs = r.docs
      /\ q.before = r.before /\ q.out = r.out /\ q.lines = r.lines /\ q.truth = r.truth
      /\ q.todo = left
      /\ left = {} => q.pc = "index" /\ q.check = "last"
      /\ left # {} => q.pc = "snippets" /\ q.check = "mid"
  BY <1>2, <1>5, <1>6, ThenFacts
<1> HIDE DEF q, r, drop
<1>10. Shape(r, staged) /\ r.lines = {}
  BY <1>2, <1>3 DEF SoundSearch, Shape
<1>11. Shape(q, staged)
  BY <1>2, <1>4, <1>8, <1>9, <1>10 DEF Shape, HasBefore
<1>12. ASSUME NEW f \in Scope(staged, drop), NEW top \in States, FileRead(r, staged, f, top)
       PROVE  FileRead(q, staged, f, top)
  <2>1. HasBefore(q) => \E v \in States : Says(q.before, staged, f, v) /\ v <= top
    BY <1>2, <1>9, <1>12 DEF FileRead, HasBefore
  <2>2. (\E d \in q.docs : d[1] = f) => f \in left
    BY <1>7, <1>9
  <2> QED BY <1>9, <2>1, <2>2 DEF FileRead, Covers
<1>13. SoundSearch(q, staged, work)
  BY <1>2, <1>3, <1>9, <1>11, <1>12 DEF SoundSearch, drop
<1> QED BY <1>2, <1>13, StepSound DEF SearchInvariant, CacheTellsTruth

\* The read of a file for its line is between two fingerprints.
LEMMA SnippetSound ==
  ASSUME TypeInvariant, SearchInvariant, NEW s \in Searchers, Snippet(s)
  PROVE  SearchInvariant'
<1> DEFINE r == search[s]
           drop == r.options.drop
<1>1. r \in Searches /\ staged \in [Files -> States] /\ work \in [Files -> States]
  BY DEF TypeInvariant, SearchType
<1>2. UNCHANGED cache /\ r.pc = "snippets"
  BY DEF Snippet, At
<1>3. SoundSearch(r, staged, work)
  BY DEF SearchInvariant
<1>4. PICK g \in Files :
        /\ g \in r.todo
        /\ Becomes(s, Then([r EXCEPT !.lines = r.lines \cup TextOf(g)], r.todo \ {g}, "last"))
  BY DEF Snippet, NextOf
<1> DEFINE left == r.todo \ {g}
           p == [r EXCEPT !.lines = r.lines \cup TextOf(g)]
           q == Then(p, left, "last")
<1>5. Becomes(s, q)
  BY <1>4
<1>6. TextOf(g) \in SUBSET (Files \X Versions) /\ left \in SUBSET Files /\ \A d \in TextOf(g) : d[1] = g
  BY <1>1, VersionFacts DEF TextOf, Searches
<1>7. /\ p \in Searches /\ p.pc = "snippets" /\ p.check = r.check /\ p.options = r.options
      /\ p.docs = r.docs /\ p.before = r.before /\ p.out = r.out
      /\ p.lines = r.lines \cup TextOf(g) /\ p.truth = r.truth
  BY <1>1, <1>2, <1>6 DEF Searches
<1> HIDE DEF p, left
<1>8. /\ q.options = r.options /\ q.docs = r.docs
      /\ q.before = r.before /\ q.out = r.out /\ q.lines = r.lines \cup TextOf(g) /\ q.truth = r.truth
      /\ q.todo = left
      /\ left = {} => q.pc = "index" /\ q.check = "last"
      /\ left # {} => q.pc = "snippets" /\ q.check = r.check
  BY <1>6, <1>7, ThenFacts
<1>9. /\ Shape(r, staged) /\ r.check = "mid"
      /\ \A f \in r.todo : \E e \in r.docs : e[1] = f
      /\ \A d \in r.lines : d[1] \notin r.todo
      /\ \A d \in r.lines : \E e \in r.docs : e[1] = d[1]
      /\ r.docs = Described(r.before) /\ r.truth = r.docs
  BY <1>2, <1>3 DEF SoundSearch, Shape
<1>10. r.lines \in SUBSET (Files \X Versions) /\ \A d \in r.lines : d[1] # g
  BY <1>1, <1>4, <1>9 DEF Searches
<1> HIDE DEF q, r, drop
<1>11. Shape(q, staged)
  <2>1. \A d \in q.lines : \E e \in q.docs : e[1] = d[1]
    BY <1>4, <1>6, <1>8, <1>9
  <2>2. /\ \A f \in left : \E e \in q.docs : e[1] = f
        /\ \A d \in q.lines : d[1] \notin left
    BY <1>6, <1>8, <1>9 DEF left
  <2>3. HasBefore(q) /\ HasBefore(r)
    BY <1>8, <1>9 DEF HasBefore
  <2> QED BY <1>2, <1>8, <1>9, <2>1, <2>2, <2>3 DEF Shape, drop
<1>12. ASSUME NEW f \in Scope(staged, drop)
       PROVE  \E top \in States : Legal(f, top) /\ top <= work[f] /\ FileRead(q, staged, f, top)
  <2>0. f \in Files
    BY DEF Scope
  <2>1. PICK top \in States : Legal(f, top) /\ top <= work[f] /\ FileRead(r, staged, f, top)
    BY <1>2, <1>3 DEF SoundSearch, drop
  <2>2. work[f] \in States /\ work[f] <= work[f] /\ Legal(f, work[f])
    BY <1>1, <2>0, VersionFacts DEF SearchInvariant
  <2>3. PICK v \in States : Says(q.before, staged, f, v) /\ v <= top
    BY <1>2, <1>8, <2>1 DEF FileRead, HasBefore
  <2>4. v <= work[f]
    BY <2>1, <2>2, <2>3, VersionFacts
  <2>5. (\E d \in q.docs : d[1] = f) /\ f \notin left => Within(q.lines, q.before, staged, f, work[f])
    <3>1. CASE f = g
      BY <1>8, <1>10, <2>0, <2>2, <2>3, <2>4, <3>1, ReadFits, WithinNow
    <3>2. ASSUME f # g, f \notin left, \E d \in q.docs : d[1] = f
          PROVE  Within(q.lines, q.before, staged, f, work[f])
      <4>1. Within(r.lines, r.before, staged, f, top)
        BY <1>2, <1>8, <2>1, <3>2 DEF FileRead, left
      <4>2. Within(r.lines, r.before, staged, f, work[f])
        BY <2>1, <2>2, <4>1, WithinLater
      <4>3. f \in Files \ {g}
        BY <2>0, <3>2
      <4>4. Within(r.lines \cup TextOf(g), r.before, staged, f, work[f])
        BY <1>10, <2>2, <4>2, <4>3, ReadFits
      <4> QED BY <1>8, <4>4
    <3> QED BY <3>1, <3>2
  <2>6. FileRead(q, staged, f, work[f])
    BY <1>8, <1>9, <2>3, <2>4, <2>5 DEF FileRead, Covers
  <2> QED BY <2>2, <2>6
<1>13. SoundSearch(q, staged, work)
  BY <1>8, <1>11, <1>12 DEF SoundSearch, drop
<1> QED BY <1>2, <1>5, <1>13, StepSound DEF SearchInvariant, CacheTellsTruth

\* The last fingerprint settles index, lines and the entry of the cache.
LEMMA AnswerSound ==
  ASSUME NothingReturns, TypeInvariant, SearchInvariant, NEW s \in Searchers, Answer(s)
  PROVE  SearchInvariant'
<1> DEFINE r == search[s]
           q == Ended(r, "answer")
<1>1. /\ q.pc = "idle" /\ q.out = "answer"
      /\ q.docs = r.docs /\ q.lines = r.lines /\ q.truth = r.truth
  BY DEF Ended, Idle
<1>2. Becomes(s, q) /\ r.check = "last"
  BY DEF Answer, Printed
<1>3. r.docs = Described(r.before) /\ r.truth = r.docs /\ r.lines = r.docs
  BY <1>2, Unmoved DEF Answer
<1>4. Entry(s).docs = r.docs /\ Entry(s).fp = r.before
  BY DEF Entry
<1> HIDE DEF q, r
<1>5. SoundSearch(q, staged, work)
  BY <1>1, <1>3 DEF SoundSearch
<1>6. CacheTellsTruth'
  <2>1. cache' = cache \/ cache' = Entry(s)
    BY DEF Answer
  <2> QED BY <1>3, <1>4, <2>1 DEF CacheTellsTruth, SearchInvariant
<1> QED BY <1>2, <1>5, <1>6, StepSound

\* A fingerprint that moved leaves nothing that was read.
LEMMA RaceSound ==
  ASSUME TypeInvariant, SearchInvariant, NEW s \in Searchers, Race(s)
  PROVE  SearchInvariant'
<1>1. Becomes(s, StartOver(search[s])) /\ UNCHANGED cache
  BY DEF Race
<1>2. SoundSearch(StartOver(search[s]), staged, work)
  BY AttemptSound, FailsSound DEF StartOver
<1> QED BY <1>1, <1>2, StepSound DEF SearchInvariant, CacheTellsTruth

\* The beginning of a search, and what others do.
LEMMA OthersStepSound ==
  ASSUME NothingReturns, TypeInvariant, SearchInvariant,
         \/ \E s \in Searchers : Begin(s)
         \/ \E f \in Files : Edit(f) \/ Stage(f)
         \/ Spoil
  PROVE  SearchInvariant'
<1>0. /\ search \in [Searchers -> Searches] /\ work \in [Files -> States]
      /\ staged \in [Files -> States]
  BY DEF TypeInvariant, SearchType
<1>1. ASSUME NEW s \in Searchers, Begin(s)
      PROVE  SearchInvariant'
  <2>1. PICK q : /\ search' = [search EXCEPT ![s] = q]
                 /\ SoundSearch(q, staged, work)
    BY <1>1, AttemptSound DEF Begin
  <2>2. UNCHANGED <<work, staged, cache>>
    BY <1>1 DEF Begin
  <2>3. \A t \in Searchers : SoundSearch(search'[t], staged, work)
    BY <1>0, <2>1 DEF SearchInvariant
  <2> QED BY <2>2, <2>3 DEF SearchInvariant, CacheTellsTruth
<1>2. ASSUME NEW f \in Files, Edit(f)
      PROVE  SearchInvariant'
  <2>1. PICK v \in States : v > work[f] /\ (v = Gone => f \notin Fresh) /\ work' = [work EXCEPT ![f] = v]
    BY <1>2 DEF Edit
  <2>2. UNCHANGED <<staged, cache, search>>
    BY <1>2 DEF Edit
  <2>3. \A g \in Files : work[g] \in States /\ work'[g] \in States /\ work[g] <= work'[g]
    BY <1>0, <2>1, VersionFacts
  <2>4. \A g \in Files : Legal(g, work'[g])
    <3>1. v # 0
      BY <1>0, <2>1, VersionFacts
    <3>2. Legal(f, v)
      BY <2>1, <3>1 DEF Legal
    <3> QED BY <1>0, <2>1, <3>2 DEF SearchInvariant
  <2>5. ASSUME NEW s \in Searchers
        PROVE  SoundSearch(search[s], staged, work')
    <3>1. SoundSearch(search[s], staged, work)
      BY DEF SearchInvariant
    <3>2. \A g \in Files : \A top \in States : top <= work[g] => top <= work'[g]
      BY <2>3, VersionFacts
    <3> QED BY <3>1, <3>2 DEF SoundSearch, Scope
  <2> QED BY <2>2, <2>4, <2>5 DEF SearchInvariant, CacheTellsTruth
<1>3. ASSUME NEW f \in Files, Stage(f)
      PROVE  SearchInvariant'
  <2>1. UNCHANGED <<work, cache, search>> /\ \A s \in Searchers : search[s].pc = "idle"
    BY <1>3 DEF Stage, At, NothingReturns
  <2>2. \A s \in Searchers : SoundSearch(search[s], staged', work)
    BY <2>1 DEF SearchInvariant, SoundSearch
  <2> QED BY <2>1, <2>2 DEF SearchInvariant, CacheTellsTruth
<1>4. CASE Spoil
  BY <1>4 DEF Spoil, SearchInvariant, CacheTellsTruth
<1> QED BY <1>1, <1>2, <1>3, <1>4

\* The inductive invariant holds, when no file returns to what it was.
THEOREM SearchInvariantHolds == ASSUME NothingReturns PROVE Spec => []SearchInvariant
<1>1. Init => SearchInvariant
  <2> SUFFICES ASSUME Init PROVE SearchInvariant
    OBVIOUS
  <2>1. \A f \in Files : Legal(f, work[f])
    BY VersionFacts DEF Init, Legal
  <2>2. \A s \in Searchers : search[s].pc = "idle" /\ search[s].out = "none"
    BY DEF Init, Idle
  <2>3. \A s \in Searchers : SoundSearch(search[s], staged, work)
    BY <2>2 DEF SoundSearch
  <2> QED BY <2>1, <2>3 DEF Init, SearchInvariant, CacheTellsTruth
<1>2. TypeInvariant /\ SearchInvariant /\ [Next]_vars => SearchInvariant'
  <2> SUFFICES ASSUME TypeInvariant, SearchInvariant, [Next]_vars PROVE SearchInvariant'
    OBVIOUS
  <2>1. CASE UNCHANGED vars
    BY <2>1 DEF vars, SearchInvariant, CacheTellsTruth
  <2>2. ASSUME NEW s \in Searchers, Step(s)
        PROVE  SearchInvariant'
    BY <2>2, PrintIndexSound, PrintDiffSound, PrintListSound, PrintHashSound, LoadSound,
       EnumerateSound, OthersSound, ReadFileSound, RaceSound, RankSound, SnippetSound, AnswerSound
       DEF Step
  <2> QED BY <2>1, <2>2, OthersStepSound DEF Next
<1> QED BY <1>1, <1>2, TypeInvariantHolds, PTL DEF Spec

\* The results and lines of an answer are the texts of one state of the
\* repository, whatever others write while the search reads file by file, and
\* whichever search wrote the cache.
THEOREM AnswerIsOneState == ASSUME NothingReturns PROVE Spec => []AnswerOfOneState
<1>1. SearchInvariant /\ TypeInvariant => AnswerOfOneState
  <2> SUFFICES ASSUME SearchInvariant, TypeInvariant, NEW s \in Searchers, search[s].out = "answer"
               PROVE  search[s].docs = search[s].truth /\ search[s].lines = search[s].truth
    BY DEF AnswerOfOneState
  <2>1. SoundSearch(search[s], staged, work)
    BY DEF SearchInvariant
  <2> QED BY <2>1 DEF SoundSearch, Shape
<1> QED BY <1>1, SearchInvariantHolds, TypeInvariantHolds, PTL

\* A cached index is the one its fingerprint stands for, for any number of
\* searches that share the file and write it under different options.
THEOREM CacheIsTrue == ASSUME NothingReturns PROVE Spec => []CacheTellsTruth
<1>1. SearchInvariant => CacheTellsTruth
  BY DEF SearchInvariant
<1> QED BY <1>1, SearchInvariantHolds, PTL

=============================================================================
