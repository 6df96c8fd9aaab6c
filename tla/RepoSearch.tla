----------------------------- MODULE RepoSearch -----------------------------
(***************************************************************************)
(* The search of a repository (src/glm-worker/internal/reposearch): an     *)
(* index of the working tree is built, or taken from a cache file that     *)
(* every search of the repository shares, while people and other programs  *)
(* edit the tree and stage files.  Nothing locks the tree: a search takes  *)
(* a fingerprint of it before, between and after its reads, starts over    *)
(* once when the fingerprint moved, and writes its index to the cache      *)
(* under the fingerprint it started from.                                  *)
(*                                                                         *)
(* A file is a number (its place in the path order) and its content a      *)
(* version of a Kind; version 0 is a file not written yet, Gone one that   *)
(* was deleted.  Git is external: ls-files and diff each see one state.    *)
(***************************************************************************)
EXTENDS Integers, Sequences, FiniteSets

CONSTANTS
  Searchers,    \* searches that may run at the same time
  NFiles,       \* files of the repository
  Kinds,        \* the kind of version v is Kinds[v]
  Options,      \* what callers may ask for: max, the MaxFiles, and drop, the
                \* files that their excluded directories cover
  Fresh,        \* files that do not exist at first
  StageAnytime, \* FALSE: git's index rests while a search runs
  MaxEdits,     \* bound: edits and stagings
  MaxSearches   \* bound: searches in a behaviour

ASSUME SearchAssumption ==
  /\ NFiles \in Nat \ {0} /\ MaxEdits \in Nat /\ MaxSearches \in Nat
  /\ Fresh \subseteq 1..NFiles /\ StageAnytime \in BOOLEAN
  /\ Options \subseteq [max : Nat, drop : SUBSET (1..NFiles)]
  /\ Kinds \in Seq({"text", "skip", "link"}) \ {<<>>}

VARIABLES
  work,      \* the version of each file in the working tree
  staged,    \* the version of each file in git's index
  cache,     \* the cache file
  search,    \* the searches
  edits, started

vars == <<work, staged, cache, search, edits, started>>

Files == 1..NFiles
Versions == DOMAIN Kinds
Gone == Len(Kinds) + 1
States == Versions \cup {0, Gone}
NoCache == [fp |-> "none"]
Skipped == 0                      \* the projection of a file that is not read
MaxAttempts == 2                  \* maxSearchAttempts

-----------------------------------------------------------------------------
(* What git and the file system tell of the repository                      *)

Stored(v) == v \in Versions

\* trackedFileEntries: the index entries that are regular files; a link or
\* a submodule is not searched.  excludedPath drops the excluded directories.
Tracked(index, drop) == {f \in Files \ drop : Stored(index[f]) /\ Kinds[index[f]] # "link"}

\* untrackedFilePaths: what is in the tree and not in the index.
Untracked(index, tree, drop) == {f \in Files \ drop : ~Stored(index[f]) /\ Stored(tree[f])}

\* readSearchableFile: a text is read; a binary or large file or a link is
\* skipped; a file that is not there is missing.
Reads(v) == CASE ~Stored(v)         -> "missing"
              [] Stored(v) /\ Kinds[v] = "text" -> "indexed"
              [] OTHER              -> "skipped"

\* The three parts of a fingerprint.
IndexDigest(index, drop) == {<<f, index[f]>> : f \in Tracked(index, drop)}
DiffDigest(index, tree, drop) ==
  {<<f, tree[f]>> : f \in {g \in Files \ drop : Stored(index[g]) /\ tree[g] # index[g]}}
Projection(v) == IF Reads(v) = "indexed" THEN v ELSE Skipped

\* The texts a search of this state indexes, with their versions.
Corpus(index, tree, drop) ==
  {<<f, tree[f]>> : f \in {g \in Tracked(index, drop) \cup Untracked(index, tree, drop) :
                             Reads(tree[g]) = "indexed"}}

\* The corpus a fingerprint stands for.
Described(fp) ==
  {e \in fp.diff : Reads(e[2]) = "indexed" /\ \E d \in fp.index : d[1] = e[1]}
  \cup {e \in fp.index : Reads(e[2]) = "indexed" /\ \A d \in fp.diff : d[1] # e[1]}
  \cup {e \in fp.plain : e[2] # Skipped}

-----------------------------------------------------------------------------
(* The cache file                                                           *)

\* cacheMatchesRepository: the excluded directories, the fingerprint and the
\* limits of the caller; any other difference is a miss.
Matches(c, fp, options) ==
  /\ c # NoCache
  /\ c.drop = options.drop
  /\ c.fp = fp
  /\ Cardinality(c.docs) <= options.max

-----------------------------------------------------------------------------
(* A search                                                                 *)

EmptyPrint == [index |-> {}, diff |-> {}, plain |-> {}]

Idle == [pc |-> "idle", check |-> "before", attempt |-> 0, out |-> "none",
         options |-> [max |-> 0, drop |-> {}],
         fp |-> EmptyPrint, before |-> EmptyPrint, todo |-> {}, hit |-> FALSE,
         docs |-> {}, lines |-> {}, truth |-> {}, from |-> 0]

\* The search s is at pc, and becomes the search r; the repository stays.
At(s, pc) == search[s].pc = pc
Becomes(s, r) ==
  /\ search' = [search EXCEPT ![s] = r]
  /\ UNCHANGED <<work, staged, edits, started>>

\* A fingerprint starts: nothing of it is read yet.
Printing(r, check) ==
  [r EXCEPT !.pc = "index", !.check = check, !.fp = EmptyPrint, !.todo = {}]

\* A pass over files goes on with those left, or is followed by a check.
Then(r, left, check) == IF left = {} THEN Printing(r, check) ELSE [r EXCEPT !.todo = left]

\* The files are taken in the order of their paths.
NextOf(s, f) == f \in search[s].todo /\ \A g \in search[s].todo : f <= g

\* What the read of a file adds to an index or to the lines.
TextOf(f) == IF Reads(work[f]) = "indexed" THEN {<<f, work[f]>>} ELSE {}

\* The end of a search, with everything it no longer needs forgotten.
Ended(r, out) ==
  [Idle EXCEPT !.out = out, !.options = r.options, !.from = r.from,
               !.docs = r.docs, !.lines = r.lines, !.truth = r.truth]
Fails(r, out) == [Ended(r, out) EXCEPT !.docs = {}, !.lines = {}, !.truth = {}]

\* The first attempt of a search, or another one.
Attempt(n, options, from) ==
  [Idle EXCEPT !.pc = "index", !.attempt = n, !.options = options, !.from = from]

\* Search: a call with valid options and a query that has tokens.
Begin(s) ==
  /\ At(s, "idle") /\ started < MaxSearches
  /\ \E options \in Options :
       search' = [search EXCEPT ![s] = Attempt(1, options, edits)]
  /\ started' = started + 1
  /\ UNCHANGED <<work, staged, cache, edits>>

\* fingerprintIndexDigest.  The check between index and snippets also notes,
\* for the properties, the corpus of this moment.
PrintIndex(s) ==
  /\ At(s, "index")
  /\ LET drop == search[s].options.drop IN
     Becomes(s, [search[s] EXCEPT
       !.pc = "diff",
       !.fp = [EmptyPrint EXCEPT !.index = IndexDigest(staged, drop)],
       !.truth = CASE search[s].check = "before" -> {}
                   [] search[s].check = "mid"    -> Corpus(staged, work, drop)
                   [] search[s].check = "last"   -> search[s].truth])
  /\ UNCHANGED cache

\* fingerprintWorktreeDigest: git diff, ...
PrintDiff(s) ==
  /\ At(s, "diff")
  /\ Becomes(s, [search[s] EXCEPT
       !.pc = "list",
       !.fp = [search[s].fp EXCEPT !.diff = DiffDigest(staged, work, search[s].options.drop)]])
  /\ UNCHANGED cache

\* ... the list of the untracked files, ...
PrintList(s) ==
  /\ At(s, "list")
  /\ Becomes(s, [search[s] EXCEPT
       !.pc = "hash", !.todo = Untracked(staged, work, search[s].options.drop)])
  /\ UNCHANGED cache

\* ... and the projection of each of them; one that vanished since it was
\* listed fails the search.
PrintHash(s) ==
  /\ At(s, "hash")
  /\ \E f \in Files :
       /\ NextOf(s, f)
       /\ Becomes(s, IF Reads(work[f]) = "missing" THEN Fails(search[s], "error")
                     ELSE [search[s] EXCEPT
                            !.todo = search[s].todo \ {f},
                            !.fp = [search[s].fp EXCEPT
                                     !.plain = search[s].fp.plain \cup {<<f, Projection(work[f])>>}]])
  /\ UNCHANGED cache

Printed(s, check) == At(s, "hash") /\ search[s].todo = {} /\ search[s].check = check

\* loadIndex: the cached index when everything matches, a rebuild otherwise.
Load(s) ==
  /\ Printed(s, "before")
  /\ LET r   == search[s]
         hit == Matches(cache, r.fp, r.options) IN
     Becomes(s, IF hit
                THEN Printing([r EXCEPT !.before = r.fp, !.hit = TRUE, !.docs = cache.docs], "mid")
                ELSE [r EXCEPT !.pc = "enumerate", !.before = r.fp])
  /\ UNCHANGED cache

\* enumerateFiles: the tracked files, then the untracked ones.
Enumerate(s) ==
  /\ At(s, "enumerate")
  /\ Becomes(s, [search[s] EXCEPT
       !.pc = "others", !.todo = Tracked(staged, search[s].options.drop)])
  /\ UNCHANGED cache

Others(s) ==
  /\ At(s, "others")
  /\ LET r     == search[s]
         paths == r.todo \cup Untracked(staged, work, r.options.drop) IN
     Becomes(s, IF Cardinality(paths) > r.options.max THEN Fails(r, "limit")
                ELSE Then([r EXCEPT !.pc = "read"], paths, "mid"))
  /\ UNCHANGED cache

\* rebuildIndex: one file after the other; what is not a text is skipped.
ReadFile(s) ==
  /\ At(s, "read")
  /\ \E f \in Files :
       /\ NextOf(s, f)
       /\ Becomes(s, Then([search[s] EXCEPT !.docs = search[s].docs \cup TextOf(f)],
                          search[s].todo \ {f}, "mid"))
  /\ UNCHANGED cache

\* A comparison of the index digests only.
MovedIndex(s) == search[s].fp.index # search[s].before.index

\* fingerprintUnchanged
Moved(s) == search[s].fp # search[s].before

\* An attempt more than allowed.
StartOverAgain(r) ==
  IF r.attempt <= MaxAttempts THEN Attempt(r.attempt + 1, r.options, r.from) ELSE Fails(r, "race")

\* An attempt that starts over with the fingerprint of the first one.
StartOverOld(r) ==
  IF r.attempt < MaxAttempts
  THEN [r EXCEPT !.pc = "enumerate", !.todo = {}, !.docs = {}, !.lines = {},
                 !.attempt = r.attempt + 1]
  ELSE Fails(r, "race")

\* What a fingerprint that moved does: the whole attempt again, once, and
\* then ErrIndexRace.
StartOver(r) ==
  IF r.attempt < MaxAttempts THEN Attempt(r.attempt + 1, r.options, r.from) ELSE Fails(r, "race")

Race(s) ==
  /\ Printed(s, "mid") \/ Printed(s, "last")
  /\ Moved(s)
  /\ Becomes(s, StartOver(search[s]))
  /\ UNCHANGED cache

\* rankDocuments: the query matches every text.
Rank(s) ==
  /\ Printed(s, "mid") /\ ~Moved(s)
  /\ Becomes(s, Then([search[s] EXCEPT !.pc = "snippets"],
                     {d[1] : d \in search[s].docs}, "last"))
  /\ UNCHANGED cache

\* attachSnippets: each result's file is read again for its best line; a file
\* that cannot be read as a text leaves the result without one.  The last
\* fingerprint follows.
Snippet(s) ==
  /\ At(s, "snippets")
  /\ \E f \in Files :
       /\ NextOf(s, f)
       /\ Becomes(s, Then([search[s] EXCEPT !.lines = search[s].lines \cup TextOf(f)],
                          search[s].todo \ {f}, "last"))
  /\ UNCHANGED cache

\* The entry under a fingerprint taken after the index was built.
EntryAfter(s) ==
  [fp |-> [index |-> IndexDigest(staged, search[s].options.drop),
           diff  |-> DiffDigest(staged, work, search[s].options.drop),
           plain |-> {<<f, Projection(work[f])>> :
                        f \in Untracked(staged, work, search[s].options.drop)}],
   docs |-> search[s].docs, drop |-> search[s].options.drop]

\* The answer, with the index of a rebuild written to the cache (writeIndex)
\* unless the write fails, which is a warning.
Entry(s) == [fp |-> search[s].before, docs |-> search[s].docs, drop |-> search[s].options.drop]

Answer(s) ==
  /\ Printed(s, "last") /\ ~Moved(s)
  /\ Becomes(s, Ended(search[s], "answer"))
  /\ \/ cache' = IF search[s].hit THEN cache ELSE Entry(s)
     \/ UNCHANGED cache

-----------------------------------------------------------------------------
(* The repository and the cache file, changed by anyone                     *)

\* A file is written, or deleted when the version is Gone.  No edit brings an
\* earlier content back: two equal fingerprints around such a change show
\* nothing by design.
Edit(f) ==
  /\ edits < MaxEdits
  /\ \E v \in {w \in States : w > work[f]} :
       /\ v = Gone => f \notin Fresh
       /\ work' = [work EXCEPT ![f] = v]
  /\ edits' = edits + 1
  /\ UNCHANGED <<staged, cache, search, started>>

\* git add, and git rm for a file that is gone.
Stage(f) ==
  /\ edits < MaxEdits
  /\ StageAnytime \/ \A s \in Searchers : At(s, "idle")
  /\ work[f] # 0 /\ staged[f] # work[f]
  /\ Stored(work[f]) \/ Stored(staged[f])
  /\ staged' = [staged EXCEPT ![f] = work[f]]
  /\ edits' = edits + 1
  /\ UNCHANGED <<work, cache, search, started>>

\* The cache file is removed, or spoiled so that a search does not accept it.
Spoil ==
  /\ cache # NoCache
  /\ cache' = NoCache
  /\ UNCHANGED <<work, staged, search, edits, started>>

Init ==
  /\ work = [f \in Files |-> IF f \in Fresh THEN 0 ELSE 1]
  /\ staged \in [Files -> {0, 1}] /\ \A f \in Files : staged[f] \in {0, work[f]}
  /\ cache = NoCache
  /\ search = [s \in Searchers |-> Idle]
  /\ edits = 0 /\ started = 0

Step(s) ==
  \/ PrintIndex(s) \/ PrintDiff(s) \/ PrintList(s) \/ PrintHash(s)
  \/ Load(s) \/ Enumerate(s) \/ Others(s) \/ ReadFile(s)
  \/ Race(s) \/ Rank(s) \/ Snippet(s) \/ Answer(s)

Next ==
  \/ \E s \in Searchers : Begin(s) \/ Step(s)
  \/ \E f \in Files : Edit(f) \/ Stage(f)
  \/ Spoil

Spec == Init /\ [][Next]_vars

-----------------------------------------------------------------------------
(* Properties                                                               *)

Prints ==
  [index : SUBSET (Files \X Versions), diff : SUBSET (Files \X States),
   plain : SUBSET (Files \X (Versions \cup {Skipped}))]

Searches ==
  [pc : {"idle", "index", "diff", "list", "hash", "enumerate", "others", "read", "snippets"},
   check : {"before", "mid", "last"}, attempt : 0..MaxAttempts,
   out : {"none", "answer", "error", "limit", "race"},
   options : Options \cup {Idle.options}, fp : Prints, before : Prints,
   todo : SUBSET Files, hit : BOOLEAN, docs : SUBSET (Files \X Versions),
   lines : SUBSET (Files \X Versions), truth : SUBSET (Files \X Versions), from : 0..MaxEdits]

\* The type of the state; an index in the cache, under the options of whoever
\* wrote it, holds no file twice and none that those options exclude.
SearchType ==
  /\ work \in [Files -> States] /\ staged \in [Files -> States]
  /\ edits \in 0..MaxEdits /\ started \in 0..MaxSearches
  /\ search \in [Searchers -> Searches]
  /\ cache # NoCache => /\ cache.fp \in Prints
                        /\ \E o \in Options : o.drop = cache.drop
                        /\ \A d \in cache.docs : d \in (Files \ cache.drop) \X Versions
                        /\ \A d, e \in cache.docs : d[1] = e[1] => d = e

\* The results and the lines of an answer are the texts of one state that the
\* repository was in while the search ran, although fingerprints, index and
\* lines are read file by file between the edits of others, and the index may
\* come from another search (Search: a search never returns a mixed result, it
\* starts over once and then fails with ErrIndexRace).
AnswerOfOneState ==
  \A s \in Searchers : search[s].out = "answer" =>
    search[s].docs = search[s].truth /\ search[s].lines = search[s].truth

\* The index in the cache is the one its fingerprint stands for, so that no
\* search which finds its own fingerprint there answers from old texts
\* (writeIndex: no mixed index is written).
CacheTellsTruth == cache # NoCache => cache.docs = Described(cache.fp)

\* A search gives up with ErrIndexRace only after the repository changed at
\* least twice while it ran: one change costs a retry, never the answer.
RaceTakesTwoEdits ==
  [][\A s \in Searchers :
       search'[s].out = "race" /\ search[s].out # "race" => edits >= search[s].from + 2]_vars

\* A caller whose limit the repository exceeds gets ErrIndexLimit whether or
\* not an index is cached (loadIndex: a lowered limit leads to ErrIndexLimit
\* consistently).
LimitHoldsWithCache ==
  [][\A s \in Searchers :
       search'[s].out = "answer" /\ search[s].out # "answer" =>
         \/ edits > search[s].from
         \/ Cardinality(Tracked(staged, search[s].options.drop)
                        \cup Untracked(staged, work, search[s].options.drop))
              <= search[s].options.max]_vars
=============================================================================
