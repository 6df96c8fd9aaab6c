---------------------------- MODULE MCRepoSearch ----------------------------
(* An instance of RepoSearch: a file's versions are a text, a link or a    *)
(* binary file and another text; the second file may be excluded.          *)
EXTENDS RepoSearch, TLC

MCKinds == <<"text", "link", "text">>
MCKindsBinary == <<"text", "skip", "text">>
MCOptions == {[max |-> 2, drop |-> {}], [max |-> 1, drop |-> {2}]}
MCLowered == {[max |-> 2, drop |-> {}], [max |-> 1, drop |-> {}]}
MCSearchers == Permutations(Searchers)
=============================================================================
