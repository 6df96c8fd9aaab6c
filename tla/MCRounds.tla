------------------------------ MODULE MCRounds ------------------------------
(* Instances of Rounds: a source file and a document.  note differs from   *)
(* code in a comment, directive in a comment with the form of one, export  *)
(* in one without it that a tool reads.  raw1 and raw2 differ in a line of *)
(* a string that looks like a comment, and so do text1 and text2, whose    *)
(* string has no sign the code knows (a plain string of Rust or PHP).      *)
EXTENDS Rounds

MCHolds == [code |-> {"code", "note", "directive", "raw1", "raw2", "text1", "text2"},
            doc |-> {"words"}]
MCHoldsStrings == [code |-> {"text1", "text2"}, doc |-> {"words"}]
MCHoldsComments == [code |-> {"code", "note", "export"}, doc |-> {"words"}]
MCHoldsListed == [code |-> {"code", "note", "other"}, doc |-> {}]
MCAllLines == [code |-> <<"x := 1">>, note |-> <<"// a", "", "x := 1">>,
               other |-> <<"x := 2">>,
               directive |-> <<"//go:build unix", "x := 1">>,
               export |-> <<"//export x", "x := 1">>,
               raw1 |-> <<"raw", "// a", "end">>, raw2 |-> <<"raw", "// b", "end">>,
               text1 |-> <<"plain", "// a", "end">>, text2 |-> <<"plain", "// b", "end">>,
               words |-> <<"words">>]
MCLinesOf(holds) ==
  [c \in UNION {holds[p] : p \in DOMAIN holds} |-> MCAllLines[c]]
MCLines == MCLinesOf(MCHolds)
MCLinesStrings == MCLinesOf(MCHoldsStrings)
MCLinesComments == MCLinesOf(MCHoldsComments)
MCLinesListed == MCLinesOf(MCHoldsListed)
MCLineKinds == [l \in UNION {{MCAllLines[c][i] : i \in DOMAIN MCAllLines[c]} : c \in DOMAIN MCAllLines} |->
                CASE l = "" -> "blank"
                  [] l \in {"// a", "// b"} -> "comment"
                  [] l = "//go:build unix" -> "directive"
                  [] l = "//export x" -> "hint"
                  [] OTHER -> "text"]
MCInside == [c \in DOMAIN Lines |-> IF c \in {"raw1", "raw2", "text1", "text2"} THEN {2, 3} ELSE {}]
MCGuarded == {"raw1", "raw2"}
=============================================================================
