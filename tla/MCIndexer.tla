------------------------------ MODULE MCIndexer ------------------------------
(***************************************************************************)
(* Lines, repositories and versions of a Go file for IndexerParts, and its *)
(* symmetry.                                                               *)
(***************************************************************************)
EXTENDS IndexerParts, TLC

\* Lines, with chunk sizes between 2 and 4: code, the head of a function and
\* of a nested one, of a class, a closing brace, a blank line, and a line
\* that is longer than a chunk.
Line(length, delta, indent, def, blank) ==
    [size |-> length, delta |-> delta, indent |-> indent, def |-> def,
     blank |-> blank]

SampleLines == {
    Line(2,  0, 1, "none",     FALSE),
    Line(2,  1, 0, "function", FALSE),
    Line(2,  1, 1, "function", FALSE),
    Line(2,  1, 0, "class",    FALSE),
    Line(1, -1, 0, "none",     FALSE),
    Line(1,  0, 0, "none",     TRUE),
    Line(5,  0, 1, "none",     FALSE) }

\* Two repositories.  Of A's files one is long enough for two batches and one
\* is excluded; A ignores its generated file, and B's pattern matches a file
\* of A.
TheFiles == {"a.go", "a_gen.go", "a.git", "b.go"}
TreeOf == [A |-> <<"a.git", "a.go", "a_gen.go">>, B |-> <<"b.go">>]
GitignoreOf == [A |-> <<"#", "*_gen.go">>, B |-> <<"a.go">>]
Matching == {<<"*_gen.go", "a_gen.go">>, <<"a.go", "a.go">>}
SizesOf == [f \in TheFiles |-> IF f = "a.go" THEN {1, 3} ELSE {1}]

\* Versions of a Go file: "groups" has two types in one declaration, "local" a
\* function whose local type starts on the same line, and "moved" is "plain"
\* with an empty group put before it.
Function(name, first, last) ==
    [kind |-> "function", names |-> <<name>>, first |-> first, last |-> last]
Types(names, first, last) ==
    [kind |-> "type", names |-> names, first |-> first, last |-> last]

TextOf ==
    [plain  |-> <<"package", "func A", "end A", "type T">>,
     moved  |-> <<"package", "type ()", "func A", "end A", "type T">>,
     groups |-> <<"package", "type (", "X", "Y", ")", "func A", "end A">>,
     local  |-> <<"package", "func A { type L }">>,
     broken |-> <<"package", "func A", "type T">>,
     gone   |-> <<>>]

DeclsOf ==
    [plain  |-> <<Function("A", 2, 3), Types(<<"T">>, 4, 4)>>,
     moved  |-> <<Types(<<>>, 2, 2), Function("A", 3, 4), Types(<<"T">>, 5, 5)>>,
     groups |-> <<Types(<<"X", "Y">>, 2, 5), Function("A", 6, 7)>>,
     local  |-> <<Function("A", 2, 2), Types(<<"L">>, 2, 2)>>,
     broken |-> <<>>,
     gone   |-> <<>>]

JobSymmetry == Permutations(Jobs)
=============================================================================
