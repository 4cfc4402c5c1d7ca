------------------------------ MODULE GoParser ------------------------------
(***************************************************************************)
(* One Go file on its way into the index, while it is being edited.  The   *)
(* indexer reads the file and hands its text to GoParser.Parse, which takes*)
(* the declarations from that text, but their content from the file, read  *)
(* again for every declaration.  The chunks go into the store under an id  *)
(* made of the path and the first line, so that of two with the same line  *)
(* the later one stays.  Go's own parser is external: a version of the file*)
(* comes with its declarations.                                            *)
(***************************************************************************)
EXTENDS Integers, Sequences, FiniteSets

CONSTANTS
    Versions,   \* what the file may look like
    Invalid,    \* those that do not parse
    Text,       \* the lines of each; none when the file is gone
    Decls,      \* its declarations as ast.Inspect meets them, local types too
    MaxEdits,   \* bound: times the file changes
    MaxRuns     \* bound: times it is indexed

\* A declaration is a function or a group of types, with its first and last
\* line and the names it declares; a group may be empty.
Declaration ==
    [kind : {"function", "method", "type"}, names : Seq(STRING),
     first : Nat \ {0}, last : Nat \ {0}]

FileAssumption ==
    /\ Invalid \subseteq Versions
    /\ Text \in [Versions -> Seq(STRING)]
    /\ Decls \in [Versions -> Seq(Declaration)]
    /\ \A v \in Versions : \A i \in DOMAIN Decls[v] :
          LET d == Decls[v][i] IN
          /\ d.first <= d.last /\ d.last <= Len(Text[v])
          /\ d.kind # "type" => Len(d.names) = 1
    /\ MaxEdits \in Nat /\ MaxRuns \in Nat

VARIABLES
    disk,       \* the version on disk
    edits, runs,
    pc,         \* "idle", "parse" or "store"
    parsed,     \* the version whose text Parse was given
    at,         \* the declaration it has come to
    named,      \* names of it that have been visited
    chunks,     \* what Parse has made of them
    quiet,      \* the file has not changed since Parse was given its text
    stored,     \* chunks of the file in the store
    indexed,    \* versions the store was last brought up to, if quiet: at most one
    overwritten \* lines under which a store that failed has put chunks since

vars == <<disk, edits, runs, pc, parsed, at, named, chunks, quiet, stored, indexed,
          overwritten>>

Init ==
    /\ disk \in Versions
    /\ edits = 0 /\ runs = 0
    /\ pc = "idle"
    /\ parsed = disk
    /\ at = 1 /\ named = 0 /\ chunks = <<>> /\ quiet = TRUE
    /\ stored = {} /\ indexed = {} /\ overwritten = {}

\* os.ReadFile, then GetParser("go").Parse on what was read.
Parse ==
    /\ pc = "idle" /\ runs < MaxRuns
    /\ Text[disk] # <<>> /\ disk \notin Invalid
    /\ runs' = runs + 1
    /\ parsed' = disk
    /\ at' = 1 /\ named' = 0 /\ chunks' = <<>> /\ quiet' = TRUE
    /\ pc' = "parse"
    /\ UNCHANGED <<disk, edits, stored, indexed, overwritten>>

\* Mutant: the first line is counted from zero.
LinesFromZero(v, first, last) ==
    IF last > Len(Text[v]) THEN <<>> ELSE SubSeq(Text[v], first + 1, last)

\* The content of a node; nothing if the file is gone or too short by now.
extractNodeContent(v, first, last) ==
    IF last > Len(Text[v]) THEN <<>> ELSE SubSeq(Text[v], first, last)

Chunk == [kind : {"function", "method", "type"}, name : STRING,
          first : Nat, last : Nat, content : Seq(STRING)]

ChunkOf(d, name) ==
    [kind |-> d.kind, name |-> name, first |-> d.first, last |-> d.last,
     content |-> extractNodeContent(disk, d.first, d.last)]

\* A function, or the next type of a group, with the whole group's lines.  A
\* function without content makes a chunk, a type does not.
Visit ==
    /\ pc = "parse" /\ at <= Len(Decls[parsed])
    /\ named < Len(Decls[parsed][at].names)
    /\ named' = named + 1
    /\ LET chunk == ChunkOf(Decls[parsed][at], Decls[parsed][at].names[named + 1]) IN
         chunks' = IF chunk.kind = "type" /\ chunk.content = <<>> THEN chunks
                   ELSE Append(chunks, chunk)
    /\ UNCHANGED <<disk, edits, runs, pc, parsed, at, quiet, stored, indexed,
                   overwritten>>

\* ast.Inspect goes on.
NextNode ==
    /\ pc = "parse" /\ at <= Len(Decls[parsed])
    /\ named = Len(Decls[parsed][at].names)
    /\ at' = at + 1 /\ named' = 0
    /\ UNCHANGED <<disk, edits, runs, pc, parsed, chunks, quiet, stored, indexed,
                   overwritten>>

EndParse ==
    /\ pc = "parse" /\ at > Len(Decls[parsed])
    /\ pc' = IF chunks = <<>> THEN "idle" ELSE "store"
    /\ UNCHANGED <<disk, edits, runs, parsed, at, named, chunks, quiet, stored, indexed,
                   overwritten>>

\* generateID: the first line stands for the path and the line.
SameID(c, d) == c.first = d.first

\* What the store holds when the chunks with these indices have reached it: the
\* last chunk of each id replaces what was there under it.
Replaced(indices) ==
    LET last == {chunks[i] : i \in {j \in indices :
                   \A k \in indices : k > j => ~SameID(chunks[k], chunks[j])}}
    IN  last \cup {d \in stored : \A c \in last : ~SameID(c, d)}

Upsert ==
    /\ pc = "store"
    /\ stored' = Replaced(DOMAIN chunks)
    /\ indexed' = IF quiet THEN {parsed} ELSE {}
    /\ overwritten' = {}
    /\ pc' = "idle"
    /\ UNCHANGED <<disk, edits, runs, parsed, at, named, chunks, quiet>>

\* The chunks are not embedded; or a batch fails, and the store has those before
\* it and some objects of its own.
StoreFails ==
    /\ pc = "store"
    /\ \E some \in SUBSET (DOMAIN chunks) :
         /\ stored' = Replaced(some)
         /\ overwritten' = overwritten \cup {chunks[i].first : i \in some}
    /\ pc' = "idle"
    /\ UNCHANGED <<disk, edits, runs, parsed, at, named, chunks, quiet, indexed>>

\* The file is edited, moved away or put back: it is the user's own.
Edit(v) ==
    /\ edits < MaxEdits /\ v # disk
    /\ disk' = v
    /\ edits' = edits + 1
    /\ quiet' = (quiet /\ pc # "parse")
    /\ UNCHANGED <<runs, pc, parsed, at, named, chunks, stored, indexed, overwritten>>

Next == Parse \/ Visit \/ NextNode \/ EndParse \/ Upsert \/ StoreFails
        \/ \E v \in Versions : Edit(v)
Spec == Init /\ [][Next]_vars

-----------------------------------------------------------------------------
TypeOK ==
    /\ disk \in Versions /\ parsed \in Versions
    /\ pc \in {"idle", "parse", "store"}
    /\ edits \in 0..MaxEdits /\ runs \in 0..MaxRuns
    /\ at \in 1..(Len(Decls[parsed]) + 1)
    /\ named \in 0..(IF at <= Len(Decls[parsed]) THEN Len(Decls[parsed][at].names) ELSE 0)
    /\ quiet \in BOOLEAN /\ chunks \in Seq(Chunk) /\ stored \subseteq Chunk
    /\ \A c, d \in stored : SameID(c, d) => c = d
    /\ indexed \subseteq Versions /\ Cardinality(indexed) <= 1
    /\ overwritten \subseteq Nat

\* Even of a file that changes under the parser a chunk is as long as its
\* line numbers say, so that a result shows the lines it names, or empty; and
\* no type is stored empty (extractNodeContent, Parse).
LinesAgree ==
    \A c \in stored :
        /\ c.content # <<>> => Len(c.content) = c.last - c.first + 1
        /\ c.kind = "type" => c.content # <<>>

\* When the file did not change under the parser, every declaration is found
\* under its first line with its own text, whatever older versions have left
\* in the store; what they did leave is at lines where nothing starts now.
\* Only at lines a later store has reached before it failed is the version not
\* found any more: half of the next one is there (BatchUpsert).
FreshAtItsLines ==
    \A v \in indexed : \A d \in {Decls[v][i] : i \in DOMAIN Decls[v]} :
        d.names # <<>> /\ d.first \notin overwritten =>
          \E c \in stored :
            /\ c.first = d.first
            /\ \E i \in DOMAIN Decls[v] :
                 /\ c.kind = Decls[v][i].kind /\ c.first = Decls[v][i].first
                 /\ \E k \in DOMAIN Decls[v][i].names :
                       c.name = Decls[v][i].names[k]
                 /\ c.content = SubSeq(Text[v], Decls[v][i].first, Decls[v][i].last)
=============================================================================
