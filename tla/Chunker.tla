------------------------------ MODULE Chunker ------------------------------
(***************************************************************************)
(* How a file becomes chunks: UniversalASTParser.Parse, which the indexer  *)
(* calls for every file that is not Go.  One of three strategies reads the *)
(* file line by line and decides after (or before) each line whether the   *)
(* lines gathered so far are a chunk.                                      *)
(*                                                                         *)
(* A line is what the strategies ask of it: its length with the newline,   *)
(* the blocks it opens less those it closes, the definition it begins, its *)
(* indentation and whether it is blank.  Lines are numbered from 1, as in  *)
(* the chunks' StartLine and EndLine.                                      *)
(***************************************************************************)
EXTENDS Integers, Sequences, Prefixes

CONSTANTS
    Lines,       \* the lines a file may have
    MaxLines,    \* bound: lines of a file
    MinSize,     \* minChunkSize (50)
    MaxSize      \* maxChunkSize (2000)

ASSUME LineAssumption ==
    Lines \subseteq [size : Nat \ {0}, delta : Int, indent : Nat,
                     def : {"none", "function", "class"}, blank : BOOLEAN]
ASSUME SizeAssumption ==
    MinSize \in Nat /\ MaxSize \in Nat /\ MinSize <= MaxSize /\ MaxLines \in Nat

VARIABLES
    strategy,    \* chosen by the language's profile
    file,        \* the lines read so far
    p,           \* the lines gathered, their signature, and the chunks made
    depth,       \* blockDepth
    lastIndent,  \* indentation of the previous line
    done

vars == <<strategy, file, p, depth, lastIndent, done>>

Strategies == {"block", "indentation", "generic"}
Chunk == [first : 1..MaxLines, last : 1..MaxLines, size : Nat,
          signature : 0..MaxLines]

\* The signature is the number of the line it was taken from, 0 if there is
\* none.
Init ==
    /\ strategy \in Strategies
    /\ file = <<>>
    /\ p = [first |-> 1, size |-> 0, signature |-> 0, chunks |-> <<>>]
    /\ depth = 0
    /\ lastIndent = 0
    /\ done = FALSE

-----------------------------------------------------------------------------
\* Mutant: the next chunk begins with the last line of this one.
CutOverlapping(c, last) ==
    [c EXCEPT !.chunks = Append(@, [first |-> c.first, last |-> last,
                              size |-> c.size, signature |-> c.signature]),
              !.first = last, !.size = 0]

\* createChunk, then currentChunk.Reset() and chunkStart = last + 1.
Cut(c, last) ==
    [c EXCEPT !.chunks = Append(@, [first |-> c.first, last |-> last,
                              size |-> c.size, signature |-> c.signature]),
              !.first = last + 1, !.size = 0]

CutIf(condition, c, last) == IF condition THEN Cut(c, last) ELSE c
Write(c, line) == [c EXCEPT !.size = @ + line.size]
SignIf(condition, c, n) == IF condition THEN [c EXCEPT !.signature = n] ELSE c

\* A line is taken from the file; n is its number.
Take(line) ==
    /\ ~done /\ Len(file) < MaxLines
    /\ file' = Append(file, line)
    /\ UNCHANGED <<strategy, done>>
n == Len(file) + 1

\* Mutants: the depth before the line decides; or the signature is kept.
BlockLineEarly(line) ==
    /\ strategy = "block" /\ Take(line)
    /\ depth' = depth + line.delta
    /\ LET c == Write(SignIf(line.def = "function", p, n), line) IN
       p' = IF depth = 0 /\ c.size > MinSize
            THEN [Cut(c, n) EXCEPT !.signature = 0] ELSE c
    /\ UNCHANGED lastIndent
BlockLineSigned(line) ==
    /\ strategy = "block" /\ Take(line)
    /\ depth' = depth + line.delta
    /\ LET c == Write(SignIf(line.def = "function", p, n), line) IN
       p' = CutIf(depth' = 0 /\ c.size > MinSize, c, n)
    /\ UNCHANGED lastIndent

\* parseBlockBased: a chunk ends where the blocks are closed again, if it is
\* long enough.  The split by size needs closed blocks too.
BlockLine(line) ==
    /\ strategy = "block" /\ Take(line)
    /\ depth' = depth + line.delta
    /\ LET written == Write(SignIf(line.def = "function", p, n), line)
           closed  == IF depth' = 0 /\ written.size > MinSize
                      THEN [Cut(written, n) EXCEPT !.signature = 0] ELSE written
       IN  p' = CutIf(closed.size > MaxSize /\ depth' = 0, closed, n)
    /\ UNCHANGED lastIndent

\* parseIndentationBased: a definition that is not deeper than the line above
\* ends the chunk before it, which by then has the new definition's signature.
IndentedLine(line) ==
    /\ strategy = "indentation" /\ Take(line)
    /\ LET top     == line.def # "none" /\ line.indent <= lastIndent
           signed  == SignIf(top, p, n)
           before  == CutIf(top /\ signed.size > MinSize, signed, n - 1)
           written == Write(before, line)
       IN  p' = CutIf(written.size > MaxSize, written, n)
    /\ lastIndent' = line.indent
    /\ UNCHANGED depth

\* Mutant: only a blank line ends a chunk.
PlainLineUnbounded(line) ==
    /\ strategy = "generic" /\ Take(line)
    /\ LET written == Write(SignIf(line.def = "function", p, n), line)
       IN  p' = CutIf(line.blank /\ written.size > MinSize, written, n)
    /\ UNCHANGED <<depth, lastIndent>>

\* parseGeneric: a chunk ends with a blank line or when it is too long.
PlainLine(line) ==
    /\ strategy = "generic" /\ Take(line)
    /\ LET written == Write(SignIf(line.def = "function", p, n), line)
           split   == CutIf(line.blank /\ written.size > MinSize, written, n)
       IN  p' = CutIf(split.size > MaxSize, split, n)
    /\ UNCHANGED <<depth, lastIndent>>

\* Mutant: a tail that could have been a chunk is dropped.
FinishLong ==
    /\ ~done /\ file # <<>>
    /\ p' = CutIf(p.size > MaxSize, p, Len(file))
    /\ done' = TRUE
    /\ UNCHANGED <<strategy, file, depth, lastIndent>>

\* After the last line; a file has at least one, be it empty.
Finish ==
    /\ ~done /\ file # <<>>
    /\ p' = CutIf(p.size > MinSize, p, Len(file))
    /\ done' = TRUE
    /\ UNCHANGED <<strategy, file, depth, lastIndent>>

Next ==
    \/ \E line \in Lines : BlockLine(line) \/ IndentedLine(line) \/ PlainLine(line)
    \/ Finish

Spec == Init /\ [][Next]_vars

-----------------------------------------------------------------------------
TypeOK ==
    /\ strategy \in Strategies
    /\ file \in Seq(Lines) /\ Len(file) <= MaxLines
    /\ p \in [first : 1..(MaxLines + 1), size : Nat, signature : 0..MaxLines,
              chunks : Seq(Chunk)]
    /\ depth \in Int
    /\ lastIndent \in Nat
    /\ done \in BOOLEAN

\* The line the k-th chunk ends with.
End(k) == IF k = 0 THEN 0 ELSE p.chunks[k].last

\* The chunks cover the file from its first line on, in order, without gaps
\* and without overlaps, and the gathered lines follow them.  No line is found
\* twice in a search, and no two chunks of a file get the same ID, which is
\* made from the chunk's first line.
Tiled ==
    /\ \A k \in 1..Len(p.chunks) :
         /\ p.chunks[k].first = End(k - 1) + 1
         /\ p.chunks[k].first <= p.chunks[k].last
    /\ p.first = End(Len(p.chunks)) + 1
    /\ p.first <= Len(file) + 1

SizeOf(first, last) ==
    LET sums == Sums([i \in 1..Len(file) |-> file[i].size])
    IN  sums[last] - sums[first - 1]

\* No text is dropped but a tail shorter than a chunk: each chunk holds its
\* lines in full, and what is left at the end is at most MinSize long.
NothingLost ==
    /\ \A k \in 1..Len(p.chunks) :
         p.chunks[k].size = SizeOf(p.chunks[k].first, p.chunks[k].last)
    /\ done => SizeOf(p.first, Len(file)) <= MinSize

\* A chunk's lines (before createChunk trims the blanks around them) are worth
\* a vector, and outside the block strategy they exceed MaxSize by less than
\* the last one.
RightSize ==
    \A k \in 1..Len(p.chunks) :
      LET c == p.chunks[k] IN
      /\ c.size > MinSize
      /\ strategy # "block" => c.size - file[c.last].size <= MaxSize

DepthAt(i) == Sums([k \in 1..Len(file) |-> file[k].delta])[i]

\* The block strategy never cuts a block in two: every chunk begins outside
\* all blocks, and all but the file's last end so.
BlocksAreWhole ==
    strategy = "block" =>
      \A k \in 1..Len(p.chunks) :
        /\ DepthAt(p.chunks[k].first - 1) = 0
        /\ DepthAt(p.chunks[k].last) = 0 \/ (done /\ k = Len(p.chunks))

\* A chunk of the block strategy bears the last signature within it, and none
\* if it has none.
SignatureIsOwn ==
    strategy = "block" =>
      \A k \in 1..Len(p.chunks) :
        LET c    == p.chunks[k]
            defs == {i \in c.first..c.last : file[i].def = "function"}
        IN  IF defs = {} THEN c.signature = 0
            ELSE c.signature \in defs /\ \A i \in defs : i <= c.signature
=============================================================================
