--------------------------- MODULE IndexerProofs ---------------------------
(***************************************************************************)
(* Proofs about the three parts of the indexer: the chunks of a file       *)
(* (Chunker), the jobs and what they store (Indexing), and a Go file that  *)
(* changes while it is parsed (GoParser).                                  *)
(***************************************************************************)
EXTENDS IndexerParts, SequenceLemmas, FiniteSetTheorems, TLAPS

USE LineAssumption, SizeAssumption

Parsers == [first : 1..(MaxLines + 1), size : Nat, signature : 0..MaxLines,
            chunks : Seq(Chunk)]
EndOf(c, k) == IF k = 0 THEN 0 ELSE c.chunks[k].last

TiledBy(c) ==
    /\ \A k \in 1..Len(c.chunks) :
         /\ c.chunks[k].first = EndOf(c, k - 1) + 1
         /\ c.chunks[k].first <= c.chunks[k].last
    /\ c.first = EndOf(c, Len(c.chunks)) + 1

SizedBy(c, f, s) ==
    \A k \in 1..Len(c.chunks) :
      /\ c.chunks[k].last <= Len(f)
      /\ c.chunks[k].size > MinSize
      /\ s # "block" => c.chunks[k].size - f[c.chunks[k].last].size <= MaxSize

\* The length of the rows a to b of f.
Length(f, a, b) ==
    LET sums == Sums([i \in 1..Len(f) |-> f[i].size]) IN sums[b] - sums[a - 1]

MeasuredBy(c, f) ==
    /\ \A k \in 1..Len(c.chunks) :
         c.chunks[k].size = Length(f, c.chunks[k].first, c.chunks[k].last)
    /\ c.size = Length(f, c.first, Len(f))

\* What holds of a parser c that has read f with strategy s.
Good(c, f, s) ==
    /\ c \in Parsers
    /\ f \in Seq(Lines) /\ Len(f) <= MaxLines
    /\ TiledBy(c) /\ SizedBy(c, f, s) /\ MeasuredBy(c, f)
    /\ c.first <= Len(f) + 1
    /\ c.size > 0 => c.first <= Len(f)

-----------------------------------------------------------------------------
(* What the parser's operations keep.                                      *)

LEMMA LineType == ASSUME NEW row \in Lines
                  PROVE row.size \in Nat /\ row.size > 0 /\ row.delta \in Int
                        /\ row.indent \in Nat
OBVIOUS

LEMMA Lengths ==
    ASSUME NEW f \in Seq(Lines)
    PROVE  /\ \A a \in 1..Len(f) + 1, b \in 0..Len(f) : Length(f, a, b) \in Int
           /\ Length(f, Len(f) + 1, Len(f)) = 0
<1>. DEFINE m == Len(f)
            s == [i \in 1..m |-> f[i].size]
<1>1. s \in Seq(Int) /\ Len(s) = m /\ m \in Nat
  <2>1. \A i \in 1..m : f[i].size \in Int
    BY LineType
  <2>. QED
    BY <2>1
<1>2. \A a, b : Length(f, a, b) = Sums(s)[b] - Sums(s)[a - 1]
  BY DEF Length
<1>. HIDE DEF s
<1>3. Sums(s) \in [0..m -> Int]
  BY <1>1, SumsStep
<1>. DEFINE S == Sums(s)
<1>. HIDE DEF S
<1>4. S \in [0..m -> Int] /\ \A a, b : Length(f, a, b) = S[b] - S[a - 1]
  BY <1>2, <1>3 DEF S
<1>5. ASSUME NEW a \in 1..m + 1, NEW b \in 0..m PROVE Length(f, a, b) \in Int
  <2>1. a - 1 \in 0..m
    BY <1>1
  <2>2. S[a - 1] \in Int /\ S[b] \in Int
    BY <1>4, <2>1
  <2>3. Length(f, a, b) = S[b] - S[a - 1]
    BY <1>4
  <2>. QED
    BY <2>2, <2>3
<1>6. Length(f, m + 1, m) = 0
  <2>1. (m + 1) - 1 = m /\ m \in 0..m
    BY <1>1
  <2>2. S[m] \in Int /\ Length(f, m + 1, m) = S[m] - S[m]
    BY <1>4, <2>1
  <2>. QED
    BY <2>2
<1>. QED
  BY <1>5, <1>6

LEMMA LengthsGrow ==
    ASSUME NEW f \in Seq(Lines), NEW row \in Lines
    PROVE  /\ \A a \in 1..Len(f) + 1, b \in 0..Len(f) :
                Length(Append(f, row), a, b) = Length(f, a, b)
           /\ \A a \in 1..Len(f) + 1 :
                Length(Append(f, row), a, Len(f) + 1) = Length(f, a,
                  Len(f)) + row.size
<1>. DEFINE m == Len(f)
            g == Append(f, row)
            s == [i \in 1..m |-> f[i].size]
            t == [i \in 1..(m + 1) |-> g[i].size]
<1>1. /\ m \in Nat /\ Len(g) = m + 1 /\ g[m + 1] = row
      /\ \A i \in 1..m : g[i] = f[i] /\ f[i] \in Lines
  OBVIOUS
<1>2. s \in Seq(Int) /\ Len(s) = m /\ t \in Seq(Int) /\ Len(t) = m + 1
  <2>1. \A i \in 1..m : f[i].size \in Int
    BY <1>1, LineType
  <2>2. \A i \in 1..(m + 1) : g[i].size \in Int
    <3>1. g \in Seq(Lines)
      OBVIOUS
    <3>. HIDE DEF g
    <3>2. \A i \in 1..(m + 1) : g[i] \in Lines
      BY <3>1, <1>1
    <3>. QED
      BY <3>2, LineType
  <2>. HIDE DEF g
  <2>3. s \in [1..m -> Int] /\ t \in [1..(m + 1) -> Int]
    BY <2>1, <2>2
  <2>4. \A k \in Nat : \A e \in [1..k -> Int] : e \in Seq(Int) /\ Len(e) = k
    OBVIOUS
  <2>5. m \in Nat /\ m + 1 \in Nat
    BY <1>1
  <2>. HIDE DEF m, s, t
  <2>. QED
    BY <2>3, <2>4, <2>5
<1>3. /\ \A i \in 1..m : s[i] = t[i]
      /\ t[m + 1] = row.size
  BY <1>1
<1>4. /\ \A a, b : Length(f, a, b) = Sums(s)[b] - Sums(s)[a - 1]
      /\ \A a, b : Length(g, a, b) = Sums(t)[b] - Sums(t)[a - 1]
  BY <1>1 DEF Length
<1>. DEFINE S == Sums(s)
            T == Sums(t)
<1>. HIDE DEF s, t, g, m
<1>5. \A i \in 0..m : S[i] = T[i]
  <2>1. /\ s \in Seq(Int) /\ t \in Seq(Int) /\ m \in Nat
        /\ m <= Len(s) /\ m <= Len(t) /\ \A i \in 1..m : s[i] = t[i]
    BY <1>1, <1>2, <1>3
  <2>2. \A i \in 0..m : Sums(s)[i] = Sums(t)[i]
    BY <2>1, SumsAgree, Zenon
  <2>. QED
    BY <2>2
<1>6. /\ S \in [0..m -> Int] /\ T \in [0..(m + 1) -> Int]
      /\ T[m + 1] = T[m] + row.size
  <2>1. m + 1 \in 1..Len(t) /\ (m + 1) - 1 = m
    BY <1>1, <1>2
  <2>2. S \in [0..m -> Int] /\ T \in [0..(m + 1) -> Int]
    BY <1>2, SumsStep
  <2>3. T[m + 1] = T[(m + 1) - 1] + t[m + 1]
    BY <1>2, <2>1, SumsStep, Zenon
  <2>. QED
    BY <1>3, <2>1, <2>2, <2>3
<1>7. /\ \A a, b : Length(f, a, b) = S[b] - S[a - 1]
      /\ \A a, b : Length(g, a, b) = T[b] - T[a - 1]
  BY <1>4
<1>. HIDE DEF S, T
<1>8. ASSUME NEW a \in 1..m + 1
      PROVE  /\ a - 1 \in 0..m /\ S[a - 1] \in Int /\ T[a - 1] = S[a - 1]
             /\ row.size \in Int
  <2>1. a - 1 \in 0..m
    BY <1>1
  <2>. QED
    BY <1>5, <1>6, <2>1, LineType
<1>9. ASSUME NEW a \in 1..m + 1, NEW b \in 0..m
      PROVE  Length(g, a, b) = Length(f, a, b)
  <2>1. S[b] = T[b]
    BY <1>5
  <2>. QED
    BY <1>7, <1>8, <2>1
<1>10. ASSUME NEW a \in 1..m + 1
       PROVE  Length(g, a, m + 1) = Length(f, a, m) + row.size
  <2>1. m \in 0..m /\ S[m] \in Int /\ T[m] = S[m]
    BY <1>1, <1>5, <1>6
  <2>2. Length(g, a, m + 1) = (S[m] + row.size) - S[a - 1]
    <3>1. Length(g, a, m + 1) = T[m + 1] - T[a - 1]
      BY <1>7
    <3>2. T[m + 1] = S[m] + row.size /\ T[a - 1] = S[a - 1]
      BY <1>6, <1>8, <2>1
    <3>. QED
      BY <3>1, <3>2
  <2>3. Length(f, a, m) = S[m] - S[a - 1]
    BY <1>7
  <2>. QED
    BY <1>8, <2>1, <2>2, <2>3
<1>. QED
  BY <1>9, <1>10 DEF m, g

LEMMA ResignGood ==
    ASSUME NEW c, NEW f, NEW s, Good(c, f, s), NEW i \in 0..MaxLines
    PROVE  /\ Good([c EXCEPT !.signature = i], f, s)
           /\ [c EXCEPT !.signature = i].size = c.size
           /\ [c EXCEPT !.signature = i].first = c.first
           /\ [c EXCEPT !.signature = i].chunks = c.chunks
<1>. DEFINE d == [c EXCEPT !.signature = i]
<1>1. d \in Parsers /\ d.size = c.size /\ d.first = c.first /\ d.chunks = c.chunks
  BY DEF Good, Parsers
<1>. QED
  BY <1>1 DEF Good, TiledBy, SizedBy, MeasuredBy, EndOf

LEMMA SignGood ==
    ASSUME NEW c, NEW f, NEW s, Good(c, f, s), NEW b, NEW i \in 0..MaxLines
    PROVE  /\ Good(SignIf(b, c, i), f, s)
           /\ SignIf(b, c, i).size = c.size /\ SignIf(b, c, i).first = c.first
           /\ SignIf(b, c, i).chunks = c.chunks
BY ResignGood DEF SignIf

LEMMA WriteGood ==
    ASSUME NEW c, NEW f, NEW s, Good(c, f, s), NEW row \in Lines,
           Len(f) < MaxLines
    PROVE  /\ Good(Write(c, row), Append(f, row), s)
           /\ Write(c, row).size = c.size + row.size
           /\ Write(c, row).signature = c.signature
           /\ Write(c, row).first = c.first
           /\ Write(c, row).chunks = c.chunks
<1>. DEFINE d == Write(c, row)
            g == Append(f, row)
<1>1. row.size \in Nat
  BY LineType
<1>2. /\ d \in Parsers /\ d.size = c.size + row.size /\ d.first = c.first
      /\ d.chunks = c.chunks /\ d.signature = c.signature
  <2>1. c \in Parsers
    BY DEF Good
  <2>2. c.size + row.size \in Nat
    BY <1>1, <2>1 DEF Parsers
  <2>. QED
    BY <2>1, <2>2 DEF Write, Parsers
<1>3. /\ g \in Seq(Lines) /\ Len(g) = Len(f) + 1
      /\ \A i \in 1..Len(f) : g[i] = f[i]
  BY DEF Good
<1>4. TiledBy(d)
  BY <1>2 DEF Good, TiledBy, EndOf
<1>5. SizedBy(d, g, s)
  <2>. SUFFICES ASSUME NEW k \in 1..Len(d.chunks)
                PROVE  /\ d.chunks[k].last <= Len(g)
                       /\ d.chunks[k].size > MinSize
                       /\ s # "block" =>
                            d.chunks[k].size - g[d.chunks[k].last].size <= MaxSize
    BY DEF SizedBy
  <2>1. d.chunks[k] = c.chunks[k] /\ d.chunks[k] \in Chunk
    BY <1>2 DEF Parsers
  <2>2. /\ c.chunks[k].last <= Len(f) /\ c.chunks[k].size > MinSize
        /\ s # "block" => c.chunks[k].size - f[c.chunks[k].last].size <= MaxSize
    BY <1>2 DEF Good, SizedBy
  <2>3. d.chunks[k].last \in 1..Len(f)
    BY <2>1, <2>2 DEF Chunk, Good
  <2>4. g[d.chunks[k].last] = f[d.chunks[k].last]
    BY <1>3, <2>3, Zenon
  <2>5. d.chunks[k].last \in Nat /\ Len(f) \in Nat /\ Len(g) \in Nat
    BY SMTT(40), <2>1 DEF Good, Chunk
  <2>6. d.chunks[k].last <= Len(g)
    <3>1. Len(g) = Len(f) + 1
      BY <1>3
    <3>. HIDE DEF d, g
    <3>. QED
      BY <2>3, <2>5, <3>1
  <2>. QED
    BY <2>1, <2>2, <2>4, <2>6, Zenon
<1>6. MeasuredBy(d, g)
  <2>1. /\ c.first \in 1..Len(f) + 1 /\ Len(f) \in Nat
        /\ c.size = Length(f, c.first, Len(f))
    BY DEF Good, Parsers, MeasuredBy
  <2>2. ASSUME NEW k \in 1..Len(c.chunks)
        PROVE  /\ c.chunks[k].first \in 1..Len(f) + 1
               /\ c.chunks[k].last \in 0..Len(f)
               /\ c.chunks[k].size
                    = Length(f, c.chunks[k].first, c.chunks[k].last)
    <3>1. c.chunks[k] \in Chunk
      BY DEF Good, Parsers
    <3>2. c.chunks[k].first \in Nat \ {0} /\ c.chunks[k].last \in Nat
      BY SMTT(40), <3>1 DEF Chunk
    <3>3. /\ c.chunks[k].first <= c.chunks[k].last
          /\ c.chunks[k].last <= Len(f)
      BY DEF Good, TiledBy, SizedBy
    <3>. QED
      BY SMTT(40), <3>2, <3>3, <2>1 DEF Good, MeasuredBy
  <2>3. d.size = Length(g, d.first, Len(g))
    BY <1>2, <1>3, <2>1, LengthsGrow DEF Good
  <2>4. ASSUME NEW k \in 1..Len(d.chunks)
        PROVE  d.chunks[k].size = Length(g, d.chunks[k].first, d.chunks[k].last)
    <3>1. d.chunks[k] = c.chunks[k] /\ k \in 1..Len(c.chunks)
      BY <1>2
    <3>2. Length(g, c.chunks[k].first, c.chunks[k].last)
            = Length(f, c.chunks[k].first, c.chunks[k].last)
      BY <2>2, <3>1, LengthsGrow DEF Good
    <3>. QED
      BY <2>2, <3>1, <3>2
  <2>. QED
    BY <2>3, <2>4 DEF MeasuredBy
<1>. QED
  BY <1>2, <1>3, <1>4, <1>5, <1>6 DEF Good, Parsers

LEMMA CutGood ==
    ASSUME NEW c, NEW f, NEW s, Good(c, f, s), c.size > MinSize,
           s # "block" => c.size - f[Len(f)].size <= MaxSize
    PROVE  /\ Good(Cut(c, Len(f)), f, s)
           /\ Cut(c, Len(f)).size = 0
           /\ Cut(c, Len(f)).first = Len(f) + 1
           /\ Cut(c, Len(f)).signature = c.signature
<1>. DEFINE m == Len(f)
            new == [first |-> c.first, last |-> m, size |-> c.size,
                    signature |-> c.signature]
            d == Cut(c, m)
            l == Len(c.chunks)
<1>1. c \in Parsers /\ m \in Nat /\ m <= MaxLines /\ c.first <= m /\ c.size \in Nat
  BY DEF Good, Parsers
<1>2. new \in Chunk
  BY <1>1 DEF Parsers, Chunk
<1>3. /\ d.chunks = Append(c.chunks, new) /\ d.size = 0 /\ d.first = m + 1
      /\ d.signature = c.signature /\ d \in Parsers
  <2>1. Append(c.chunks, new) \in Seq(Chunk) /\ m + 1 \in 1..(MaxLines + 1)
    BY <1>1, <1>2 DEF Parsers
  <2>2. d = [[[c EXCEPT !.chunks = Append(c.chunks, new)]
                EXCEPT !.first = m + 1] EXCEPT !.size = 0]
    BY <1>1 DEF Cut, Parsers
  <2>. HIDE DEF new, m, d
  <2>. QED
    BY <1>1, <2>1, <2>2 DEF Parsers
<1>4. /\ Len(d.chunks) = l + 1 /\ d.chunks[l + 1] = new /\ l \in Nat
      /\ \A k \in 1..l : d.chunks[k] = c.chunks[k]
  BY <1>1, <1>2, <1>3 DEF Parsers
<1>. HIDE DEF d, l, new
<1>5. \A k \in 0..l : EndOf(d, k) = EndOf(c, k)
  BY <1>4 DEF EndOf
<1>6. TiledBy(d)
  <2>1. ASSUME NEW k \in 1..(l + 1)
        PROVE  d.chunks[k].first = EndOf(d, k - 1) + 1
               /\ d.chunks[k].first <= d.chunks[k].last
    <3>1. CASE k \in 1..l
      <4>1. c.chunks[k].first = EndOf(c, k - 1) + 1
            /\ c.chunks[k].first <= c.chunks[k].last
        BY <3>1 DEF Good, TiledBy, l
      <4>2. k - 1 \in 0..l
        BY <3>1, <1>4
      <4>. QED
        BY <3>1, <4>1, <4>2, <1>4, <1>5
    <3>2. CASE k = l + 1
      <4>1. c.first = EndOf(c, l) + 1
        BY DEF Good, TiledBy, l
      <4>2. new.first = c.first /\ new.last = m
        BY DEF new
      <4>. QED
        BY <3>2, <4>1, <4>2, <1>1, <1>4, <1>5
    <3>. QED
      BY <3>1, <3>2, <1>4
  <2>2. EndOf(d, l + 1) = m
    BY <1>4 DEF EndOf, new
  <2>. QED
    BY <2>1, <2>2, <1>3, <1>4 DEF TiledBy
<1>7. SizedBy(d, f, s)
  <2>1. ASSUME NEW k \in 1..(l + 1)
        PROVE  /\ d.chunks[k].last <= m
               /\ d.chunks[k].size > MinSize
               /\ s # "block" =>
                    d.chunks[k].size - f[d.chunks[k].last].size <= MaxSize
    <3>1. CASE k \in 1..l
      BY <3>1, <1>4 DEF Good, SizedBy, l
    <3>2. CASE k = l + 1
      BY <3>2, <1>1, <1>4 DEF new
    <3>. QED
      BY <3>1, <3>2, <1>4
  <2>. QED
    BY <2>1, <1>4 DEF SizedBy
<1>8. MeasuredBy(d, f)
  <2>1. ASSUME NEW k \in 1..(l + 1)
        PROVE  d.chunks[k].size = Length(f, d.chunks[k].first, d.chunks[k].last)
    <3>1. CASE k \in 1..l
      BY <3>1, <1>4 DEF Good, MeasuredBy, l
    <3>2. CASE k = l + 1
      BY <3>2, <1>4 DEF new, Good, MeasuredBy
    <3>. QED
      BY <3>1, <3>2, <1>4
  <2>2. Length(f, m + 1, m) = 0
    BY Lengths DEF Good
  <2>. QED
    BY <2>1, <2>2, <1>3, <1>4 DEF MeasuredBy
<1>. QED
  BY <1>1, <1>3, <1>6, <1>7, <1>8 DEF Good, d

\* The form in which the strategies cut.
LEMMA CutIfGood ==
    ASSUME NEW c, NEW f, NEW s, Good(c, f, s), NEW b \in BOOLEAN,
           b => c.size > MinSize,
           b /\ s # "block" => c.size - f[Len(f)].size <= MaxSize
    PROVE  /\ Good(CutIf(b, c, Len(f)), f, s)
           /\ b => CutIf(b, c, Len(f)).size = 0
           /\ ~b => CutIf(b, c, Len(f)) = c
BY CutGood DEF CutIf

-----------------------------------------------------------------------------
\* A parser that can go on: outside the block strategy it holds at most
\* MaxSize, or it would have been cut.  A parser that is done holds at most
\* MinSize.
IInv ==
    /\ strategy \in Strategies /\ depth \in Int /\ lastIndent \in Nat
    /\ done \in BOOLEAN
    /\ Good(p, file, strategy)
    /\ ~done /\ strategy # "block" => p.size <= MaxSize
    /\ done => p.size <= MinSize

LEMMA IInvImplies == IInv => TypeOK /\ Tiled /\ RightSize /\ NothingLost
<1>1. IInv => TypeOK
  BY DEF IInv, Good, TypeOK, Parsers
<1>2. IInv => Tiled
  BY DEF IInv, Good, Tiled, TiledBy, End, EndOf
<1>3. IInv => RightSize
  BY DEF IInv, Good, RightSize, SizedBy
<1>4. IInv => NothingLost
  <2>1. \A a, b : SizeOf(a, b) = Length(file, a, b)
    BY DEF SizeOf, Length
  <2>. QED
    BY <2>1 DEF IInv, Good, MeasuredBy, NothingLost
<1>. QED
  BY <1>1, <1>2, <1>3, <1>4

LEMMA IInvInit == Init => IInv
<1>. SUFFICES ASSUME Init PROVE IInv
  OBVIOUS
<1>1. p \in Parsers /\ file \in Seq(Lines) /\ Len(file) = 0 /\ Len(p.chunks) = 0
  BY DEF Init, Parsers
<1>2. p.first = 1 /\ p.size = 0 /\ done = FALSE
  BY DEF Init
<1>3. TiledBy(p) /\ SizedBy(p, file, strategy) /\ MeasuredBy(p, file)
  <2>1. TiledBy(p) /\ SizedBy(p, file, strategy)
    BY <1>1, <1>2 DEF TiledBy, SizedBy, EndOf
  <2>2. Length(file, 1, 0) = 0
    <3>1. Length(file, Len(file) + 1, Len(file)) = 0
      BY <1>1, Lengths
    <3>. QED
      BY <1>1, <3>1
  <2>. QED
    BY <1>1, <1>2, <2>1, <2>2 DEF MeasuredBy
<1>4. Good(p, file, strategy)
  BY <1>1, <1>2, <1>3 DEF Good
<1>. QED
  <2>1. strategy \in Strategies /\ depth \in Int /\ lastIndent \in Nat
    BY DEF Init
  <2>2. done \in BOOLEAN
    BY Zenon DEF Init
  <2>3. p.size <= MaxSize
    BY <1>2
  <2>. QED
    BY <2>1, <2>2, <2>3, <1>2, <1>4 DEF IInv

LEMMA IInvStep == IInv /\ [Next]_vars => IInv'
<1>. SUFFICES ASSUME IInv, [Next]_vars PROVE IInv'
  OBVIOUS
<1>0. Good(p, file, strategy) /\ p \in Parsers /\ file \in Seq(Lines)
  BY DEF IInv, Good
<1>1. ASSUME NEW row \in Lines, Take(row)
      PROVE  /\ ~done /\ done' = done /\ strategy' = strategy
             /\ file' = Append(file, row)
             /\ n \in 1..MaxLines /\ Len(file') = n /\ file'[n] = row
             /\ Len(file) < MaxLines
  BY <1>0, <1>1 DEF Take, IInv, n
<1>2. ASSUME NEW row \in Lines, BlockLine(row) PROVE IInv'
  <2>. DEFINE b == row.def = "function"
              signed  == SignIf(b, p, n)
              written == Write(signed, row)
              over    == depth' = 0 /\ written.size > MinSize
              cut     == CutIf(over, written, n)
              closed  == IF over THEN [Cut(written, n) EXCEPT !.signature = 0]
                         ELSE written
  <2>1. Take(row) /\ strategy = "block" /\ depth' = depth + row.delta
        /\ lastIndent' = lastIndent
    BY <1>2 DEF BlockLine
  <2>2. Good(signed, file, strategy)
    BY <1>0, <1>1, <2>1, SignGood
  <2>3. Good(written, file', strategy')
    <3>. HIDE DEF signed
    <3>1. Good(written, Append(file, row), strategy)
      BY <1>1, <2>1, <2>2, WriteGood
    <3>. QED
      BY <3>1, <1>1, <2>1
  <2>4. Good(cut, file', strategy') /\ (over => cut.size = 0)
          /\ (~over => cut = written)
    <3>1. over \in BOOLEAN /\ (over => written.size > MinSize)
          /\ Len(file') = n /\ strategy' = "block"
      BY <1>1, <2>1
    <3>. HIDE DEF over, written
    <3>. QED
      BY <3>1, <2>3, CutIfGood
  <2>5. Good(closed, file', strategy') /\ (over => closed.size = 0)
    <3>1. CASE over
      <4>1. closed = [cut EXCEPT !.signature = 0]
        BY <3>1 DEF CutIf
      <4>2. 0 \in 0..MaxLines
        OBVIOUS
      <4>. HIDE DEF cut, closed, over
      <4>3. /\ Good([cut EXCEPT !.signature = 0], file', strategy')
            /\ [cut EXCEPT !.signature = 0].size = cut.size
        BY <4>2, <2>4, ResignGood
      <4>. QED
        BY <3>1, <4>1, <4>3, <2>4
    <3>2. CASE ~over
      <4>1. closed = written
        BY <3>2
      <4>. HIDE DEF closed, written, over
      <4>. QED
        BY <3>2, <4>1, <2>3
    <3>. QED
      BY <3>1, <3>2
  <2>6. ~(closed.size > MaxSize /\ depth' = 0)
    <3>1. ~over => closed = written
      OBVIOUS
    <3>2. closed \in Parsers /\ closed.size \in Nat
      <4>. HIDE DEF closed
      <4>. QED
        BY <2>5 DEF Good, Parsers
    <3>3. over <=> (depth' = 0 /\ written.size > MinSize)
      OBVIOUS
    <3>. HIDE DEF closed, written, over
    <3>. QED
      BY <2>5, <3>1, <3>2, <3>3
  <2>7. p' = closed
    BY <1>2, <2>6 DEF BlockLine, CutIf
  <2>8. depth' \in Int
    BY <2>1, LineType DEF IInv
  <2>. HIDE DEF closed
  <2>. QED
    BY <1>1, <2>1, <2>5, <2>7, <2>8 DEF IInv
<1>3. ASSUME NEW row \in Lines, IndentedLine(row) PROVE IInv'
  <2>. DEFINE top     == row.def # "none" /\ row.indent <= lastIndent
              signed  == SignIf(top, p, n)
              long    == top /\ signed.size > MinSize
              before  == CutIf(long, signed, n - 1)
              written == Write(before, row)
              over    == written.size > MaxSize
              cut     == CutIf(over, written, n)
  <2>1. Take(row) /\ strategy = "indentation" /\ lastIndent' = row.indent
        /\ depth' = depth /\ p' = cut
    BY <1>3 DEF IndentedLine
  <2>2. Good(signed, file, strategy) /\ signed.size = p.size
    BY <1>0, <1>1, <2>1, SignGood
  <2>3. p.size \in Nat /\ p.size <= MaxSize
    BY <1>0, <1>1, <2>1 DEF IInv, Parsers
  <2>4. Good(before, file, strategy) /\ before.size \in Nat /\ before.size <= MaxSize
    <3>1. long \in BOOLEAN /\ (long => signed.size > MinSize)
      OBVIOUS
    <3>2. long => p.size - file[Len(file)].size <= MaxSize
      <4>1. long => Len(file) \in 1..Len(file)
        BY SMTT(40), <2>2, <2>3, <1>0 DEF Good, Parsers
      <4>2. long => file[Len(file)].size \in Nat
        BY <4>1, <1>0, LineType
      <4>. QED
        BY <4>2, <2>3
    <3>3. n - 1 = Len(file)
      BY <1>0 DEF n
    <3>. HIDE DEF long, signed
    <3>4. /\ Good(CutIf(long, signed, Len(file)), file, strategy)
          /\ long => CutIf(long, signed, Len(file)).size = 0
          /\ ~long => CutIf(long, signed, Len(file)) = signed
      BY <2>2, <3>1, <3>2, CutIfGood
    <3>. QED
      BY <2>2, <2>3, <3>3, <3>4
  <2>5. Good(written, file', strategy') /\ written.size = before.size + row.size
    <3>. HIDE DEF before
    <3>1. /\ Good(written, Append(file, row), strategy)
          /\ written.size = before.size + row.size
      BY <1>1, <2>1, <2>4, WriteGood
    <3>. QED
      BY <3>1, <1>1, <2>1
  <2>6. Good(cut, file', strategy') /\ (over => cut.size = 0)
          /\ (~over => cut = written)
    <3>1. over \in BOOLEAN /\ (over => written.size > MaxSize) /\ row.size \in Nat
      BY LineType
    <3>. HIDE DEF over, written, before
    <3>2. written.size - row.size <= MaxSize /\ written.size \in Nat
      BY <2>4, <2>5, <3>1
    <3>3. over => written.size > MinSize
      BY <3>1, <3>2
    <3>4. Len(file') = n /\ file'[Len(file')] = row
      BY <1>1, <2>1
    <3>. QED
      BY <2>5, <3>1, <3>2, <3>3, <3>4, CutIfGood
  <2>7. cut.size <= MaxSize
    <3>1. over <=> written.size > MaxSize
      OBVIOUS
    <3>2. written.size \in Nat
      <4>. HIDE DEF written
      <4>. QED
        BY <2>5 DEF Good, Parsers
    <3>. HIDE DEF over, written, cut
    <3>. QED
      BY <2>6, <3>1, <3>2
  <2>8. lastIndent' \in Nat
    BY <2>1, LineType
  <2>. HIDE DEF cut
  <2>. QED
    BY <1>1, <2>1, <2>6, <2>7, <2>8 DEF IInv
<1>4. ASSUME NEW row \in Lines, PlainLine(row) PROVE IInv'
  <2>. DEFINE b       == row.def = "function"
              signed  == SignIf(b, p, n)
              written == Write(signed, row)
              blank   == row.blank /\ written.size > MinSize
              split   == CutIf(blank, written, n)
              over    == split.size > MaxSize
              cut     == CutIf(over, split, n)
  <2>1. Take(row) /\ strategy = "generic" /\ lastIndent' = lastIndent
        /\ depth' = depth /\ p' = cut
    BY <1>4 DEF PlainLine
  <2>2. Good(signed, file, strategy) /\ signed.size = p.size
    BY <1>0, <1>1, <2>1, SignGood
  <2>3. p.size \in Nat /\ p.size <= MaxSize /\ row.size \in Nat
    BY <1>0, <1>1, <2>1, LineType DEF IInv, Parsers
  <2>4. Good(written, file', strategy') /\ written.size = p.size + row.size
    <3>. HIDE DEF signed
    <3>1. /\ Good(written, Append(file, row), strategy)
          /\ written.size = signed.size + row.size
      BY <1>1, <2>1, <2>2, WriteGood
    <3>. QED
      BY <3>1, <1>1, <2>1, <2>2
  <2>5. Len(file') = n /\ file'[Len(file')] = row
    BY <1>1, <2>1
  <2>6. /\ Good(split, file', strategy')
        /\ blank => split.size = 0
        /\ ~blank => split = written
    <3>1. blank \in BOOLEAN /\ (blank => written.size > MinSize)
      BY LineAssumption
    <3>. HIDE DEF blank, written
    <3>2. written.size - row.size <= MaxSize
      BY <2>3, <2>4
    <3>. QED
      BY <2>4, <2>5, <3>1, <3>2, CutIfGood
  <2>7. split.size \in Nat /\ split.size - row.size <= MaxSize
    <3>. HIDE DEF split, written, blank
    <3>. QED
      BY <2>3, <2>4, <2>6
  <2>8. Good(cut, file', strategy') /\ (over => cut.size = 0)
          /\ (~over => cut = split)
    <3>1. over \in BOOLEAN /\ (over => split.size > MaxSize)
      OBVIOUS
    <3>. HIDE DEF over, split
    <3>2. over => split.size > MinSize
      BY <2>7, <3>1
    <3>. QED
      BY <2>5, <2>6, <2>7, <3>1, <3>2, CutIfGood
  <2>9. cut.size <= MaxSize
    <3>1. over <=> split.size > MaxSize
      OBVIOUS
    <3>. HIDE DEF over, split, cut
    <3>. QED
      BY <2>7, <2>8, <3>1
  <2>. HIDE DEF cut
  <2>. QED
    BY <1>1, <2>1, <2>8, <2>9 DEF IInv
<1>5. CASE Finish
  <2>. DEFINE long == p.size > MinSize
              cut  == CutIf(long, p, Len(file))
  <2>1. ~done /\ done' /\ p' = cut /\ UNCHANGED <<strategy, file, depth, lastIndent>>
        /\ file # <<>>
    BY <1>5 DEF Finish, IInv
  <2>2. long /\ strategy # "block" => p.size - file[Len(file)].size <= MaxSize
    <3>1. file[Len(file)].size \in Nat
      <4>1. Len(file) \in 1..Len(file)
        BY <1>0, <2>1
      <4>. QED
        BY <4>1, <1>0, LineType
    <3>2. strategy # "block" => p.size <= MaxSize
      BY <2>1 DEF IInv
    <3>3. p.size \in Nat
      BY <1>0 DEF Parsers
    <3>. QED
      BY <3>1, <3>2, <3>3, SizeAssumption
  <2>3. Good(cut, file, strategy)
    <3>1. long \in BOOLEAN /\ (long => p.size > MinSize)
      OBVIOUS
    <3>. HIDE DEF long
    <3>. QED
      BY <1>0, <2>2, <3>1, CutIfGood
  <2>4. cut.size <= MinSize
    <3>1. p.size \in Nat /\ (long => cut.size = 0) /\ (~long => cut = p)
      BY <1>0 DEF CutIf, Cut, Parsers
    <3>. HIDE DEF cut
    <3>. QED
      BY <3>1
  <2>. HIDE DEF cut
  <2>. QED
    BY <2>1, <2>3, <2>4 DEF IInv
<1>6. CASE UNCHANGED vars
  BY <1>6 DEF vars, IInv
<1>. QED
  BY <1>2, <1>3, <1>4, <1>5, <1>6 DEF Next

LEMMA Inductive == Spec => []IInv
BY IInvInit, IInvStep, PTL DEF Spec

\* The type of every variable.
THEOREM TypeCorrect == Spec => []TypeOK
BY Inductive, IInvImplies, PTL

\* The chunks of a file cover it in order, without gaps and overlaps.
THEOREM ChunksTileTheFile == Spec => []Tiled
BY Inductive, IInvImplies, PTL

\* No chunk is too short, and outside the block strategy none too long.
THEOREM ChunksHaveTheirSize == Spec => []RightSize
BY Inductive, IInvImplies, PTL

-----------------------------------------------------------------------------
(* Signatures of the block strategy.                                       *)

Heads(a, b, f) == {i \in a..b : f[i].def = "function"}
Owns(sig, a, b, f) ==
    IF Heads(a, b, f) = {} THEN sig = 0
    ELSE sig \in Heads(a, b, f) /\ \A i \in Heads(a, b, f) : i <= sig

\* The gathered lines own their signature too, so the chunk they become will.
Signed ==
    strategy = "block" =>
      /\ \A k \in 1..Len(p.chunks) :
           Owns(p.chunks[k].signature, p.chunks[k].first, p.chunks[k].last, file)
      /\ ~done => Owns(p.signature, p.first, Len(file), file)

LEMMA OwnsKept ==
    ASSUME NEW f \in Seq(Lines), NEW row \in Lines, NEW sig,
           NEW a \in Nat \ {0}, NEW b \in 0..Len(f), Owns(sig, a, b, f)
    PROVE  Owns(sig, a, b, Append(f, row))
<1>1. \A i \in a..b : Append(f, row)[i] = f[i]
  <2>1. Len(f) \in Nat /\ \A i \in 1..Len(f) : Append(f, row)[i] = f[i]
    OBVIOUS
  <2>2. \A i \in a..b : i \in 1..Len(f)
    BY <2>1
  <2>. QED
    BY <2>1, <2>2
<1>2. Heads(a, b, Append(f, row)) = Heads(a, b, f)
  BY <1>1 DEF Heads
<1>. QED
  BY <1>2 DEF Owns

LEMMA OwnsExtended ==
    ASSUME NEW f \in Seq(Lines), NEW row \in Lines, NEW sig,
           NEW a \in Nat \ {0}, a <= Len(f) + 1, Owns(sig, a, Len(f), f)
    PROVE  Owns(IF row.def = "function" THEN Len(f) + 1 ELSE sig,
                a, Len(f) + 1, Append(f, row))
<1>. DEFINE m == Len(f)
            g == Append(f, row)
<1>1. /\ m \in Nat /\ g[m + 1] = row
      /\ \A i \in a..m : g[i] = f[i]
  OBVIOUS
<1>2. CASE row.def = "function"
  <2>1. m + 1 \in Heads(a, m + 1, g)
    BY <1>1, <1>2 DEF Heads
  <2>2. \A i \in Heads(a, m + 1, g) : i <= m + 1
    BY DEF Heads
  <2>. QED
    BY <1>2, <2>1, <2>2 DEF Owns
<1>3. CASE row.def # "function"
  <2>1. Heads(a, m + 1, g) = Heads(a, m, f)
    <3>. HIDE DEF m, g
    <3>1. m + 1 \notin Heads(a, m + 1, g)
      BY <1>1, <1>3 DEF Heads
    <3>2. a..(m + 1) = (a..m) \cup {m + 1}
      BY <1>1, a <= m + 1 DEF m
    <3>. QED
      BY <1>1, <3>1, <3>2 DEF Heads
  <2>. QED
    BY <1>3, <2>1 DEF Owns
<1>. QED
  BY <1>2, <1>3

LEMMA SignedInit == Init => Signed
BY DEF Init, Signed, Owns, Heads

LEMMA SignedStep == IInv /\ Signed /\ [Next]_vars => Signed'
<1>. SUFFICES ASSUME IInv, Signed, [Next]_vars PROVE Signed'
  OBVIOUS
<1>0. /\ p \in Parsers /\ file \in Seq(Lines) /\ p.first <= Len(file) + 1
      /\ p.size > 0 => p.first <= Len(file)
      /\ \A k \in 1..Len(p.chunks) :
           p.chunks[k].first \in Nat \ {0} /\ p.chunks[k].last \in 0..Len(file)
  <2>1. /\ p \in Parsers /\ file \in Seq(Lines) /\ p.first <= Len(file) + 1
        /\ p.size > 0 => p.first <= Len(file)
        /\ \A k \in 1..Len(p.chunks) : p.chunks[k].last <= Len(file)
    BY DEF IInv, Good, SizedBy
  <2>2. \A k \in 1..Len(p.chunks) : p.chunks[k] \in Chunk
    BY <2>1 DEF Parsers
  <2>3. Len(file) \in Nat
    BY <2>1
  <2>4. \A k \in 1..Len(p.chunks) :
          p.chunks[k].first \in Nat \ {0} /\ p.chunks[k].last \in 0..Len(file)
    <3>1. ASSUME NEW k \in 1..Len(p.chunks)
          PROVE  p.chunks[k].first \in Nat \ {0} /\ p.chunks[k].last \in 0..Len(file)
      <4>1. p.chunks[k] \in Chunk /\ p.chunks[k].last <= Len(file)
        BY <2>1, <2>2
      <4>2. p.chunks[k].first \in Nat \ {0} /\ p.chunks[k].last \in Nat
        BY <4>1 DEF Chunk
      <4>. QED
        BY <2>3, <4>1, <4>2
    <3>. QED
      BY <3>1
  <2>. QED
    BY <2>1, <2>4
<1>1. ASSUME NEW row \in Lines, BlockLine(row) PROVE Signed'
  <2>. DEFINE sig == IF row.def = "function" THEN n ELSE p.signature
              written == Write(SignIf(row.def = "function", p, n), row)
              over    == depth' = 0 /\ written.size > MinSize
              new     == [first |-> p.first, last |-> n, size |-> written.size,
                          signature |-> sig]
              l       == Len(p.chunks)
  <2>1. /\ strategy = "block" /\ strategy' = "block" /\ ~done
        /\ file' = Append(file, row) /\ n = Len(file) + 1 /\ Len(file') = n
    BY <1>0, <1>1 DEF BlockLine, Take, n
  <2>2. /\ Owns(sig, p.first, n, file')
        /\ \A k \in 1..l :
             Owns(p.chunks[k].signature, p.chunks[k].first, p.chunks[k].last, file')
    <3>0. p.first \in Nat \ {0}
      BY <1>0 DEF Parsers
    <3>1. Owns(p.signature, p.first, Len(file), file) /\ p.first \in Nat \ {0}
      BY <2>1, <3>0 DEF Signed
    <3>2. Owns(sig, p.first, n, file')
      BY <1>0, <2>1, <3>1, OwnsExtended
    <3>3. ASSUME NEW k \in 1..l
          PROVE  Owns(p.chunks[k].signature, p.chunks[k].first, p.chunks[k].last,
            file')
      BY <1>0, <2>1, OwnsKept DEF Signed
    <3>. QED
      BY <3>2, <3>3
  <2>3. /\ written.size \in Nat /\ written.signature = sig
        /\ written.first = p.first /\ written.chunks = p.chunks
        /\ written.size > 0
    BY <1>0, LineType DEF Parsers, Write, SignIf
  <2>4. CASE over
    <3>. DEFINE closed == [Cut(written, n) EXCEPT !.signature = 0]
    <3>1. /\ closed.chunks = Append(p.chunks, new) /\ closed.size = 0
          /\ closed.first = n + 1 /\ closed.signature = 0
      <4>. HIDE DEF n
      <4>. QED
        BY <1>0, <2>3 DEF Cut, Parsers, Write, SignIf
    <3>2. p' = closed
      <4>1. p' = CutIf(closed.size > MaxSize /\ depth' = 0, closed, n)
        BY <1>1, <2>4 DEF BlockLine
      <4>. HIDE DEF closed
      <4>. QED
        BY <4>1, <3>1 DEF CutIf
    <3>. HIDE DEF closed, new
    <3>3. /\ Len(p'.chunks) = l + 1 /\ p'.chunks[l + 1] = new /\ l \in Nat
          /\ \A k \in 1..l : p'.chunks[k] = p.chunks[k]
      <4>1. p'.chunks = Append(p.chunks, new)
        BY <3>1, <3>2
      <4>. QED
        BY <1>0, <4>1 DEF Parsers
    <3>4. new.first = p.first /\ new.last = n /\ new.signature = sig
      BY DEF new
    <3>. HIDE DEF l, sig
    <3>5. ASSUME NEW k \in 1..Len(p'.chunks)
          PROVE  Owns(p'.chunks[k].signature, p'.chunks[k].first,
                      p'.chunks[k].last, file')
      <4>1. CASE k \in 1..l
        BY <4>1, <2>2, <3>3
      <4>2. CASE k = l + 1
        BY <4>2, <2>2, <3>3, <3>4
      <4>. QED
        BY <4>1, <4>2, <3>3
    <3>6. Owns(p'.signature, p'.first, Len(file'), file')
      <4>1. Heads(n + 1, n, file') = {}
        BY <1>0, <2>1 DEF Heads
      <4>. QED
        BY <4>1, <2>1, <3>1, <3>2 DEF Owns
    <3>. QED
      BY <3>5, <3>6 DEF Signed
  <2>5. CASE ~over
    <3>1. p' = written
      <4>1. p' = CutIf(written.size > MaxSize /\ depth' = 0, written, n)
        BY <1>1, <2>5 DEF BlockLine
      <4>2. ~(written.size > MaxSize /\ depth' = 0)
        BY <2>5, <2>3
      <4>. QED
        BY <4>1, <4>2 DEF CutIf
    <3>. QED
      BY <2>1, <2>2, <2>3, <3>1 DEF Signed
  <2>. QED
    BY <2>4, <2>5
<1>2. ASSUME NEW row \in Lines, IndentedLine(row) PROVE Signed'
  BY <1>2 DEF IndentedLine, Take, Signed
<1>3. ASSUME NEW row \in Lines, PlainLine(row) PROVE Signed'
  BY <1>3 DEF PlainLine, Take, Signed
<1>4. CASE Finish
  <2>1. /\ p' = CutIf(p.size > MinSize, p, Len(file)) /\ done' = TRUE /\ ~done
        /\ strategy' = strategy /\ file' = file
    BY <1>4 DEF Finish
  <2>2. CASE strategy = "block" /\ p.size > MinSize
    <3>. DEFINE new == [first |-> p.first, last |-> Len(file), size |-> p.size,
                        signature |-> p.signature]
                l == Len(p.chunks)
    <3>1. p'.chunks = Append(p.chunks, new)
      BY <1>0, <2>1, <2>2 DEF CutIf, Cut, Parsers
    <3>. HIDE DEF new
    <3>2. /\ Len(p'.chunks) = l + 1 /\ p'.chunks[l + 1] = new /\ l \in Nat
          /\ \A k \in 1..l : p'.chunks[k] = p.chunks[k]
      BY <1>0, <3>1 DEF Parsers
    <3>3. new.first = p.first /\ new.last = Len(file)
          /\ new.signature = p.signature
      BY DEF new
    <3>4. /\ \A k \in 1..l : Owns(p.chunks[k].signature, p.chunks[k].first,
                                  p.chunks[k].last, file)
          /\ Owns(p.signature, p.first, Len(file), file)
      BY <2>1, <2>2 DEF Signed
    <3>. HIDE DEF l
    <3>5. ASSUME NEW k \in 1..Len(p'.chunks)
          PROVE  Owns(p'.chunks[k].signature, p'.chunks[k].first,
                      p'.chunks[k].last, file)
      <4>1. CASE k \in 1..l
        BY <4>1, <3>2, <3>4
      <4>2. CASE k = l + 1
        BY <4>2, <3>2, <3>3, <3>4
      <4>. QED
        BY <4>1, <4>2, <3>2
    <3>. QED
      BY <2>1, <3>5 DEF Signed
  <2>3. CASE ~(strategy = "block" /\ p.size > MinSize)
    BY <2>1, <2>3 DEF Signed, CutIf
  <2>. QED
    BY <2>2, <2>3
<1>5. CASE UNCHANGED vars
  BY <1>5 DEF vars, Signed
<1>. QED
  BY <1>1, <1>2, <1>3, <1>4, <1>5 DEF Next

\* In the block strategy a chunk bears the last signature of its own lines.
THEOREM SignaturesAreTheChunks == Spec => []SignatureIsOwn
<1>1. Signed => SignatureIsOwn
  BY DEF Signed, SignatureIsOwn, Owns, Heads
<1>. QED
  BY <1>1, Inductive, SignedInit, SignedStep, PTL DEF Spec

-----------------------------------------------------------------------------
(* The blocks of the block strategy.                                       *)

\* The depth after row i of f.
DepthOf(f, i) == Sums([k \in 1..Len(f) |-> f[k].delta])[i]

\* The depth is that of the rows read, and every chunk ends outside all
\* blocks, but for the one that is made of what is left at the end.
Closed ==
    strategy = "block" =>
      /\ depth = DepthOf(file, Len(file))
      /\ \A k \in 1..Len(p.chunks) :
           DepthOf(file, p.chunks[k].last) = 0 \/ (done /\ k = Len(p.chunks))

LEMMA DepthsGrow ==
    ASSUME NEW f \in Seq(Lines), NEW row \in Lines
    PROVE  /\ \A i \in 0..Len(f) : DepthOf(Append(f, row), i) = DepthOf(f, i)
           /\ DepthOf(Append(f, row), Len(f) + 1) = DepthOf(f, Len(f)) + row.delta
           /\ DepthOf(f, 0) = 0
<1>. DEFINE m == Len(f)
            g == Append(f, row)
            s == [i \in 1..m |-> f[i].delta]
            t == [i \in 1..(m + 1) |-> g[i].delta]
<1>1. /\ m \in Nat /\ Len(g) = m + 1 /\ g[m + 1] = row /\ g \in Seq(Lines)
      /\ \A i \in 1..m : g[i] = f[i] /\ f[i] \in Lines
  OBVIOUS
<1>2. s \in Seq(Int) /\ Len(s) = m /\ t \in Seq(Int) /\ Len(t) = m + 1
  <2>1. \A i \in 1..m : f[i].delta \in Int
    BY <1>1, LineType
  <2>2. \A i \in 1..(m + 1) : g[i].delta \in Int
    <3>. HIDE DEF g
    <3>1. \A i \in 1..(m + 1) : g[i] \in Lines
      BY <1>1
    <3>. QED
      BY <3>1, LineType
  <2>. HIDE DEF g
  <2>3. s \in [1..m -> Int] /\ t \in [1..(m + 1) -> Int]
    BY <2>1, <2>2
  <2>4. \A k \in Nat : \A e \in [1..k -> Int] : e \in Seq(Int) /\ Len(e) = k
    OBVIOUS
  <2>5. m \in Nat /\ m + 1 \in Nat
    BY <1>1
  <2>. HIDE DEF m, s, t
  <2>. QED
    BY <2>3, <2>4, <2>5
<1>3. /\ \A i \in 1..m : s[i] = t[i]
      /\ t[m + 1] = row.delta
  BY <1>1
<1>4. /\ \A i : DepthOf(f, i) = Sums(s)[i]
      /\ \A i : DepthOf(g, i) = Sums(t)[i]
  BY <1>1 DEF DepthOf
<1>. HIDE DEF s, t, g, m
<1>5. \A i \in 0..m : Sums(s)[i] = Sums(t)[i]
  <2>1. /\ s \in Seq(Int) /\ t \in Seq(Int) /\ m \in Nat
        /\ m <= Len(s) /\ m <= Len(t) /\ \A i \in 1..m : s[i] = t[i]
    BY <1>1, <1>2, <1>3
  <2>2. \A i \in 0..m : Sums(s)[i] = Sums(t)[i]
    BY <2>1, SumsAgree, Zenon
  <2>. QED
    BY <2>2
<1>6. Sums(s)[0] = 0 /\ Sums(t)[m + 1] = Sums(t)[m] + row.delta
  <2>1. m + 1 \in 1..Len(t) /\ (m + 1) - 1 = m
    BY SMTT(40), <1>1, <1>2
  <2>2. Sums(t)[m + 1] = Sums(t)[(m + 1) - 1] + t[m + 1]
    BY <1>2, <2>1, SumsStep, Zenon
  <2>3. Sums(s)[0] = 0
    BY <1>2, SumsStep
  <2>. QED
    BY <1>3, <2>1, <2>2, <2>3
<1>7. m \in 0..m
  BY <1>1
<1>8. DepthOf(g, m + 1) = DepthOf(f, m) + row.delta
  BY <1>4, <1>5, <1>6, <1>7
<1>9. \A i \in 0..m : DepthOf(g, i) = DepthOf(f, i)
  BY <1>4, <1>5
<1>. QED
  BY <1>4, <1>6, <1>8, <1>9 DEF m, g

\* A line of the block strategy makes at most one chunk, outside all blocks.
LEMMA BlockMakesOne ==
    ASSUME IInv, NEW row \in Lines, BlockLine(row)
    PROVE  \/ p'.chunks = p.chunks
           \/ depth' = 0 /\ \E c : c.last = n /\ p'.chunks = Append(p.chunks, c)
<1>. DEFINE written == Write(SignIf(row.def = "function", p, n), row)
            over    == depth' = 0 /\ written.size > MinSize
            closed  == [Cut(written, n) EXCEPT !.signature = 0]
<1>1. p \in Parsers
  BY DEF IInv, Good
<1>2. /\ written.size \in Nat /\ written.chunks = p.chunks
      /\ \E c : c.last = n /\ Cut(written, n).chunks = Append(p.chunks, c)
      /\ closed.size = 0 /\ closed.chunks = Cut(written, n).chunks
  <2>1. /\ written.size \in Nat /\ written.chunks = p.chunks
        /\ written = [first |-> written.first, size |-> written.size,
                      signature |-> written.signature, chunks |-> written.chunks]
    BY SMTT(40), <1>1, LineType DEF Parsers, Write, SignIf
  <2>. HIDE DEF written
  <2>. DEFINE c == [first |-> written.first, last |-> n, size |-> written.size,
                    signature |-> written.signature]
  <2>2. c.last = n
    OBVIOUS
  <2>3. /\ Cut(written, n).chunks = Append(p.chunks, c)
        /\ closed.size = 0 /\ closed.chunks = Cut(written, n).chunks
    BY <2>1 DEF Cut
  <2>. HIDE DEF c, closed
  <2>. QED
    BY <2>1, <2>2, <2>3
<1>. HIDE DEF written
<1>3. CASE over
  <2>1. p' = closed
    <3>1. p' = CutIf(closed.size > MaxSize /\ depth' = 0, closed, n)
      BY <1>3 DEF BlockLine, written
    <3>. HIDE DEF closed
    <3>. QED
      BY <3>1, <1>2 DEF CutIf
  <2>. HIDE DEF closed
  <2>. QED
    BY <1>2, <1>3, <2>1
<1>4. CASE ~over
  <2>1. p' = CutIf(written.size > MaxSize /\ depth' = 0, written, n)
    BY <1>4 DEF BlockLine, written
  <2>2. ~(written.size > MaxSize /\ depth' = 0)
    BY <1>2, <1>4
  <2>. QED
    BY <1>2, <2>1, <2>2 DEF CutIf
<1>. QED
  BY <1>3, <1>4

LEMMA ClosedInit == Init => Closed
<1>. SUFFICES ASSUME Init PROVE Closed
  OBVIOUS
<1>1. depth = 0 /\ Len(file) = 0 /\ Len(p.chunks) = 0
  BY DEF Init
<1>2. DepthOf(file, 0) = 0
  <2>. DEFINE s == [k \in 1..Len(file) |-> file[k].delta]
  <2>1. s \in Seq(Int)
    BY <1>1
  <2>. HIDE DEF s
  <2>2. Sums(s)[0] = 0
    BY <2>1, SumsStep
  <2>. QED
    BY <2>2 DEF s, DepthOf
<1>. QED
  BY <1>1, <1>2 DEF Closed

LEMMA ClosedStep == IInv /\ Closed /\ [Next]_vars => Closed'
<1>. SUFFICES ASSUME IInv, Closed, [Next]_vars PROVE Closed'
  OBVIOUS
<1>0. /\ p.chunks \in Seq(Chunk) /\ file \in Seq(Lines)
      /\ \A k \in 1..Len(p.chunks) : p.chunks[k].last \in 0..Len(file)
  <2>1. p.chunks \in Seq(Chunk) /\ file \in Seq(Lines)
    BY DEF IInv, Good, Parsers
  <2>2. ASSUME NEW k \in 1..Len(p.chunks) PROVE p.chunks[k].last \in 0..Len(file)
    <3>1. p.chunks[k] \in Chunk /\ Len(file) \in Nat
      BY <2>1
    <3>2. p.chunks[k].last <= Len(file)
      BY DEF IInv, Good, SizedBy
    <3>. QED
      BY <3>1, <3>2 DEF Chunk
  <2>. QED
    BY <2>1, <2>2
<1>1. ASSUME NEW row \in Lines, BlockLine(row) PROVE Closed'
  <2>. DEFINE l == Len(p.chunks)
  <2>1. /\ strategy = "block" /\ ~done /\ ~done'
        /\ file' = Append(file, row) /\ n = Len(file) + 1 /\ Len(file') = n
        /\ depth' = depth + row.delta
    BY <1>0, <1>1 DEF BlockLine, Take, n
  <2>2. depth' = DepthOf(file', n)
    BY <1>0, <2>1, DepthsGrow DEF Closed
  <2>3. ASSUME NEW k \in 1..l PROVE DepthOf(file', p.chunks[k].last) = 0
    <3>1. p.chunks[k].last \in 0..Len(file) /\ DepthOf(file, p.chunks[k].last) = 0
      BY <1>0, <2>1 DEF Closed
    <3>. QED
      BY <1>0, <2>1, <3>1, DepthsGrow
  <2>4. CASE p'.chunks = p.chunks
    BY <2>1, <2>2, <2>3, <2>4 DEF Closed
  <2>5. ASSUME NEW c, depth' = 0, c.last = n, p'.chunks = Append(p.chunks, c)
        PROVE  \A k \in 1..Len(p'.chunks) : DepthOf(file', p'.chunks[k].last) = 0
    <3>1. /\ Len(p'.chunks) = l + 1 /\ p'.chunks[l + 1] = c /\ l \in Nat
          /\ \A k \in 1..l : p'.chunks[k] = p.chunks[k]
      BY <1>0, <2>5
    <3>2. ASSUME NEW k \in 1..(l + 1) PROVE DepthOf(file', p'.chunks[k].last) = 0
      <4>1. CASE k \in 1..l
        BY <4>1, <2>3, <3>1
      <4>2. CASE k = l + 1
        BY <4>2, <2>2, <2>5, <3>1
      <4>. QED
        BY <4>1, <4>2, <3>1
    <3>. QED
      BY <3>1, <3>2
  <2>. QED
    BY <1>1, <2>1, <2>2, <2>4, <2>5, BlockMakesOne DEF Closed
<1>2. ASSUME NEW row \in Lines, IndentedLine(row) PROVE Closed'
  BY <1>2 DEF IndentedLine, Take, Closed
<1>3. ASSUME NEW row \in Lines, PlainLine(row) PROVE Closed'
  BY <1>3 DEF PlainLine, Take, Closed
<1>4. CASE Finish
  <2>1. /\ p' = CutIf(p.size > MinSize, p, Len(file)) /\ done' = TRUE /\ ~done
        /\ strategy' = strategy /\ file' = file /\ depth' = depth
    BY <1>4 DEF Finish
  <2>2. \/ p'.chunks = p.chunks
        \/ \E c : p'.chunks = Append(p.chunks, c)
    <3>1. p \in Parsers
      BY DEF IInv, Good
    <3>. QED
      BY <2>1, <3>1 DEF CutIf, Cut, Parsers
  <2>3. \A k \in 1..Len(p.chunks) :
          /\ p'.chunks[k] = p.chunks[k]
          /\ Len(p.chunks) <= Len(p'.chunks) /\ Len(p'.chunks) <= Len(p.chunks) + 1
    BY <1>0, <2>2
  <2>4. Len(p'.chunks) \in {Len(p.chunks), Len(p.chunks) + 1} /\ Len(p.chunks) \in Nat
    BY <1>0, <2>2
  <2>5. strategy = "block" =>
          \A k \in 1..Len(p.chunks) : DepthOf(file, p.chunks[k].last) = 0
    BY <2>1 DEF Closed
  <2>6. \A k \in 1..Len(p'.chunks) : k \in 1..Len(p.chunks) \/ k = Len(p'.chunks)
    BY <2>4
  <2>. QED
    BY <2>1, <2>3, <2>5, <2>6 DEF Closed
<1>5. CASE UNCHANGED vars
  BY <1>5 DEF vars, Closed
<1>. QED
  BY <1>1, <1>2, <1>3, <1>4, <1>5 DEF Next

LEMMA ClosedImplies == IInv /\ Closed => BlocksAreWhole
<1>. SUFFICES ASSUME IInv, Closed, strategy = "block", NEW k \in 1..Len(p.chunks)
              PROVE  /\ DepthAt(p.chunks[k].first - 1) = 0
                     /\ DepthAt(p.chunks[k].last) = 0 \/ (done /\ k = Len(p.chunks))
  BY DEF BlocksAreWhole
<1>0. p.chunks \in Seq(Chunk) /\ file \in Seq(Lines) /\ TiledBy(p)
  BY DEF IInv, Good, Parsers
<1>1. \A i : DepthAt(i) = DepthOf(file, i)
  BY DEF DepthAt, DepthOf
<1>2. DepthOf(file, EndOf(p, k - 1)) = 0
  <2>1. CASE k = 1
    <3>1. EndOf(p, k - 1) = 0
      BY <2>1 DEF EndOf
    <3>. DEFINE s == [i \in 1..Len(file) |-> file[i].delta]
    <3>2. s \in Seq(Int)
      <4>1. \A i \in 1..Len(file) : file[i].delta \in Int
        BY <1>0, LineType
      <4>. QED
        BY <1>0, <4>1
    <3>. HIDE DEF s
    <3>3. Sums(s)[0] = 0
      BY <3>2, SumsStep
    <3>. QED
      BY <3>1, <3>3 DEF s, DepthOf
  <2>2. CASE k # 1
    <3>1. k - 1 \in 1..Len(p.chunks) /\ k - 1 # Len(p.chunks) /\ k - 1 # 0
      BY <1>0, <2>2
    <3>. QED
      BY <3>1 DEF Closed, EndOf
  <2>. QED
    BY <2>1, <2>2
<1>3. p.chunks[k].first - 1 = EndOf(p, k - 1)
  <2>1. p.chunks[k] \in Chunk
    BY <1>0
  <2>2. p.chunks[k].first = EndOf(p, k - 1) + 1
    BY <1>0 DEF TiledBy
  <2>3. EndOf(p, k - 1) \in Nat
    <3>1. k - 1 # 0 => p.chunks[k - 1] \in Chunk
      BY <1>0
    <3>. QED
      BY <3>1 DEF EndOf, Chunk
  <2>. QED
    BY <2>2, <2>3
<1>. QED
  BY <1>1, <1>2, <1>3 DEF Closed

\* Each chunk holds its lines in full, and what is left at the end is shorter
\* than a chunk.
THEOREM NoTextIsLost == Spec => []NothingLost
BY Inductive, IInvImplies, PTL

\* The block strategy cuts no block in two.
THEOREM BlocksStayWhole == Spec => []BlocksAreWhole
BY Inductive, ClosedInit, ClosedStep, ClosedImplies, PTL DEF Spec

-----------------------------------------------------------------------------
(* The jobs of Indexing: types, and where each job is.                     *)

Begun == {"scan", "append"}

\* A job has judged no more files than it has, none before its walk, keeps
\* files of its own repository only, and stores chunks of one of them.
InPlace(j) ==
    /\ line[j] \in 1..(Len(Gitignore[repo[j]]) + 1)
    /\ pc[j] \in {"idle", "reset"} => line[j] = 1
    /\ walked[j] \in 0..Len(Tree[repo[j]])
    /\ pc[j] \in {"idle", "reset", "scan", "append"} =>
         walked[j] = 0 /\ filesToProcess[j] = <<>>
    /\ Indexer!Range(filesToProcess[j]) \subseteq Indexer!FilesOf(repo[j])
    /\ cur[j] > 0
    /\ pc[j] = "upsert" => cur[j] \in 1..Len(filesToProcess[j])

Jobbed == Indexer!TypeOK /\ \A j \in Jobs : InPlace(j)

LEMMA Trees ==
    /\ \A r \in Repos : /\ Tree[r] \in Seq(Files)
                        /\ Gitignore[r] \in Seq(Patterns \cup {Comment})
                        /\ Indexer!FilesOf(r) \subseteq Files
    /\ Comment \notin Patterns /\ BatchSize \in Nat \ {0} /\ MaxDelete \in Nat \ {0}
    /\ MaxEdits \in Nat /\ Sizes \in [Files -> SUBSET Nat]
    /\ \A q \in Patterns, f \in Files : <<Comment, f>> \notin Matches
<1>. USE JobsAssumption DEF Indexer!ConstantsAssumption
<1>1. ASSUME NEW r \in Repos
      PROVE  /\ Tree[r] \in Seq(Files)
             /\ Gitignore[r] \in Seq(Patterns \cup {Comment})
             /\ Indexer!FilesOf(r) \subseteq Files
  BY DEF Indexer!FilesOf, Indexer!Range
<1>. QED
  BY <1>1

LEMMA JobsInit == Indexer!Init => Jobbed
<1>. SUFFICES ASSUME Indexer!Init PROVE Jobbed
  OBVIOUS
<1>. USE Trees DEF Indexer!Init
<1>1. size \in [Files -> Nat]
  OBVIOUS
<1>2. edits \in 0..MaxEdits /\ pc \in [Jobs -> Indexer!PCs]
  BY DEF Indexer!PCs
<1>4. Indexer!TypeOK
  BY <1>1, <1>2 DEF Indexer!TypeOK
<1>5. ASSUME NEW j \in Jobs PROVE InPlace(j)
  <2>1. Gitignore[repo[j]] \in Seq(Patterns \cup {Comment})
          /\ Tree[repo[j]] \in Seq(Files)
    OBVIOUS
  <2>. QED
    BY <2>1 DEF InPlace, Indexer!Range
<1>. QED
  BY <1>4, <1>5 DEF Jobbed

LEMMA AppendRange ==
    ASSUME NEW S, NEW s \in Seq(S), NEW e
    PROVE  Indexer!Range(Append(s, e)) = Indexer!Range(s) \cup {e}
<1>1. /\ DOMAIN s = 1..Len(s) /\ DOMAIN Append(s, e) = 1..(Len(s) + 1)
      /\ Append(s, e)[Len(s) + 1] = e /\ Len(s) \in Nat
      /\ \A i \in 1..Len(s) : Append(s, e)[i] = s[i]
  OBVIOUS
<1>2. 1..(Len(s) + 1) = (1..Len(s)) \cup {Len(s) + 1}
  BY <1>1
<1>. QED
  BY <1>1, <1>2 DEF Indexer!Range

\* A deletion of r removes the chunks gone.
Removed(r, gone) ==
    /\ stored' = stored \ gone
    /\ torn' = torn \cup {j \in Jobs : repo[j] = r /\ Indexer!Running(j)}
    /\ partly' = IF gone = Indexer!ChunksOf(r) THEN partly \ {r} ELSE partly \cup {r}
    /\ UNCHANGED <<repo, ignorePatterns, Indexer!jobVars, size, edits, mixed>>

LEMMA DeletionRemoves ==
    ASSUME NEW r \in Repos, Indexer!DeleteIndex(r)
    PROVE  \E gone \in SUBSET Indexer!ChunksOf(r) : Removed(r, gone)
BY DEF Indexer!DeleteIndex, Indexer!DeleteByRepoID, Removed

LEMMA JobsStep == Jobbed /\ [Indexer!Next]_(Indexer!vars) => Jobbed'
<1>. SUFFICES ASSUME Jobbed, [Indexer!Next]_(Indexer!vars) PROVE Jobbed'
  OBVIOUS
<1>. USE DEF Jobbed
<1>0. /\ Indexer!TypeOK
      /\ \A j \in Jobs : /\ InPlace(j) /\ repo[j] \in Repos
                         /\ Gitignore[repo[j]] \in Seq(Patterns \cup {Comment})
                         /\ Tree[repo[j]] \in Seq(Files)
  BY Trees DEF Indexer!TypeOK
<1>1. ASSUME NEW j \in Jobs, Indexer!Index(j) PROVE Jobbed'
  <2>. USE <1>1 DEF Indexer!Index
  <2>1. Indexer!TypeOK'
    BY DEF Indexer!TypeOK, Indexer!PCs
  <2>2. ASSUME NEW k \in Jobs PROVE InPlace(k)'
    BY DEF Indexer!TypeOK, InPlace
  <2>. QED
    BY <2>1, <2>2
<1>2. ASSUME NEW j \in Jobs, Indexer!ResetPatterns(j) PROVE Jobbed'
  <2>. USE <1>2 DEF Indexer!ResetPatterns
  <2>1. Indexer!TypeOK'
    <3>1. pc' \in [Jobs -> Indexer!PCs]
      BY DEF Indexer!TypeOK, Indexer!PCs
    <3>2. mixed' \subseteq Jobs
      BY DEF Indexer!TypeOK, Indexer!Disturbed
    <3>3. ignorePatterns' \in Seq(Patterns)
      OBVIOUS
    <3>. QED
      BY <3>1, <3>2, <3>3 DEF Indexer!TypeOK
  <2>2. ASSUME NEW k \in Jobs PROVE InPlace(k)'
    BY DEF Indexer!TypeOK, InPlace
  <2>. QED
    BY <2>1, <2>2
<1>3. ASSUME NEW j \in Jobs, Indexer!ReadLine(j) PROVE Jobbed'
  <2>. DEFINE text == Gitignore[repo[j]][line[j]]
  <2>1. /\ pc[j] = "scan" /\ line[j] <= Len(Gitignore[repo[j]])
        /\ line' = [line EXCEPT ![j] = @ + 1]
        /\ pc' \in {pc, [pc EXCEPT ![j] = "append"]}
        /\ seen' # seen =>
             text # Comment /\ seen' = [seen EXCEPT ![j] = Append(ignorePatterns,
               text)]
        /\ UNCHANGED <<repo, ignorePatterns, walked, filesToProcess, cur, count, at,
                       size, edits, stored, mixed, torn, partly>>
    BY <1>3 DEF Indexer!ReadLine
  <2>2. line[j] \in 1..Len(Gitignore[repo[j]]) /\ text \in Patterns \cup {Comment}
    <3>1. line[j] \in Nat \ {0}
      BY <1>0 DEF InPlace
    <3>. QED
      BY <1>0, <2>1, <3>1
  <2>. HIDE DEF text
  <2>3. Indexer!TypeOK'
    <3>0. /\ line \in [Jobs -> Nat] /\ pc \in [Jobs -> Indexer!PCs]
          /\ seen \in [Jobs -> Seq(Patterns)] /\ ignorePatterns \in Seq(Patterns)
      BY DEF Indexer!TypeOK
    <3>1. line' \in [Jobs -> Nat]
      BY <2>1, <3>0
    <3>2. pc' \in [Jobs -> Indexer!PCs]
      BY <2>1, <3>0 DEF Indexer!PCs
    <3>3. seen' \in [Jobs -> Seq(Patterns)]
      <4>1. text # Comment => Append(ignorePatterns, text) \in Seq(Patterns)
        BY <2>2, <3>0
      <4>. QED
        BY <2>1, <3>0, <4>1
    <3>. QED
      BY <2>1, <3>1, <3>2, <3>3 DEF Indexer!TypeOK
  <2>4. ASSUME NEW k \in Jobs PROVE InPlace(k)'
    <3>1. CASE k # j
      BY <3>1, <2>1 DEF Indexer!TypeOK, InPlace, Indexer!FilesOf
    <3>2. CASE k = j
      <4>1. line'[j] = line[j] + 1 /\ pc'[j] \in {"scan", "append"} /\ repo' = repo
        BY <2>1 DEF Indexer!TypeOK
      <4>2. /\ Len(Gitignore[repo[j]]) \in Nat /\ pc[j] = "scan"
            /\ line'[j] \in 1..(Len(Gitignore[repo[j]]) + 1)
        BY <4>1, <2>1, <2>2, <1>0
      <4>. QED
        BY <3>2, <4>1, <4>2, <2>1, <1>0 DEF InPlace, Indexer!FilesOf
    <3>. QED
      BY <3>1, <3>2
  <2>. QED
    BY <2>1, <2>3, <2>4
<1>4. ASSUME NEW j \in Jobs, Indexer!AppendPattern(j) PROVE Jobbed'
  <2>. USE <1>4 DEF Indexer!AppendPattern
  <2>1. Indexer!TypeOK'
    <3>1. pc' \in [Jobs -> Indexer!PCs]
      BY DEF Indexer!TypeOK, Indexer!PCs
    <3>2. mixed' \subseteq Jobs
      BY DEF Indexer!TypeOK, Indexer!Disturbed
    <3>3. ignorePatterns' \in Seq(Patterns) /\ seen' \in [Jobs -> Seq(Patterns)]
      BY DEF Indexer!TypeOK
    <3>. QED
      BY <3>1, <3>2, <3>3 DEF Indexer!TypeOK
  <2>2. ASSUME NEW k \in Jobs PROVE InPlace(k)'
    BY DEF Indexer!TypeOK, InPlace
  <2>. QED
    BY <2>1, <2>2
<1>5. ASSUME NEW j \in Jobs, Indexer!StartWalk(j) PROVE Jobbed'
  <2>. USE <1>5 DEF Indexer!StartWalk
  <2>1. Indexer!TypeOK'
    BY DEF Indexer!TypeOK, Indexer!PCs
  <2>2. ASSUME NEW k \in Jobs PROVE InPlace(k)'
    BY DEF Indexer!TypeOK, InPlace
  <2>. QED
    BY <2>1, <2>2
<1>6. ASSUME NEW j \in Jobs, Indexer!Walk(j) PROVE Jobbed'
  <2>. DEFINE f == Tree[repo[j]][walked[j] + 1]
  <2>1. /\ walked' = [walked EXCEPT ![j] = @ + 1]
        /\ \/ filesToProcess' = filesToProcess
           \/ filesToProcess' = [filesToProcess EXCEPT ![j] = Append(@, f)]
        /\ mixed' \in {mixed, mixed \cup {j}}
        /\ pc[j] = "walk" /\ walked[j] < Len(Tree[repo[j]])
        /\ UNCHANGED <<repo, ignorePatterns, pc, line, seen, cur, count, at, size,
                       edits, stored, torn, partly>>
    BY <1>6 DEF Indexer!Walk
  <2>2. /\ walked[j] + 1 \in 1..Len(Tree[repo[j]]) /\ f \in Files
        /\ f \in Indexer!FilesOf(repo[j])
    BY <1>0, <2>1 DEF InPlace, Indexer!FilesOf, Indexer!Range
  <2>. HIDE DEF f
  <2>3. Indexer!TypeOK'
    <3>1. walked' \in [Jobs -> Nat] /\ mixed' \subseteq Jobs
      BY <2>1 DEF Indexer!TypeOK
    <3>2. filesToProcess' \in [Jobs -> Seq(Files)]
      <4>1. filesToProcess \in [Jobs -> Seq(Files)]
        BY DEF Indexer!TypeOK
      <4>2. Append(filesToProcess[j], f) \in Seq(Files)
        BY <2>2, <4>1
      <4>. QED
        BY <2>1, <4>1, <4>2
    <3>. QED
      BY <2>1, <3>1, <3>2 DEF Indexer!TypeOK
  <2>4. ASSUME NEW k \in Jobs PROVE InPlace(k)'
    <3>1. CASE k # j
      BY <3>1, <2>1 DEF Indexer!TypeOK, InPlace, Indexer!FilesOf
    <3>2. CASE k = j
      <4>1. Indexer!Range(filesToProcess'[j]) \subseteq Indexer!FilesOf(repo[j])
        <5>. DEFINE s == filesToProcess[j]
        <5>1. s \in Seq(Files) /\ Indexer!Range(s) \subseteq Indexer!FilesOf(repo[j])
          BY <1>0 DEF Indexer!TypeOK, InPlace
        <5>2. filesToProcess'[j] \in {s, Append(s, f)}
          BY <2>1 DEF Indexer!TypeOK
        <5>. HIDE DEF s
        <5>3. Indexer!Range(Append(s, f)) = Indexer!Range(s) \cup {f}
          BY <2>2, <5>1, AppendRange
        <5>. QED
          BY <2>2, <5>1, <5>2, <5>3
      <4>2. walked'[j] = walked[j] + 1 /\ repo' = repo /\ pc'[j] = "walk"
        BY <2>1 DEF Indexer!TypeOK
      <4>. QED
        BY <3>2, <4>1, <4>2, <2>1, <2>2 DEF InPlace, Indexer!FilesOf
    <3>. QED
      BY <3>1, <3>2
  <2>. QED
    BY <2>1, <2>3, <2>4
<1>7. ASSUME NEW j \in Jobs, Indexer!TornRead(j) PROVE Jobbed'
  <2>. USE <1>7 DEF Indexer!TornRead
  <2>1. Indexer!TypeOK'
    BY DEF Indexer!TypeOK, Indexer!PCs
  <2>2. ASSUME NEW k \in Jobs PROVE InPlace(k)'
    BY DEF Indexer!TypeOK, InPlace
  <2>. QED
    BY <2>1, <2>2
<1>8. ASSUME NEW j \in Jobs, Indexer!EndWalk(j) \/ Indexer!EndIndex(j) PROVE Jobbed'
  <2>1. /\ pc[j] \in {"walk", "file"}
        /\ pc' \in {[pc EXCEPT ![j] = "file"], [pc EXCEPT ![j] = "done"]}
        /\ UNCHANGED <<repo, ignorePatterns, line, seen, walked, filesToProcess, cur,
                       count, at, size, edits, stored, mixed, torn, partly>>
    BY <1>8 DEF Indexer!EndWalk, Indexer!EndIndex
  <2>2. pc' \in [Jobs -> Indexer!PCs]
    BY <2>1 DEF Indexer!TypeOK, Indexer!PCs
  <2>3. Indexer!TypeOK'
    BY <2>1, <2>2 DEF Indexer!TypeOK
  <2>4. ASSUME NEW k \in Jobs PROVE InPlace(k)'
    <3>1. \/ pc'[k] = pc[k]
          \/ pc[k] \in {"walk", "file"} /\ pc'[k] \in {"file", "done"}
      <4>1. pc \in [Jobs -> Indexer!PCs]
        BY DEF Indexer!TypeOK
      <4>2. PICK next \in {"file", "done"} : pc' = [pc EXCEPT ![j] = next]
        BY <2>1
      <4>3. k # j => pc'[k] = pc[k]
        BY <4>1, <4>2
      <4>4. k = j => pc'[k] = next
        BY <4>1, <4>2
      <4>. QED
        BY <2>1, <4>2, <4>3, <4>4
    <3>. QED
      BY <2>1, <3>1 DEF InPlace, Indexer!FilesOf
  <2>. QED
    BY <2>1, <2>3, <2>4
<1>9. ASSUME NEW j \in Jobs, Indexer!PassOver(j) PROVE Jobbed'
  <2>1. /\ pc[j] = "file" /\ cur' = [cur EXCEPT ![j] = @ + 1]
        /\ UNCHANGED <<repo, ignorePatterns, pc, line, seen, walked, filesToProcess,
                       count, at, size, edits, stored, mixed, torn, partly>>
    BY <1>9 DEF Indexer!PassOver
  <2>2. cur \in [Jobs -> Nat] /\ cur' \in [Jobs -> Nat]
    BY <2>1 DEF Indexer!TypeOK
  <2>3. Indexer!TypeOK'
    BY <2>1, <2>2 DEF Indexer!TypeOK
  <2>4. ASSUME NEW k \in Jobs PROVE InPlace(k)'
    <3>1. cur'[k] > 0 /\ (pc[k] = "upsert" => cur'[k] = cur[k])
      BY <2>1, <2>2 DEF InPlace
    <3>. QED
      BY <2>1, <3>1 DEF InPlace, Indexer!FilesOf
  <2>. QED
    BY <2>1, <2>3, <2>4
<1>10. ASSUME NEW j \in Jobs, Indexer!ProcessFile(j) PROVE Jobbed'
  <2>. DEFINE m == size[filesToProcess[j][cur[j]]]
  <2>1. /\ cur[j] <= Len(filesToProcess[j]) /\ pc[j] = "file"
        /\ UNCHANGED <<repo, ignorePatterns, line, seen, walked, filesToProcess, size,
                       edits, stored, mixed, torn, partly>>
    BY <1>10 DEF Indexer!ProcessFile
  <2>2. /\ pc \in [Jobs -> Indexer!PCs] /\ count \in [Jobs -> Nat]
        /\ at \in [Jobs -> Nat] /\ cur \in [Jobs -> Nat] /\ cur[j] # 0
        /\ filesToProcess[j] \in Seq(Files) /\ size \in [Files -> Nat]
    BY <1>0 DEF InPlace, Indexer!TypeOK
  <2>3. cur[j] \in 1..Len(filesToProcess[j]) /\ m \in Nat
    BY <2>1, <2>2
  <2>. HIDE DEF m
  <2>4. CASE /\ pc' = [pc EXCEPT ![j] = "upsert"] /\ count' = [count EXCEPT ![j] = m]
             /\ at' = [at EXCEPT ![j] = 0] /\ cur' = cur
    <3>1. /\ pc' \in [Jobs -> Indexer!PCs] /\ count' \in [Jobs -> Nat]
          /\ at' \in [Jobs -> Nat]
      BY <2>2, <2>3, <2>4 DEF Indexer!PCs
    <3>2. Indexer!TypeOK'
      BY <2>1, <2>4, <3>1 DEF Indexer!TypeOK
    <3>3. ASSUME NEW k \in Jobs PROVE InPlace(k)'
      BY <2>1, <2>2, <2>3, <2>4 DEF InPlace, Indexer!FilesOf
    <3>. QED
      BY <2>1, <3>2, <3>3
  <2>5. CASE cur' = [cur EXCEPT ![j] = @ + 1] /\ UNCHANGED <<pc, count, at>>
    <3>1. cur' \in [Jobs -> Nat]
      BY <2>2, <2>5
    <3>2. Indexer!TypeOK'
      BY <2>1, <2>5, <3>1 DEF Indexer!TypeOK
    <3>3. ASSUME NEW k \in Jobs PROVE InPlace(k)'
      <4>1. cur'[k] > 0 /\ (pc[k] = "upsert" => cur'[k] = cur[k])
        BY <2>1, <2>2, <2>5 DEF InPlace
      <4>. QED
        BY <2>1, <2>5, <4>1 DEF InPlace, Indexer!FilesOf
    <3>. QED
      BY <2>1, <3>2, <3>3
  <2>. QED
    BY <1>10, <2>4, <2>5 DEF Indexer!ProcessFile, m
<1>11. ASSUME NEW j \in Jobs, pc[j] = "upsert",
              Indexer!UpsertBatch(j) \/ Indexer!UpsertBatchFails(j)
       PROVE  Jobbed'
  <2>1. Indexer!BatchEnd(j) \in Nat /\ Indexer!Batch(j) \subseteq Files \X Nat
    <3>1. filesToProcess[j][cur[j]] \in Files
      BY <1>0, <1>11 DEF InPlace, Indexer!TypeOK
    <3>2. at[j] \in Nat /\ count[j] \in Nat
      BY DEF Indexer!TypeOK
    <3>3. Indexer!BatchEnd(j) \in Nat
      BY <3>2, Trees DEF Indexer!BatchEnd, Indexer!Lesser
    <3>. QED
      BY <3>1, <3>2, <3>3 DEF Indexer!Batch
  <2>2. /\ stored' \subseteq stored \cup Indexer!Batch(j)
        /\ at' \in {at, [at EXCEPT ![j] = Indexer!BatchEnd(j)]}
        /\ \/ UNCHANGED <<pc, cur>>
           \/ pc' = [pc EXCEPT ![j] = "file"] /\ cur' = [cur EXCEPT ![j] = @ + 1]
        /\ UNCHANGED <<repo, ignorePatterns, line, seen, walked, filesToProcess,
             count,
                       size, edits, mixed, torn, partly>>
    BY <1>11 DEF Indexer!UpsertBatch, Indexer!UpsertBatchFails, Indexer!NextFile
  <2>3. /\ pc' \in [Jobs -> Indexer!PCs] /\ cur' \in [Jobs -> Nat]
        /\ at' \in [Jobs -> Nat] /\ stored' \subseteq Files \X Nat
    <3>1. /\ pc \in [Jobs -> Indexer!PCs] /\ stored \subseteq Files \X Nat
          /\ at \in [Jobs -> Nat] /\ cur \in [Jobs -> Nat]
      BY DEF Indexer!TypeOK
    <3>2. "file" \in Indexer!PCs
      BY DEF Indexer!PCs
    <3>. QED
      BY <2>1, <2>2, <3>1, <3>2
  <2>4. Indexer!TypeOK'
    BY <2>2, <2>3 DEF Indexer!TypeOK
  <2>5. ASSUME NEW k \in Jobs PROVE InPlace(k)'
    <3>1. /\ pc'[k] \in {pc[k], "file"} /\ cur'[k] \in {cur[k], cur[k] + 1}
          /\ pc[k] \in {"idle", "reset", "scan", "append"} <=>
               pc'[k] \in {"idle", "reset", "scan", "append"}
          /\ pc'[k] = "upsert" => pc[k] = "upsert" /\ cur'[k] = cur[k]
      BY <1>11, <2>2 DEF Indexer!TypeOK
    <3>2. cur[k] \in Nat /\ InPlace(k)
      BY DEF Indexer!TypeOK
    <3>3. UNCHANGED <<repo, line, walked, filesToProcess>>
      BY <2>2
    <3>4. cur'[k] > 0
      BY <3>1, <3>2 DEF InPlace
    <3>5. pc'[k] = "upsert" => cur'[k] \in 1..Len(filesToProcess'[k])
      BY <3>1, <3>2, <3>3 DEF InPlace
    <3>6. pc'[k] \in {"idle", "reset"} => line'[k] = 1
      BY <3>1, <3>2, <3>3 DEF InPlace
    <3>. QED
      BY <3>1, <3>2, <3>3, <3>4, <3>5, <3>6 DEF InPlace, Indexer!FilesOf
  <2>. QED
    BY <2>4, <2>5
<1>12. ASSUME NEW r \in Repos, Indexer!DeleteIndex(r) PROVE Jobbed'
  <2>1. PICK gone \in SUBSET Indexer!ChunksOf(r) : Removed(r, gone)
    BY <1>12, DeletionRemoves
  <2>2. /\ stored' = stored \ gone /\ torn' \subseteq torn \cup Jobs
        /\ partly' \subseteq Repos
        /\ UNCHANGED <<repo, ignorePatterns, Indexer!jobVars, size, edits, mixed>>
    BY <2>1 DEF Removed, Indexer!TypeOK
  <2>3. Indexer!TypeOK'
    BY <2>2 DEF Indexer!TypeOK, Indexer!jobVars
  <2>4. ASSUME NEW k \in Jobs PROVE InPlace(k)'
    BY <2>2 DEF InPlace, Indexer!jobVars, Indexer!FilesOf
  <2>. QED
    BY <2>3, <2>4
<1>13. ASSUME NEW f \in Files, Indexer!Edit(f) PROVE Jobbed'
  <2>1. /\ edits < MaxEdits /\ edits' = edits + 1
        /\ UNCHANGED <<repo, ignorePatterns, Indexer!jobVars, stored, mixed, torn,
                       partly>>
    BY <1>13 DEF Indexer!Edit
  <2>2. PICK m \in Sizes[f] : size' = [size EXCEPT ![f] = m]
    BY <1>13 DEF Indexer!Edit
  <2>3. m \in Nat
    BY Trees
  <2>4. Indexer!TypeOK'
    <3>1. size' \in [Files -> Nat] /\ edits' \in 0..MaxEdits
      BY <2>1, <2>2, <2>3, Trees DEF Indexer!TypeOK
    <3>. QED
      BY <2>1, <3>1 DEF Indexer!TypeOK, Indexer!jobVars
  <2>5. ASSUME NEW k \in Jobs PROVE InPlace(k)'
    BY <2>1 DEF InPlace, Indexer!jobVars, Indexer!FilesOf
  <2>. QED
    BY <2>1, <2>4, <2>5
<1>14. CASE UNCHANGED Indexer!vars
  BY <1>14 DEF Indexer!vars, Indexer!jobVars, Indexer!TypeOK, InPlace, Indexer!FilesOf
<1>. QED
  BY <1>1, <1>2, <1>3, <1>4, <1>5, <1>6, <1>7, <1>8, <1>9, <1>10, <1>11, <1>12,
     <1>13, <1>14
  DEF Indexer!Next, Indexer!JobStep, Indexer!UpsertBatch, Indexer!UpsertBatchFails

-----------------------------------------------------------------------------
(* What a job that had the patterns to itself has made of them.            *)

\* Patterns among the first m - 1 lines of r's .gitignore.
ReadPatterns(r, m) == {Gitignore[r][i] : i \in 1..(m - 1)} \ {Comment}

Loaded(j) ==
    /\ pc[j] = "scan" =>
         Indexer!Range(ignorePatterns) = ReadPatterns(repo[j], line[j])
    /\ pc[j] = "append" =>
         Indexer!Range(seen[j]) = ReadPatterns(repo[j], line[j])
    /\ pc[j] = "walk" =>
         /\ line[j] = Len(Gitignore[repo[j]]) + 1
         /\ Indexer!Range(ignorePatterns) = ReadPatterns(repo[j], line[j])
         /\ filesToProcess[j]
              = Filters(Tree[repo[j]], Indexer!Own(repo[j]))[walked[j]]
    /\ pc[j] \in {"file", "upsert", "done"} =>
         filesToProcess[j] = Indexer!Kept(repo[j])

AllLoaded == \A j \in Jobs \ mixed : Loaded(j)

\* Reading a line adds its pattern, and all of the lines make all patterns.
LEMMA ReadingGrows ==
    ASSUME NEW r \in Repos, NEW m \in 1..Len(Gitignore[r])
    PROVE  ReadPatterns(r, m + 1) =
             ReadPatterns(r, m) \cup ({Gitignore[r][m]} \ {Comment})
<1>1. m \in Nat /\ m > 0 /\ (m + 1) - 1 = m
  OBVIOUS
<1>2. 1..m = (1..(m - 1)) \cup {m}
  BY <1>1
<1>. QED
  BY <1>1, <1>2 DEF ReadPatterns

LEMMA JudgesAsOwn ==
    ASSUME NEW r \in Repos, NEW f \in Files,
           Indexer!Range(ignorePatterns) = ReadPatterns(r, Len(Gitignore[r]) + 1)
    PROVE  f \in Indexer!Own(r) <=> ~Indexer!shouldIgnore(ignorePatterns, f)
<1>1. Gitignore[r] \in Seq(Patterns \cup {Comment})
  BY Trees
<1>2. (Len(Gitignore[r]) + 1) - 1 = Len(Gitignore[r])
  BY <1>1
<1>3. Indexer!Range(ignorePatterns) = Indexer!Range(Gitignore[r]) \ {Comment}
  <2>1. DOMAIN Gitignore[r] = 1..Len(Gitignore[r])
    BY <1>1
  <2>2. ReadPatterns(r, Len(Gitignore[r]) + 1)
          = Indexer!Range(Gitignore[r]) \ {Comment}
    BY <1>2, <2>1 DEF ReadPatterns, Indexer!Range
  <2>. QED
    BY <2>2
<1>4. <<Comment, f>> \notin Matches
  BY JobsAssumption DEF Indexer!ConstantsAssumption
<1>. QED
  BY <1>3, <1>4 DEF Indexer!Own, Indexer!shouldIgnore

LEMMA KeptAtLast ==
    \A r : Indexer!Kept(r) = Filters(Tree[r], Indexer!Own(r))[Len(Tree[r])]
<1>1. \A s, T : Indexer!Filter(s, T) = Filters(s, T)[Len(s)]
  BY Zenon DEF Indexer!Filter, Indexer!Filters, Filters
<1>. QED
  BY <1>1 DEF Indexer!Kept

\* What Loaded says of a job after a step.
LoadedAs(r, place, patterns, read, last, judged, kept) ==
    /\ place = "scan" => Indexer!Range(patterns) = ReadPatterns(r, last)
    /\ place = "append" => Indexer!Range(read) = ReadPatterns(r, last)
    /\ place = "walk" =>
         /\ last = Len(Gitignore[r]) + 1
         /\ Indexer!Range(patterns) = ReadPatterns(r, last)
         /\ kept = Filters(Tree[r], Indexer!Own(r))[judged]
    /\ place \in {"file", "upsert", "done"} => kept = Indexer!Kept(r)

LEMMA LoadedNow ==
    ASSUME NEW k \in Jobs
    PROVE  Loaded(k) <=> LoadedAs(repo[k], pc[k], ignorePatterns, seen[k], line[k],
                                  walked[k], filesToProcess[k])
BY DEF Loaded, LoadedAs

LEMMA LoadedThen ==
    ASSUME NEW k \in Jobs, repo' = repo
    PROVE  Loaded(k)' <=> LoadedAs(repo[k], pc'[k], ignorePatterns', seen'[k],
      line'[k],
                                   walked'[k], filesToProcess'[k])
<1>1. Indexer!Own(repo[k])' = Indexer!Own(repo[k])
  BY DEF Indexer!Own, Indexer!shouldIgnore, Indexer!Range
<1>2. Indexer!Kept(repo[k])' = Indexer!Kept(repo[k])
  BY DEF Indexer!Kept, Indexer!Own, Indexer!shouldIgnore, Indexer!Range
<1>3. Indexer!Range(ignorePatterns)' = Indexer!Range(ignorePatterns')
      /\ Indexer!Range(seen[k])' = Indexer!Range(seen'[k])
  BY DEF Indexer!Range
<1>4. ReadPatterns(repo[k], line[k])' = ReadPatterns(repo[k], line'[k])
  BY DEF ReadPatterns
<1>5. Filters(Tree[repo[k]], Indexer!Own(repo[k]))'
        = Filters(Tree[repo[k]], Indexer!Own(repo[k]))
  BY DEF Indexer!Own, Indexer!shouldIgnore, Indexer!Range
<1>. QED
  BY <1>1, <1>2, <1>3, <1>4, <1>5 DEF Loaded, LoadedAs

\* Steps that leave the patterns and the walks alone.
LEMMA StillLoaded ==
    ASSUME AllLoaded, mixed \subseteq mixed',
           UNCHANGED <<repo, ignorePatterns, line, seen, walked, filesToProcess>>,
           \A k \in Jobs : \/ pc'[k] = pc[k]
                           \/ pc'[k] \in {"idle", "reset", "dead"}
                           \/ /\ pc[k] \in {"file", "upsert", "done"}
                              /\ pc'[k] \in {"file", "upsert", "done"}
    PROVE  AllLoaded'
<1>. SUFFICES ASSUME NEW k \in Jobs \ mixed' PROVE Loaded(k)'
  BY DEF AllLoaded
<1>1. LoadedAs(repo[k], pc[k], ignorePatterns, seen[k], line[k], walked[k],
               filesToProcess[k])
  BY LoadedNow DEF AllLoaded
<1>2. LoadedAs(repo[k], pc'[k], ignorePatterns, seen[k], line[k], walked[k],
               filesToProcess[k])
  BY <1>1 DEF LoadedAs
<1>. QED
  BY <1>2, LoadedThen

\* A write to the slice disturbs every other job that uses it.
LEMMA OthersLoaded ==
    ASSUME AllLoaded, NEW j \in Jobs, mixed' = mixed \cup Indexer!Disturbed(j),
           UNCHANGED <<repo, walked, filesToProcess>>,
           \A k \in Jobs \ {j} : pc'[k] = pc[k],
           Loaded(j)'
    PROVE  AllLoaded'
<1>. SUFFICES ASSUME NEW k \in Jobs \ mixed', k # j PROVE Loaded(k)'
  BY DEF AllLoaded
<1>1. /\ LoadedAs(repo[k], pc[k], ignorePatterns, seen[k], line[k], walked[k],
                  filesToProcess[k])
      /\ pc[k] \notin {"scan", "append", "walk"} /\ pc'[k] = pc[k]
  BY LoadedNow DEF AllLoaded, Indexer!Disturbed
<1>2. LoadedAs(repo[k], pc'[k], ignorePatterns', seen'[k], line'[k], walked'[k],
               filesToProcess'[k])
  BY <1>1 DEF LoadedAs
<1>. QED
  BY <1>2, LoadedThen

LEMMA LoadedInit == Indexer!Init => AllLoaded
BY DEF Indexer!Init, AllLoaded, Loaded

LEMMA LoadedStep == Jobbed /\ AllLoaded /\ [Indexer!Next]_(Indexer!vars) => AllLoaded'
<1>. SUFFICES ASSUME Jobbed, AllLoaded, [Indexer!Next]_(Indexer!vars) PROVE AllLoaded'
  OBVIOUS
<1>0. /\ pc \in [Jobs -> Indexer!PCs] /\ line \in [Jobs -> Nat]
      /\ seen \in [Jobs -> Seq(Patterns)] /\ walked \in [Jobs -> Nat]
      /\ filesToProcess \in [Jobs -> Seq(Files)] /\ ignorePatterns \in Seq(Patterns)
      /\ \A j \in Jobs : /\ InPlace(j) /\ repo[j] \in Repos
                         /\ Tree[repo[j]] \in Seq(Files)
                         /\ Gitignore[repo[j]] \in Seq(Patterns \cup {Comment})
  BY Trees DEF Jobbed, Indexer!TypeOK
<1>1. ASSUME NEW j \in Jobs, Indexer!Index(j) PROVE AllLoaded'
  <2>1. /\ mixed' = mixed /\ pc' = [pc EXCEPT ![j] = "reset"]
        /\ UNCHANGED <<repo, ignorePatterns, line, seen, walked, filesToProcess>>
    BY <1>1 DEF Indexer!Index
  <2>2. \A k \in Jobs : pc'[k] = pc[k] \/ pc'[k] = "reset"
    BY <2>1, <1>0
  <2>. QED
    BY <2>1, <2>2, StillLoaded
<1>2. ASSUME NEW j \in Jobs, Indexer!ResetPatterns(j) PROVE AllLoaded'
  <2>1. /\ pc[j] = "reset" /\ ignorePatterns' = <<>>
             /\ pc' = [pc EXCEPT ![j] = "scan"]
        /\ mixed' = mixed \cup Indexer!Disturbed(j)
        /\ UNCHANGED <<repo, line, walked, filesToProcess>>
    BY <1>2 DEF Indexer!ResetPatterns
  <2>2. line[j] = 1
    BY <1>0, <2>1 DEF InPlace
  <2>3. Loaded(j)'
    <3>1. Indexer!Range(<<>>) = {} /\ ReadPatterns(repo[j], 1) = {}
      BY DEF Indexer!Range, ReadPatterns
    <3>2. pc'[j] = "scan" /\ line'[j] = 1 /\ repo' = repo
      BY <1>0, <2>1, <2>2
    <3>. QED
      BY <2>1, <3>1, <3>2, LoadedThen DEF LoadedAs
  <2>4. \A k \in Jobs \ {j} : pc'[k] = pc[k]
    BY <1>0, <2>1
  <2>. QED
    BY <2>1, <2>3, <2>4, OthersLoaded
<1>3. ASSUME NEW j \in Jobs, Indexer!ReadLine(j) PROVE AllLoaded'
  <2>. DEFINE text == Gitignore[repo[j]][line[j]]
  <2>1. /\ pc[j] = "scan" /\ line[j] <= Len(Gitignore[repo[j]])
        /\ line' = [line EXCEPT ![j] = @ + 1]
        /\ UNCHANGED <<repo, ignorePatterns, walked, filesToProcess, mixed>>
    BY <1>3 DEF Indexer!ReadLine
  <2>2. \/ text = Comment /\ pc' = pc /\ seen' = seen
        \/ /\ text # Comment /\ pc' = [pc EXCEPT ![j] = "append"]
           /\ seen' = [seen EXCEPT ![j] = Append(ignorePatterns, text)]
    BY <1>3 DEF Indexer!ReadLine
  <2>3. line[j] \in 1..Len(Gitignore[repo[j]]) /\ line'[j] = line[j] + 1
    <3>1. line[j] \in Nat /\ line[j] # 0
      BY <1>0 DEF InPlace
    <3>. QED
      BY <1>0, <2>1, <3>1
  <2>. SUFFICES ASSUME NEW k \in Jobs \ mixed PROVE Loaded(k)'
    BY <2>1 DEF AllLoaded
  <2>4. LoadedAs(repo[k], pc[k], ignorePatterns, seen[k], line[k], walked[k],
                 filesToProcess[k])
    BY LoadedNow DEF AllLoaded
  <2>6. CASE k # j
    <3>1. pc'[k] = pc[k] /\ seen'[k] = seen[k] /\ line'[k] = line[k]
      BY <1>0, <2>1, <2>2, <2>6
    <3>. QED
      BY <2>1, <2>4, <3>1, LoadedThen
  <2>7. CASE k = j
    <3>1. ReadPatterns(repo[j], line'[j]) =
            Indexer!Range(ignorePatterns) \cup ({text} \ {Comment})
      <4>1. Indexer!Range(ignorePatterns) = ReadPatterns(repo[j], line[j])
        BY <2>1, <2>4, <2>7 DEF LoadedAs
      <4>2. ReadPatterns(repo[j], line[j] + 1) =
              ReadPatterns(repo[j], line[j]) \cup ({text} \ {Comment})
        BY <1>0, <2>3, ReadingGrows
      <4>. QED
        BY <2>3, <4>1, <4>2
    <3>2. CASE text = Comment
      <4>1. pc'[j] = "scan"
        BY <2>1, <2>2, <3>2
      <4>. QED
        BY <2>1, <2>7, <3>1, <3>2, <4>1, LoadedThen DEF LoadedAs
    <3>3. CASE text # Comment
      <4>1. pc'[j] = "append" /\ seen'[j] = Append(ignorePatterns, text)
        BY <1>0, <2>2, <3>3
      <4>2. Indexer!Range(Append(ignorePatterns, text))
              = Indexer!Range(ignorePatterns) \cup {text}
        BY <1>0, AppendRange
      <4>. QED
        BY ZenonT(60), <2>1, <2>7, <3>1, <3>3, <4>1, <4>2, LoadedThen DEF LoadedAs
    <3>. QED
      BY <3>2, <3>3
  <2>. QED
    BY <2>6, <2>7
<1>4. ASSUME NEW j \in Jobs, Indexer!AppendPattern(j) PROVE AllLoaded'
  <2>1. /\ pc[j] = "append" /\ ignorePatterns' = seen[j]
        /\ pc' = [pc EXCEPT ![j] = "scan"]
        /\ mixed' = mixed \cup Indexer!Disturbed(j)
        /\ UNCHANGED <<repo, line, walked, filesToProcess>>
    BY <1>4 DEF Indexer!AppendPattern
  <2>2. pc'[j] = "scan" /\ \A k \in Jobs \ {j} : pc'[k] = pc[k]
    BY <1>0, <2>1
  <2>3. CASE j \in mixed
    <3>. SUFFICES ASSUME NEW k \in Jobs \ mixed', k # j PROVE Loaded(k)'
      BY <2>1, <2>3 DEF AllLoaded
    <3>1. /\ LoadedAs(repo[k], pc[k], ignorePatterns, seen[k], line[k], walked[k],
                      filesToProcess[k])
          /\ pc[k] \notin {"scan", "append", "walk"} /\ pc'[k] = pc[k]
      BY <2>1, <2>2, LoadedNow DEF AllLoaded, Indexer!Disturbed
    <3>2. LoadedAs(repo[k], pc'[k], ignorePatterns', seen'[k], line'[k], walked'[k],
                   filesToProcess'[k])
      BY <2>1, <3>1 DEF LoadedAs
    <3>. QED
      BY <2>1, <3>2, LoadedThen
  <2>4. CASE j \notin mixed
    <3>1. Loaded(j)'
      <4>1. Indexer!Range(seen[j]) = ReadPatterns(repo[j], line[j])
        BY <2>1, <2>4 DEF AllLoaded, Loaded
      <4>. QED
        BY <2>1, <2>2, <4>1, LoadedThen DEF LoadedAs
    <3>. QED
      BY <2>1, <2>2, <3>1, OthersLoaded
  <2>. QED
    BY <2>3, <2>4
<1>5. ASSUME NEW j \in Jobs, Indexer!StartWalk(j) PROVE AllLoaded'
  <2>1. /\ pc[j] = "scan" /\ line[j] > Len(Gitignore[repo[j]])
        /\ pc' = [pc EXCEPT ![j] = "walk"]
        /\ UNCHANGED <<repo, ignorePatterns, line, walked, seen, filesToProcess,
             mixed>>
    BY <1>5 DEF Indexer!StartWalk
  <2>. SUFFICES ASSUME NEW k \in Jobs \ mixed PROVE Loaded(k)'
    BY <2>1 DEF AllLoaded
  <2>2. LoadedAs(repo[k], pc[k], ignorePatterns, seen[k], line[k], walked[k],
                 filesToProcess[k])
    BY LoadedNow DEF AllLoaded
  <2>4. CASE k # j
    <3>1. pc'[k] = pc[k]
      BY <1>0, <2>1, <2>4
    <3>. QED
      BY <2>1, <2>2, <3>1, LoadedThen
  <2>5. CASE k = j
    <3>1. pc'[j] = "walk" /\ line[j] = Len(Gitignore[repo[j]]) + 1
          /\ walked[j] = 0 /\ filesToProcess[j] = <<>>
      <4>1. /\ line[j] \in 1..(Len(Gitignore[repo[j]]) + 1)
            /\ Len(Gitignore[repo[j]]) \in Nat
            /\ walked[j] = 0 /\ filesToProcess[j] = <<>>
        BY <1>0, <2>1 DEF InPlace
      <4>2. line[j] = Len(Gitignore[repo[j]]) + 1
        BY <2>1, <4>1
      <4>. QED
        BY <1>0, <2>1, <4>1, <4>2
    <3>2. Filters(Tree[repo[j]], Indexer!Own(repo[j]))[0] = <<>>
      BY <1>0, FiltersStep
    <3>. QED
      BY <2>1, <2>2, <2>5, <3>1, <3>2, LoadedThen DEF LoadedAs
  <2>. QED
    BY <2>4, <2>5
<1>6. ASSUME NEW j \in Jobs, Indexer!Walk(j) PROVE AllLoaded'
  <2>. DEFINE f == Tree[repo[j]][walked[j] + 1]
              ownFiles == Indexer!Own(repo[j])
              kept == Filters(Tree[repo[j]], ownFiles)
  <2>1. /\ pc[j] = "walk" /\ walked[j] < Len(Tree[repo[j]])
        /\ walked' = [walked EXCEPT ![j] = @ + 1]
        /\ mixed' = IF Indexer!Racing(j) THEN mixed \cup {j} ELSE mixed
        /\ UNCHANGED <<repo, ignorePatterns, pc, line, seen>>
    BY <1>6 DEF Indexer!Walk
  <2>2. PICK ignored \in Indexer!Verdicts(j, f) :
          filesToProcess' = IF ignored THEN filesToProcess
                            ELSE [filesToProcess EXCEPT ![j] = Append(@, f)]
    BY <1>6 DEF Indexer!Walk
  <2>3. \A k \in Jobs \ {j} : walked'[k] = walked[k]
          /\ filesToProcess'[k] = filesToProcess[k]
    BY <1>0, <2>1, <2>2
  <2>. SUFFICES ASSUME NEW k \in Jobs \ mixed' PROVE Loaded(k)'
    BY DEF AllLoaded
  <2>4. LoadedAs(repo[k], pc[k], ignorePatterns, seen[k], line[k], walked[k],
                 filesToProcess[k])
    BY <2>1, LoadedNow DEF AllLoaded
  <2>6. CASE k # j
    <3>1. walked'[k] = walked[k] /\ filesToProcess'[k] = filesToProcess[k]
      BY <2>3, <2>6
    <3>. QED
      BY <2>1, <2>4, <3>1, LoadedThen
  <2>7. CASE k = j
    <3>1. ~Indexer!Racing(j)
      BY <2>1, <2>7
    <3>2. ignored = Indexer!shouldIgnore(ignorePatterns, f)
      BY <3>1 DEF Indexer!Verdicts
    <3>3. /\ walked[j] + 1 \in 1..Len(Tree[repo[j]]) /\ f \in Files
          /\ (walked[j] + 1) - 1 = walked[j]
      <4>1. walked[j] \in Nat /\ Tree[repo[j]] \in Seq(Files)
        BY <1>0
      <4>. QED
        BY <2>1, <4>1
    <3>4. f \in ownFiles <=> ~ignored
      <4>1. /\ line[j] = Len(Gitignore[repo[j]]) + 1
            /\ Indexer!Range(ignorePatterns) = ReadPatterns(repo[j], line[j])
        BY <2>1, <2>4, <2>7 DEF LoadedAs
      <4>. QED
        BY <1>0, <3>2, <3>3, <4>1, JudgesAsOwn
    <3>5. kept[walked[j] + 1] = IF f \in ownFiles THEN Append(kept[walked[j]], f)
                                ELSE kept[walked[j]]
      <4>. DEFINE tree == Tree[repo[j]]
      <4>1. tree \in Seq(Files) /\ walked[j] + 1 \in 1..Len(tree)
        BY <1>0, <3>3
      <4>. HIDE DEF tree, ownFiles
      <4>2. Filters(tree, ownFiles)[walked[j] + 1] =
              IF tree[walked[j] + 1] \in ownFiles
              THEN Append(Filters(tree, ownFiles)[(walked[j] + 1) - 1],
                          tree[walked[j] + 1])
              ELSE Filters(tree, ownFiles)[(walked[j] + 1) - 1]
        BY <4>1, FiltersStep
      <4>. QED
        BY <3>3, <4>2 DEF tree
    <3>6. filesToProcess[j] = kept[walked[j]]
      BY <2>1, <2>4, <2>7 DEF LoadedAs
    <3>. HIDE DEF f, kept
    <3>7. filesToProcess'[j] = kept[walked[j] + 1] /\ walked'[j] = walked[j] + 1
      BY <1>0, <2>1, <2>2, <3>4, <3>5, <3>6
    <3>. QED
      BY <2>1, <2>4, <2>7, <3>7, LoadedThen DEF LoadedAs, kept
  <2>. QED
    BY <2>6, <2>7
<1>7. ASSUME NEW j \in Jobs, Indexer!TornRead(j) PROVE AllLoaded'
  <2>1. /\ mixed' = mixed
        /\ pc' = [k \in Jobs |-> IF Indexer!Running(k) THEN "dead" ELSE pc[k]]
        /\ UNCHANGED <<repo, ignorePatterns, line, seen, walked, filesToProcess>>
    BY <1>7 DEF Indexer!TornRead
  <2>2. \A k \in Jobs : pc'[k] = pc[k] \/ pc'[k] = "dead"
    BY <2>1
  <2>. QED
    BY <2>1, <2>2, StillLoaded
<1>8. ASSUME NEW j \in Jobs, Indexer!EndWalk(j) PROVE AllLoaded'
  <2>1. /\ pc[j] = "walk" /\ walked[j] = Len(Tree[repo[j]])
        /\ pc' = [pc EXCEPT ![j] = "file"]
        /\ UNCHANGED <<repo, ignorePatterns, line, walked, seen, filesToProcess,
             mixed>>
    BY <1>8 DEF Indexer!EndWalk
  <2>. SUFFICES ASSUME NEW k \in Jobs \ mixed PROVE Loaded(k)'
    BY <2>1 DEF AllLoaded
  <2>2. LoadedAs(repo[k], pc[k], ignorePatterns, seen[k], line[k], walked[k],
                 filesToProcess[k])
    BY LoadedNow DEF AllLoaded
  <2>4. CASE k # j
    <3>1. pc'[k] = pc[k]
      BY <1>0, <2>1, <2>4
    <3>. QED
      BY <2>1, <2>2, <3>1, LoadedThen
  <2>5. CASE k = j
    <3>1. pc'[j] = "file"
      BY <1>0, <2>1
    <3>2. Indexer!Kept(repo[j])
            = Filters(Tree[repo[j]], Indexer!Own(repo[j]))[Len(Tree[repo[j]])]
      BY KeptAtLast
    <3>3. filesToProcess[j] = Indexer!Kept(repo[j])
      BY <2>1, <2>2, <2>5, <3>2 DEF LoadedAs
    <3>. QED
      BY <2>1, <2>5, <3>1, <3>3, LoadedThen DEF LoadedAs
  <2>. QED
    BY <2>4, <2>5
<1>9. ASSUME NEW j \in Jobs,
             \/ Indexer!EndIndex(j) \/ Indexer!PassOver(j) \/ Indexer!ProcessFile(j)
             \/ Indexer!UpsertBatch(j) \/ Indexer!UpsertBatchFails(j)
      PROVE  AllLoaded'
  <2>1. /\ mixed' = mixed
        /\ UNCHANGED <<repo, ignorePatterns, line, seen, walked, filesToProcess>>
    BY <1>9 DEF Indexer!EndIndex, Indexer!PassOver, Indexer!ProcessFile,
                Indexer!UpsertBatch, Indexer!UpsertBatchFails
  <2>2. \/ pc' = pc
        \/ /\ pc[j] \in {"file", "upsert"}
           /\ \E next \in {"file", "upsert", "done"} : pc' = [pc EXCEPT ![j] = next]
    BY <1>9 DEF Indexer!EndIndex, Indexer!PassOver, Indexer!ProcessFile,
                Indexer!UpsertBatch, Indexer!UpsertBatchFails, Indexer!NextFile
  <2>3. \A k \in Jobs : \/ pc'[k] = pc[k]
                        \/ /\ pc[k] \in {"file", "upsert", "done"}
                           /\ pc'[k] \in {"file", "upsert", "done"}
    BY <1>0, <2>2
  <2>. QED
    BY <2>1, <2>3, StillLoaded
<1>10. ASSUME NEW r \in Repos, Indexer!DeleteIndex(r) PROVE AllLoaded'
  <2>1. PICK gone \in SUBSET Indexer!ChunksOf(r) : Removed(r, gone)
    BY <1>10, DeletionRemoves
  <2>. QED
    BY <2>1, StillLoaded DEF Removed, Indexer!jobVars
<1>11. ASSUME NEW f \in Files, Indexer!Edit(f) PROVE AllLoaded'
  BY <1>11, StillLoaded DEF Indexer!Edit, Indexer!jobVars
<1>12. CASE UNCHANGED Indexer!vars
  BY <1>12, StillLoaded DEF Indexer!vars, Indexer!jobVars
<1>. QED
  BY <1>1, <1>2, <1>3, <1>4, <1>5, <1>6, <1>7, <1>8, <1>9, <1>10, <1>11, <1>12
  DEF Indexer!Next, Indexer!JobStep

\* A job that had the shared patterns to itself processes exactly the files
\* that its own .gitignore admits.
THEOREM OwnPatternsRule == Indexer!Spec => []OwnPatternsAlone
<1>1. Jobbed /\ AllLoaded => OwnPatternsAlone
  BY DEF Jobbed, AllLoaded, Loaded, OwnPatternsAlone, Indexer!OwnPatternsAlone
<1>. QED
  BY <1>1, JobsInit, JobsStep, LoadedInit, LoadedStep, PTL DEF Indexer!Spec

-----------------------------------------------------------------------------
(* The jobs of Indexing: what they have stored.                            *)

\* The chunks in the batches before that of chunk num.
Before(num) == 1 .. ((num - 1) \div BatchSize) * BatchSize
InBatches(S, T) ==
    \A c \in S : c[1] \in T => \A i \in Before(c[2]) : <<c[1], i>> \in S

\* While r's chunks are all from jobs that ran undisturbed, they are in order,
\* and a job that stores one batch has stored those before.
Settled(r) ==
    /\ Indexer!Apart(r) /\ r \notin partly
    /\ \A k \in Jobs : repo[k] = r => k \notin torn
Handed(j) ==
    pc[j] = "upsert" =>
      \A i \in 1..at[j] : <<filesToProcess[j][cur[j]], i>> \in stored
Ordered(r) ==
    /\ InBatches(stored, Indexer!FilesOf(r))
    /\ \A j \in Jobs : repo[j] = r => Handed(j)

\* A job is always between two batches.
Whole(num) == \E m \in Nat : num = m * BatchSize
AllOrdered ==
    /\ \A j \in Jobs : pc[j] = "upsert" => Whole(at[j])
    /\ \A r \in Repos : Settled(r) => Ordered(r)

LEMMA BatchOf ==
    ASSUME NEW num \in Nat, Whole(num), NEW i \in (num + 1)..(num + BatchSize)
    PROVE  Before(i) = 1..num
<1>1. PICK m \in Nat : num = m * BatchSize
  BY DEF Whole
<1>2. BatchSize \in Nat \ {0} /\ i \in Nat
  BY Trees
<1>3. m * BatchSize <= i - 1 /\ i - 1 < m * BatchSize + BatchSize
  BY <1>1, <1>2
<1>4. \A x \in Nat, b \in Nat \ {0} :
        m * b <= x /\ x < m * b + b => x \div b = m
  OBVIOUS
<1>5. i - 1 \in Nat
  BY <1>2
<1>6. (i - 1) \div BatchSize = m
  BY <1>2, <1>3, <1>4, <1>5
<1>. QED
  BY <1>1, <1>6 DEF Before

LEMMA NextWhole == \A num \in Nat : Whole(num) => Whole(num + BatchSize)
<1>. SUFFICES ASSUME NEW num \in Nat, Whole(num) PROVE Whole(num + BatchSize)
  OBVIOUS
<1>1. PICK m \in Nat : num = m * BatchSize
  BY DEF Whole
<1>2. num + BatchSize = (m + 1) * BatchSize /\ m + 1 \in Nat
  BY <1>1, Trees
<1>. QED
  BY <1>2 DEF Whole

LEMMA CurrentFile ==
    ASSUME Jobbed, NEW j \in Jobs, pc[j] = "upsert"
    PROVE  filesToProcess[j][cur[j]] \in Indexer!FilesOf(repo[j])
<1>1. filesToProcess[j] \in Seq(Files) /\ cur[j] \in 1..Len(filesToProcess[j])
  BY DEF Jobbed, Indexer!TypeOK, InPlace
<1>2. cur[j] \in DOMAIN filesToProcess[j]
  BY <1>1
<1>3. filesToProcess[j][cur[j]] \in Indexer!Range(filesToProcess[j])
  BY <1>2 DEF Indexer!Range
<1>. QED
  BY <1>3 DEF Jobbed, InPlace

\* Nothing of r is stored or deleted, and no job of r moves on in a file.
Unmoved(k) ==
    \/ pc'[k] # "upsert"
    \/ at'[k] = 0
    \/ /\ pc[k] = "upsert" /\ at'[k] = at[k] /\ cur'[k] = cur[k]
       /\ filesToProcess'[k] = filesToProcess[k]

LEMMA StillOrdered ==
    ASSUME NEW r \in Repos, Jobbed, Jobbed', Ordered(r), repo' = repo,
           \A f \in Indexer!FilesOf(r), i \in Nat :
             <<f, i>> \in stored' <=> <<f, i>> \in stored,
           \A k \in Jobs : repo[k] = r => Unmoved(k)
    PROVE  Ordered(r)'
<1>0. /\ stored \subseteq Files \X Nat /\ stored' \subseteq Files \X Nat
      /\ BatchSize \in Nat \ {0}
  BY Trees DEF Jobbed, Indexer!TypeOK
<1>1. InBatches(stored', Indexer!FilesOf(r))
  <2>. SUFFICES ASSUME NEW c \in stored', c[1] \in Indexer!FilesOf(r),
                       NEW i \in Before(c[2])
                PROVE  <<c[1], i>> \in stored'
    BY DEF InBatches
  <2>1. c = <<c[1], c[2]>> /\ c[2] \in Nat
    BY <1>0
  <2>2. c \in stored
    BY <2>1
  <2>3. i \in Nat
    BY DEF Before
  <2>4. <<c[1], i>> \in stored
    BY <2>2 DEF Ordered, InBatches
  <2>. QED
    BY <2>3, <2>4
<1>2. ASSUME NEW k \in Jobs, repo[k] = r, pc'[k] = "upsert", NEW i \in 1..at'[k]
      PROVE  <<filesToProcess'[k][cur'[k]], i>> \in stored'
  <2>1. at'[k] \in Nat
    BY DEF Jobbed, Indexer!TypeOK
  <2>2. at'[k] # 0 /\ i \in Nat
    BY <2>1
  <2>3. /\ pc[k] = "upsert" /\ at'[k] = at[k] /\ cur'[k] = cur[k]
        /\ filesToProcess'[k] = filesToProcess[k]
    BY <1>2, <2>2 DEF Unmoved
  <2>4. filesToProcess[k][cur[k]] \in Indexer!FilesOf(r)
    BY <1>2, <2>3, CurrentFile
  <2>5. <<filesToProcess[k][cur[k]], i>> \in stored
    BY <1>2, <2>3 DEF Ordered, Handed
  <2>. QED
    BY <2>2, <2>3, <2>4, <2>5
<1>. QED
  BY <1>1, <1>2 DEF Ordered, Handed

LEMMA OrderedInit == Indexer!Init => AllOrdered
BY DEF Indexer!Init, AllOrdered, Ordered, InBatches, Handed

\* What a batch adds belongs to one file and follows what that job has stored.
LEMMA BatchKeeps ==
    ASSUME NEW r \in Repos, Jobbed, Jobbed', Indexer!Apart(r), Ordered(r),
           NEW j \in Jobs, pc[j] = "upsert", Whole(at[j]), repo' = repo,
           NEW some \in SUBSET Indexer!Batch(j), stored' = stored \cup some
    PROVE  InBatches(stored', Indexer!FilesOf(r))
<1>. DEFINE f == filesToProcess[j][cur[j]]
<1>1. at[j] \in Nat /\ count[j] \in Nat /\ BatchSize \in Nat \ {0}
  BY Trees DEF Jobbed, Indexer!TypeOK
<1>2. f \in Indexer!FilesOf(repo[j])
  BY CurrentFile
<1>. HIDE DEF f
<1>3. \A c \in some : \E i \in (at[j] + 1)..(at[j] + BatchSize) : c = <<f, i>>
  <2>1. Indexer!BatchEnd(j) \in Int /\ Indexer!BatchEnd(j) <= at[j] + BatchSize
    BY <1>1 DEF Indexer!BatchEnd, Indexer!Lesser
  <2>2. \A c \in some : \E i \in (at[j] + 1)..Indexer!BatchEnd(j) : c = <<f, i>>
    BY DEF Indexer!Batch, f
  <2>. QED
    BY <1>1, <2>1, <2>2
<1>. SUFFICES ASSUME NEW c \in stored', c[1] \in Indexer!FilesOf(r),
                     NEW i \in Before(c[2])
              PROVE  <<c[1], i>> \in stored'
  BY DEF InBatches
<1>4. CASE c \in stored
  <2>1. <<c[1], i>> \in stored
    BY <1>4 DEF Ordered, InBatches
  <2>. QED
    BY <2>1
<1>5. CASE c \in some
  <2>1. PICK k \in (at[j] + 1)..(at[j] + BatchSize) : c = <<f, k>>
    BY <1>3, <1>5
  <2>2. c[1] = f /\ c[2] = k
    BY <2>1
  <2>3. repo[j] = r
    <3>1. repo[j] \in Repos
      BY DEF Jobbed, Indexer!TypeOK
    <3>. QED
      BY <1>2, <2>2, <3>1 DEF Indexer!Apart
  <2>4. Before(k) = 1..at[j]
    BY <1>1, BatchOf
  <2>5. <<f, i>> \in stored
    BY <2>2, <2>3, <2>4 DEF Ordered, Handed, f
  <2>. QED
    BY <2>2, <2>5
<1>. QED
  BY <1>4, <1>5

LEMMA OrderedStep ==
    Jobbed /\ Jobbed' /\ AllOrdered /\ [Indexer!Next]_(Indexer!vars) => AllOrdered'
<1>. SUFFICES ASSUME Jobbed, Jobbed', AllOrdered, [Indexer!Next]_(Indexer!vars)
              PROVE  AllOrdered'
  OBVIOUS
<1>0. /\ pc \in [Jobs -> Indexer!PCs] /\ cur \in [Jobs -> Nat]
      /\ count \in [Jobs -> Nat] /\ at \in [Jobs -> Nat]
      /\ filesToProcess \in [Jobs -> Seq(Files)] /\ stored \subseteq Files \X Nat
      /\ repo \in [Jobs -> Repos] /\ torn \subseteq Jobs
      /\ BatchSize \in Nat \ {0}
  BY Trees DEF Jobbed, Indexer!TypeOK
\* A step after which nothing is stored or deleted, and jobs stay in place.
<1>1. ASSUME repo' = repo, stored' = stored, torn' = torn, partly' = partly,
             \A k \in Jobs : Unmoved(k)
      PROVE  AllOrdered'
  <2>1. ASSUME NEW k \in Jobs, pc'[k] = "upsert" PROVE Whole(at'[k])
    <3>1. CASE at'[k] = 0
      BY <1>0, <3>1 DEF Whole
    <3>2. CASE pc[k] = "upsert" /\ at'[k] = at[k]
      BY <3>2 DEF AllOrdered
    <3>. QED
      BY <1>1, <2>1, <3>1, <3>2 DEF Unmoved
  <2>2. ASSUME NEW r \in Repos, Settled(r)' PROVE Ordered(r)'
    <3>1. Settled(r)
      BY <1>1, <2>2 DEF Settled, Indexer!Apart, Indexer!FilesOf
    <3>. QED
      BY <1>1, <3>1, StillOrdered DEF AllOrdered
  <2>. QED
    BY <2>1, <2>2 DEF AllOrdered
<1>2. ASSUME NEW j \in Jobs, Indexer!Index(j) PROVE AllOrdered'
  <2>1. \A k \in Jobs : Unmoved(k)
    BY <1>0, <1>2 DEF Indexer!Index, Unmoved
  <2>. QED
    BY <1>1, <1>2, <2>1 DEF Indexer!Index
<1>3. ASSUME NEW j \in Jobs,
             \/ Indexer!ResetPatterns(j) \/ Indexer!ReadLine(j)
             \/ Indexer!AppendPattern(j) \/ Indexer!StartWalk(j)
             \/ Indexer!EndWalk(j) \/ Indexer!EndIndex(j)
      PROVE  AllOrdered'
  <2>1. /\ \/ pc' = pc
           \/ \E next \in {"scan", "append", "walk", "file", "done"} :
                pc' = [pc EXCEPT ![j] = next]
        /\ UNCHANGED <<repo, filesToProcess, cur, at, stored, torn, partly>>
    BY <1>3 DEF Indexer!ResetPatterns, Indexer!ReadLine, Indexer!AppendPattern,
                Indexer!StartWalk, Indexer!EndWalk, Indexer!EndIndex
  <2>2. \A k \in Jobs : Unmoved(k)
    BY <1>0, <2>1 DEF Unmoved
  <2>. QED
    BY <1>1, <2>1, <2>2
<1>4. ASSUME NEW j \in Jobs, Indexer!Walk(j) PROVE AllOrdered'
  <2>1. /\ pc[j] = "walk"
             /\ \A k \in Jobs \ {j} : filesToProcess'[k] = filesToProcess[k]
        /\ UNCHANGED <<repo, pc, cur, at, stored, torn, partly>>
    <3>1. PICK f : filesToProcess' \in {filesToProcess,
                                       [filesToProcess EXCEPT ![j] = Append(@, f)]}
      BY <1>4 DEF Indexer!Walk
    <3>2. \A k \in Jobs \ {j} : filesToProcess'[k] = filesToProcess[k]
      BY <1>0, <3>1
    <3>. QED
      BY <1>4, <3>2 DEF Indexer!Walk
  <2>2. \A k \in Jobs : Unmoved(k)
    BY <2>1 DEF Unmoved
  <2>. QED
    BY <1>1, <2>1, <2>2
<1>5. ASSUME NEW j \in Jobs, Indexer!TornRead(j) PROVE AllOrdered'
  <2>1. \A k \in Jobs : Unmoved(k)
    BY <1>0, <1>5 DEF Indexer!TornRead, Unmoved
  <2>. QED
    BY <1>1, <1>5, <2>1 DEF Indexer!TornRead
<1>6. ASSUME NEW j \in Jobs, Indexer!PassOver(j) \/ Indexer!ProcessFile(j)
      PROVE  AllOrdered'
  <2>1. \A k \in Jobs : Unmoved(k)
    <3>1. CASE Indexer!PassOver(j)
      BY <1>0, <3>1 DEF Indexer!PassOver, Unmoved
    <3>2. CASE Indexer!ProcessFile(j)
      <4>1. /\ pc[j] = "file" /\ filesToProcess' = filesToProcess
            /\ \/ /\ pc' = [pc EXCEPT ![j] = "upsert"]
                  /\ at' = [at EXCEPT ![j] = 0] /\ cur' = cur
               \/ cur' = [cur EXCEPT ![j] = @ + 1] /\ pc' = pc /\ at' = at
        BY <3>2 DEF Indexer!ProcessFile
      <4>. QED
        BY <1>0, <4>1 DEF Unmoved
    <3>. QED
      BY <1>6, <3>1, <3>2
  <2>. QED
    BY <1>1, <1>6, <2>1 DEF Indexer!PassOver, Indexer!ProcessFile
<1>7. ASSUME NEW j \in Jobs, Indexer!UpsertBatch(j) \/ Indexer!UpsertBatchFails(j)
      PROVE  AllOrdered'
  <2>1. PICK some \in SUBSET Indexer!Batch(j) :
          /\ stored' = stored \cup some
          /\ pc[j] = "upsert"
          /\ \/ /\ some = Indexer!Batch(j)
                /\ at' = [at EXCEPT ![j] = Indexer!BatchEnd(j)]
                /\ Indexer!BatchEnd(j) < count[j]
                /\ pc' = pc /\ cur' = cur
             \/ /\ pc' = [pc EXCEPT ![j] = "file"]
                /\ cur' = [cur EXCEPT ![j] = @ + 1]
                /\ \/ at' = at
                   \/ at' = [at EXCEPT ![j] = Indexer!BatchEnd(j)]
          /\ UNCHANGED <<repo, filesToProcess, torn, partly>>
    <3>1. CASE Indexer!UpsertBatch(j)
      BY <3>1 DEF Indexer!UpsertBatch, Indexer!NextFile
    <3>2. CASE Indexer!UpsertBatchFails(j)
      BY <3>2 DEF Indexer!UpsertBatchFails, Indexer!NextFile
    <3>. QED
      BY <1>7, <3>1, <3>2
  <2>2. Whole(at[j])
    BY <2>1 DEF AllOrdered
  <2>3. Indexer!BatchEnd(j) < count[j] => Indexer!BatchEnd(j) = at[j] + BatchSize
    BY <1>0 DEF Indexer!BatchEnd, Indexer!Lesser
  <2>4. ASSUME NEW k \in Jobs, pc'[k] = "upsert"
        PROVE  /\ pc[k] = "upsert" /\ cur'[k] = cur[k]
               /\ \/ at'[k] = at[k] /\ k # j
                  \/ /\ at'[k] = at[k] + BatchSize /\ k = j
                     /\ some = Indexer!Batch(j)
    <3>1. CASE k # j
      BY <1>0, <2>1, <2>4, <3>1
    <3>2. CASE k = j
      BY <1>0, <2>1, <2>3, <2>4, <3>2
    <3>. QED
      BY <3>1, <3>2
  <2>5. ASSUME NEW k \in Jobs, pc'[k] = "upsert" PROVE Whole(at'[k])
    <3>1. at[k] \in Nat /\ Whole(at[k])
      BY <1>0, <2>4, <2>5 DEF AllOrdered
    <3>. QED
      BY <2>4, <2>5, <3>1, NextWhole
  <2>6. ASSUME NEW r \in Repos, Settled(r)' PROVE Ordered(r)'
    <3>1. Settled(r) /\ Indexer!Apart(r)
      BY <2>1, <2>6 DEF Settled, Indexer!Apart, Indexer!FilesOf
    <3>2. Ordered(r)
      BY <3>1 DEF AllOrdered
    <3>3. InBatches(stored', Indexer!FilesOf(r))
      BY <2>1, <2>2, <3>1, <3>2, BatchKeeps
    <3>4. ASSUME NEW k \in Jobs, repo[k] = r, pc'[k] = "upsert", NEW i \in 1..at'[k]
          PROVE  <<filesToProcess[k][cur'[k]], i>> \in stored'
      <4>1. CASE i \in 1..at[k]
        <5>1. <<filesToProcess[k][cur[k]], i>> \in stored
          BY <2>4, <3>2, <3>4, <4>1 DEF Ordered, Handed
        <5>. QED
          BY <2>1, <2>4, <3>4, <5>1
      <4>2. CASE i \notin 1..at[k]
        <5>1. /\ k = j /\ some = Indexer!Batch(j) /\ cur'[k] = cur[k]
              /\ at'[j] = at[j] + BatchSize
          BY <2>4, <3>4, <4>2
        <5>2. Indexer!BatchEnd(j) = at[j] + BatchSize
          BY <1>0, <2>1, <2>3, <3>4, <5>1
        <5>3. i \in (at[j] + 1)..Indexer!BatchEnd(j)
          BY <1>0, <3>4, <4>2, <5>1, <5>2
        <5>. QED
          BY <2>1, <5>1, <5>3 DEF Indexer!Batch
      <4>. QED
        BY <4>1, <4>2
    <3>. QED
      BY <2>1, <3>3, <3>4 DEF Ordered, Handed
  <2>. QED
    BY <2>5, <2>6 DEF AllOrdered
<1>8. ASSUME NEW q \in Repos, Indexer!DeleteIndex(q) PROVE AllOrdered'
  <2>1. PICK gone \in SUBSET Indexer!ChunksOf(q) : Removed(q, gone)
    BY <1>8, DeletionRemoves
  <2>2. /\ UNCHANGED <<repo, pc, filesToProcess, cur, at>>
        /\ stored' = stored \ gone
        /\ torn' = torn \cup {j \in Jobs : repo[j] = q /\ Indexer!Running(j)}
    BY <2>1 DEF Removed, Indexer!jobVars
  <2>3. \A k \in Jobs : Unmoved(k)
    BY <2>2 DEF Unmoved
  <2>4. ASSUME NEW k \in Jobs, pc'[k] = "upsert" PROVE Whole(at'[k])
    BY <2>2, <2>4 DEF AllOrdered
  <2>5. ASSUME NEW r \in Repos, r # q, Settled(r)' PROVE Ordered(r)'
    <3>1. r \in partly' <=> r \in partly
      BY <2>1, <2>5 DEF Removed
    <3>2. Settled(r) /\ Indexer!Apart(r)
      BY <2>2, <2>5, <3>1 DEF Settled, Indexer!Apart, Indexer!FilesOf
    <3>3. \A f \in Indexer!FilesOf(r), i \in Nat :
            <<f, i>> \in stored' <=> <<f, i>> \in stored
      <4>1. \A f \in Indexer!FilesOf(r), i \in Nat : <<f, i>> \notin gone
        BY <2>5, <3>2 DEF Indexer!Apart, Indexer!ChunksOf
      <4>. QED
        BY <2>2, <4>1
    <3>. QED
      BY <2>2, <2>3, <3>2, <3>3, StillOrdered DEF AllOrdered
  <2>6. ASSUME Settled(q)' PROVE Ordered(q)'
    <3>1. \A j \in Jobs : repo[j] = q => pc[j] # "upsert"
      BY <2>2, <2>6 DEF Settled, Indexer!Running
    <3>2. gone = Indexer!ChunksOf(q)
      BY <2>1, <2>6 DEF Settled, Removed
    <3>3. \A c \in stored' : c[1] \notin Indexer!FilesOf(q)
      BY <2>2, <3>2 DEF Indexer!ChunksOf
    <3>4. InBatches(stored', Indexer!FilesOf(q))
      BY <3>3 DEF InBatches
    <3>. QED
      BY <2>2, <3>1, <3>4 DEF Ordered, Handed
  <2>. QED
    BY <2>4, <2>5, <2>6 DEF AllOrdered
<1>9. ASSUME NEW f \in Files, Indexer!Edit(f) PROVE AllOrdered'
  <2>1. UNCHANGED <<repo, pc, filesToProcess, cur, at, stored, torn, partly>>
    BY <1>9 DEF Indexer!Edit, Indexer!jobVars
  <2>2. \A k \in Jobs : Unmoved(k)
    BY <2>1 DEF Unmoved
  <2>. QED
    BY <1>1, <2>1, <2>2
<1>10. CASE UNCHANGED Indexer!vars
  <2>1. UNCHANGED <<repo, pc, filesToProcess, cur, at, stored, torn, partly>>
    BY <1>10 DEF Indexer!vars, Indexer!jobVars
  <2>2. \A k \in Jobs : Unmoved(k)
    BY <2>1 DEF Unmoved
  <2>. QED
    BY <1>1, <2>1, <2>2
<1>. QED
  BY <1>2, <1>3, <1>4, <1>5, <1>6, <1>7, <1>8, <1>9, <1>10
  DEF Indexer!Next, Indexer!JobStep

\* Of a repository's directory of its own, never deleted under a job nor left
\* over by a deletion, the store has every file up to some batch.
THEOREM StoredInBatches == Indexer!Spec => []BatchesInOrder
<1>1. Jobbed /\ AllOrdered => BatchesInOrder
  <2>. SUFFICES ASSUME Jobbed, AllOrdered, NEW j \in Jobs, Settled(repo[j])
                PROVE  InBatches(stored, Indexer!FilesOf(repo[j]))
    BY DEF Settled, InBatches, Before, BatchesInOrder, Indexer!BatchesInOrder
  <2>1. repo[j] \in Repos
    BY DEF Jobbed, Indexer!TypeOK
  <2>. QED
    BY <2>1 DEF AllOrdered, Ordered
<1>. QED
  BY <1>1, JobsInit, JobsStep, OrderedInit, OrderedStep, PTL DEF Indexer!Spec

-----------------------------------------------------------------------------
(* A Go file: what Parse has made of it, and what is stored.               *)

\* A chunk is as long as its lines say, or an empty function.
Fits(c) ==
    /\ c.content # <<>> => Len(c.content) = c.last - c.first + 1
    /\ c.kind = "type" => c.content # <<>>

\* A chunk is one of version v's declarations, with v's text.
FromDecl(c, v) ==
    \E i \in DOMAIN Decls[v] :
      /\ c.kind = Decls[v][i].kind /\ c.first = Decls[v][i].first
      /\ \E k \in DOMAIN Decls[v][i].names : c.name = Decls[v][i].names[k]
      /\ c.content = SubSeq(Text[v], Decls[v][i].first, Decls[v][i].last)

\* The parser has come to a name of declaration i, and there is a chunk for it.
Reached(i) == i < goAt \/ (i = goAt /\ named > 0)
Covers(s, d) == \E m \in DOMAIN s : s[m].first = d.first
Covered ==
    \A i \in DOMAIN Decls[parsed] :
      Reached(i) /\ Decls[parsed][i].names # <<>> => Covers(chunks, Decls[parsed][i])
AllFrom == \A m \in DOMAIN chunks : FromDecl(chunks[m], parsed)

\* Every declaration of v has a chunk in S under its first line, but at lines.
FreshIn(v, S, lines) ==
    \A i \in DOMAIN Decls[v] :
      Decls[v][i].names # <<>> /\ Decls[v][i].first \notin lines =>
        \E c \in S : c.first = Decls[v][i].first /\ FromDecl(c, v)

Parsed ==
    /\ goPc = "parse" /\ quiet => disk = parsed
    /\ goPc = "store" => goAt > Len(Decls[parsed])
    /\ goPc \in {"parse", "store"} /\ quiet => AllFrom /\ Covered
    /\ \A m \in DOMAIN chunks : Fits(chunks[m])
    /\ \A c \in goStored : Fits(c)
    /\ \A v \in indexed : FreshIn(v, goStored, overwritten)
GoFiled == GoFile!TypeOK /\ Parsed

LEMMA GoFiles ==
    /\ \A v \in Versions :
         /\ Text[v] \in Seq(STRING) /\ Decls[v] \in Seq(GoFile!Declaration)
         /\ Len(Decls[v]) \in Nat
    /\ \A v \in Versions : \A i \in 1..Len(Decls[v]) :
         /\ i \in DOMAIN Decls[v]
         /\ Decls[v][i].kind \in {"function", "method", "type"}
         /\ Decls[v][i].names \in Seq(STRING)
         /\ Decls[v][i].first \in Nat \ {0} /\ Decls[v][i].last \in Nat \ {0}
         /\ Decls[v][i].first <= Decls[v][i].last
         /\ Decls[v][i].last <= Len(Text[v])
    /\ MaxChanges \in Nat /\ MaxRuns \in Nat
<1>1. ASSUME NEW v \in Versions
      PROVE  /\ Text[v] \in Seq(STRING) /\ Decls[v] \in Seq(GoFile!Declaration)
             /\ Len(Decls[v]) \in Nat
  BY GoFileAssumption DEF GoFile!FileAssumption
<1>2. ASSUME NEW v \in Versions, NEW i \in 1..Len(Decls[v])
      PROVE  /\ i \in DOMAIN Decls[v] /\ Decls[v][i] \in GoFile!Declaration
             /\ Decls[v][i].first <= Decls[v][i].last
             /\ Decls[v][i].last <= Len(Text[v])
  <2>1. i \in DOMAIN Decls[v] /\ Decls[v][i] \in GoFile!Declaration
    BY <1>1
  <2>. QED
    BY <2>1, GoFileAssumption DEF GoFile!FileAssumption
<1>. QED
  BY <1>1, <1>2, GoFileAssumption DEF GoFile!FileAssumption, GoFile!Declaration

\* The content of a node is in the file, or there is none.
LEMMA ContentFits ==
    ASSUME NEW v \in Versions, NEW a \in Nat \ {0}, NEW b \in Nat, a <= b
    PROVE  /\ GoFile!extractNodeContent(v, a, b) \in Seq(STRING)
           /\ GoFile!extractNodeContent(v, a, b) # <<>> =>
                Len(GoFile!extractNodeContent(v, a, b)) = b - a + 1
           /\ b <= Len(Text[v]) =>
                /\ GoFile!extractNodeContent(v, a, b) = SubSeq(Text[v], a, b)
                /\ GoFile!extractNodeContent(v, a, b) # <<>>
<1>1. Text[v] \in Seq(STRING)
  BY GoFiles
<1>2. CASE b > Len(Text[v])
  <2>1. GoFile!extractNodeContent(v, a, b) = <<>>
    BY <1>2 DEF GoFile!extractNodeContent
  <2>2. ~(b <= Len(Text[v])) /\ <<>> \in Seq(STRING)
    BY <1>1, <1>2
  <2>. QED
    BY <2>1, <2>2
<1>3. CASE b <= Len(Text[v])
  <2>1. SubSeq(Text[v], a, b) \in Seq(STRING)
          /\ Len(SubSeq(Text[v], a, b)) = b - a + 1
    BY <1>1, <1>3
  <2>. QED
    <3>1. GoFile!extractNodeContent(v, a, b) = SubSeq(Text[v], a, b)
      BY <1>1, <1>3 DEF GoFile!extractNodeContent
    <3>2. SubSeq(Text[v], a, b) # <<>>
      <4>1. b - a + 1 # 0
        OBVIOUS
      <4>2. Len(<<>>) = 0
        OBVIOUS
      <4>. HIDE DEF GoFile!extractNodeContent
      <4>. QED
        BY <2>1, <4>1, <4>2
    <3>. QED
      BY <2>1, <3>1, <3>2
<1>. QED
  BY <1>1, <1>2, <1>3

LEMMA SameCount == \A S : GoFile!Cardinality(S) = Cardinality(S)
BY Zenon DEF GoFile!Cardinality, Cardinality

\* Visit's chunk, and what it says of its declaration.
LEMMA VisitMakes ==
    ASSUME GoFile!TypeOK, GoFile!Visit
    PROVE  /\ goAt \in 1..Len(Decls[parsed])
           /\ named + 1 \in 1..Len(Decls[parsed][goAt].names)
           /\ \E c \in GoFile!Chunk :
                /\ c = GoFile!ChunkOf(Decls[parsed][goAt],
                                      Decls[parsed][goAt].names[named + 1])
                /\ chunks' = IF c.kind = "type" /\ c.content = <<>> THEN chunks
                             ELSE Append(chunks, c)
                /\ c.first = Decls[parsed][goAt].first
                /\ c.content # <<>> => Len(c.content) = c.last - c.first + 1
                /\ disk = parsed => c.content # <<>> /\ FromDecl(c, parsed)
<1>. DEFINE d == Decls[parsed][goAt]
            name == d.names[named + 1]
            c == GoFile!ChunkOf(d, name)
<1>0. disk \in Versions /\ parsed \in Versions
  BY DEF GoFile!TypeOK
<1>1. goAt \in 1..Len(Decls[parsed])
  BY <1>0, GoFiles DEF GoFile!TypeOK, GoFile!Visit
<1>2. /\ d.kind \in {"function", "method", "type"} /\ d.names \in Seq(STRING)
      /\ d.first \in Nat \ {0} /\ d.last \in Nat \ {0} /\ d.first <= d.last
      /\ d.last <= Len(Text[parsed]) /\ goAt \in DOMAIN Decls[parsed]
  BY <1>0, <1>1, GoFiles
<1>3. named \in Nat
  <2>1. goAt <= Len(Decls[parsed]) /\ Len(d.names) \in Nat
    BY <1>1, <1>2 DEF GoFile!Visit
  <2>. QED
    BY <2>1 DEF GoFile!TypeOK
<1>4. named + 1 \in 1..Len(d.names)
  BY <1>2, <1>3 DEF GoFile!Visit
<1>. HIDE DEF d
<1>5. name \in STRING /\ named + 1 \in DOMAIN d.names
  BY <1>2, <1>4
<1>. HIDE DEF name
<1>6. /\ c.kind = d.kind /\ c.name = name /\ c.first = d.first /\ c.last = d.last
      /\ c.content = GoFile!extractNodeContent(disk, d.first, d.last)
  BY DEF GoFile!ChunkOf
<1>7. /\ c.content \in Seq(STRING)
      /\ c.content # <<>> => Len(c.content) = c.last - c.first + 1
      /\ d.last <= Len(Text[disk]) =>
           c.content = SubSeq(Text[disk], d.first, d.last) /\ c.content # <<>>
  BY <1>0, <1>2, <1>6, ContentFits
<1>8. c \in GoFile!Chunk
  BY <1>2, <1>5, <1>6, <1>7 DEF GoFile!ChunkOf, GoFile!Chunk
<1>9. disk = parsed => c.content # <<>> /\ FromDecl(c, parsed)
  BY <1>2, <1>5, <1>6, <1>7 DEF FromDecl, d, name
<1>10. chunks' = IF c.kind = "type" /\ c.content = <<>> THEN chunks
                 ELSE Append(chunks, c)
  BY DEF GoFile!Visit, d, name
<1>. QED
  BY <1>1, <1>4, <1>6, <1>7, <1>8, <1>9, <1>10 DEF d, name

LEMMA GoFiledInit == GoFile!Init => GoFiled
<1>. SUFFICES ASSUME GoFile!Init PROVE GoFiled
  OBVIOUS
<1>. USE GoFiles DEF GoFile!Init
<1>1. goAt \in 1..(Len(Decls[parsed]) + 1)
  OBVIOUS
<1>2. named \in 0..(IF goAt <= Len(Decls[parsed]) THEN Len(Decls[parsed][goAt].names)
                    ELSE 0)
  <2>1. goAt <= Len(Decls[parsed]) => Len(Decls[parsed][goAt].names) \in Nat
    BY <1>1
  <2>. QED
    BY <2>1
<1>3. GoFile!Cardinality(indexed) <= 1
  BY SameCount, FS_EmptySet
<1>4. GoFile!TypeOK
  BY <1>1, <1>2, <1>3 DEF GoFile!TypeOK
<1>5. Parsed
  BY DEF Parsed
<1>. QED
  BY <1>4, <1>5 DEF GoFiled

\* What is stored when the chunks at I have replaced what was there.
LEMMA Overwrites ==
    ASSUME GoFiled, NEW I \in SUBSET DOMAIN chunks, NEW S, S = GoFile!Replaced(I)
    PROVE  /\ \A c \in S : c \in goStored \/ \E m \in I : c = chunks[m]
           /\ \A c, d \in S : GoFile!SameID(c, d) => c = d
           /\ \A m \in I : \E k \in I :
                chunks[k].first = chunks[m].first /\ chunks[k] \in S
           /\ \A d \in goStored :
                (\A m \in I : chunks[m].first # d.first) => d \in S
<1>. DEFINE Last(m) == \A k \in I : k > m => ~GoFile!SameID(chunks[k], chunks[m])
            last == {chunks[m] : m \in {j \in I : Last(j)}}
<1>1. S = last \cup {d \in goStored : \A c \in last : ~GoFile!SameID(c, d)}
  BY DEF GoFile!Replaced
<1>2. /\ DOMAIN chunks = 1..Len(chunks) /\ Len(chunks) \in Nat
      /\ \A c, d \in goStored : GoFile!SameID(c, d) => c = d
  BY DEF GoFiled, GoFile!TypeOK
<1>3. \A c, d \in last : GoFile!SameID(c, d) => c = d
  <2>. SUFFICES ASSUME NEW k \in I, Last(k), NEW m \in I, Last(m),
                       GoFile!SameID(chunks[k], chunks[m])
                PROVE  k = m
    OBVIOUS
  <2>1. ~(k > m) /\ ~(m > k)
    BY DEF GoFile!SameID
  <2>2. k \in Nat /\ m \in Nat
    BY <1>2
  <2>. QED
    BY <2>1, <2>2
<1>4. \A c, d \in S : GoFile!SameID(c, d) => c = d
  <2>. HIDE DEF last
  <2>. QED
    BY <1>1, <1>2, <1>3 DEF GoFile!SameID
<1>5. ASSUME NEW m \in I
      PROVE  \E k \in I : chunks[k].first = chunks[m].first /\ chunks[k] \in S
  <2>. DEFINE T == {j \in I : chunks[j].first = chunks[m].first}
  <2>1. T \in SUBSET (0..Len(chunks)) /\ T # {}
    BY <1>2
  <2>2. PICK k \in T : \A j \in T : j <= k
    <3>. HIDE DEF T
    <3>. QED
      BY <1>2, <2>1, Greatest
  <2>3. Last(k)
    BY <1>2, <2>2 DEF GoFile!SameID
  <2>. QED
    BY <1>1, <2>2, <2>3
<1>6. ASSUME NEW d \in goStored, \A m \in I : chunks[m].first # d.first
      PROVE  d \in S
  BY <1>1, <1>6 DEF GoFile!SameID
<1>7. \A c \in S : c \in goStored \/ \E m \in I : c = chunks[m]
  BY <1>1
<1>. QED
  BY <1>4, <1>5, <1>6, <1>7

LEMMA GoFiledStep == GoFiled /\ [GoFile!Next]_(GoFile!vars) => GoFiled'
<1>. SUFFICES ASSUME GoFiled, [GoFile!Next]_(GoFile!vars) PROVE GoFiled'
  OBVIOUS
<1>0. /\ GoFile!TypeOK /\ Parsed
      /\ disk \in Versions /\ parsed \in Versions
      /\ changes \in 0..MaxChanges /\ runs \in 0..MaxRuns
      /\ goAt \in 1..(Len(Decls[parsed]) + 1) /\ Len(Decls[parsed]) \in Nat
      /\ chunks \in Seq(GoFile!Chunk) /\ goStored \subseteq GoFile!Chunk
      /\ \A c, d \in goStored : GoFile!SameID(c, d) => c = d
      /\ indexed \subseteq Versions /\ overwritten \subseteq Nat
  BY GoFiles DEF GoFiled, GoFile!TypeOK
<1>1. ASSUME GoFile!Parse PROVE GoFiled'
  <2>1. /\ goAt' = 1 /\ named' = 0 /\ chunks' = <<>> /\ parsed' = disk
        /\ goPc' = "parse" /\ runs' = runs + 1 /\ runs < MaxRuns
        /\ UNCHANGED <<disk, changes, goStored, indexed, overwritten>>
        /\ quiet' = TRUE
    BY <1>1 DEF GoFile!Parse
  <2>2. /\ goAt' \in 1..(Len(Decls[parsed']) + 1)
        /\ named' \in 0..(IF goAt' <= Len(Decls[parsed'])
                          THEN Len(Decls[parsed'][goAt'].names) ELSE 0)
    <3>1. Len(Decls[disk]) \in Nat
      BY <1>0, GoFiles
    <3>2. goAt' <= Len(Decls[disk]) => Len(Decls[disk][goAt'].names) \in Nat
      BY <1>0, <2>1, <3>1, GoFiles
    <3>. QED
      BY <2>1, <3>1, <3>2
  <2>3. runs' \in 0..MaxRuns
    BY <1>0, <2>1, GoFiles
  <2>4. chunks' \in Seq(GoFile!Chunk)
    BY <2>1
  <2>5. GoFile!TypeOK'
    BY <1>0, <2>1, <2>2, <2>3, <2>4 DEF GoFile!TypeOK, GoFile!Cardinality
  <2>6. Covered' /\ AllFrom'
    <3>1. \A i \in DOMAIN Decls[disk] : ~(i < 1 \/ (i = 1 /\ 0 > 0))
      BY <1>0, GoFiles
    <3>2. DOMAIN chunks' = {}
      BY <2>1
    <3>. QED
      BY <2>1, <3>1, <3>2 DEF Covered, AllFrom, Reached
  <2>7. Parsed'
    BY <1>0, <2>1, <2>6 DEF Parsed
  <2>. QED
    BY <2>5, <2>7 DEF GoFiled
<1>2. ASSUME GoFile!Visit PROVE GoFiled'
  <2>. DEFINE d == Decls[parsed][goAt]
  <2>1. /\ goPc = "parse" /\ named' = named + 1
        /\ UNCHANGED <<disk, changes, runs, goPc, parsed, goAt, quiet, goStored,
                       indexed, overwritten>>
    BY <1>2 DEF GoFile!Visit
  <2>2. /\ goAt \in 1..Len(Decls[parsed])
        /\ named + 1 \in 1..Len(d.names)
    BY <1>0, <1>2, VisitMakes
  <2>3. PICK c \in GoFile!Chunk :
          /\ chunks' = IF c.kind = "type" /\ c.content = <<>> THEN chunks
                       ELSE Append(chunks, c)
          /\ c.first = d.first
          /\ c.content # <<>> => Len(c.content) = c.last - c.first + 1
          /\ disk = parsed => c.content # <<>> /\ FromDecl(c, parsed)
    BY <1>0, <1>2, VisitMakes
  <2>. HIDE DEF d
  <2>4. named \in Nat /\ named' \in 0..Len(d.names)
    <3>1. goAt <= Len(Decls[parsed])
      BY <2>2
    <3>2. named \in 0..Len(d.names)
      BY <1>0, <3>1 DEF GoFile!TypeOK, d
    <3>. QED
      BY <2>1, <2>2, <3>2
  <2>5. /\ chunks' \in Seq(GoFile!Chunk)
        /\ \A m \in DOMAIN chunks' :
             \/ m \in DOMAIN chunks /\ chunks'[m] = chunks[m]
             \/ chunks'[m] = c /\ ~(c.kind = "type" /\ c.content = <<>>)
        /\ \A m \in DOMAIN chunks : m \in DOMAIN chunks' /\ chunks'[m] = chunks[m]
        /\ ~(c.kind = "type" /\ c.content = <<>>) =>
             \E m \in DOMAIN chunks' : chunks'[m] = c
    <3>1. CASE c.kind = "type" /\ c.content = <<>>
      BY <1>0, <2>3, <3>1
    <3>2. CASE ~(c.kind = "type" /\ c.content = <<>>)
      <4>1. chunks' = Append(chunks, c)
        BY <2>3, <3>2
      <4>2. /\ DOMAIN chunks' = 1..(Len(chunks) + 1) /\ Len(chunks) \in Nat
            /\ DOMAIN chunks = 1..Len(chunks)
            /\ chunks'[Len(chunks) + 1] = c
            /\ \A m \in 1..Len(chunks) : chunks'[m] = chunks[m]
            /\ chunks' \in Seq(GoFile!Chunk)
        BY <1>0, <4>1
      <4>. QED
        BY <3>2, <4>2
    <3>. QED
      BY <3>1, <3>2
  <2>6. GoFile!TypeOK'
    <3>1. named' \in 0..(IF goAt' <= Len(Decls[parsed'])
                         THEN Len(Decls[parsed'][goAt'].names) ELSE 0)
      BY <2>1, <2>2, <2>4 DEF d
    <3>. QED
      BY <1>0, <2>1, <2>5, <3>1 DEF GoFile!TypeOK, GoFile!Cardinality
  <2>7. \A m \in DOMAIN chunks' : Fits(chunks'[m])
    BY <1>0, <2>3, <2>5 DEF Fits, Parsed
  <2>8. ASSUME quiet PROVE AllFrom' /\ Covered'
    <3>1. disk = parsed /\ AllFrom /\ Covered
      BY <1>0, <2>1, <2>8 DEF Parsed
    <3>2. c.content # <<>> /\ FromDecl(c, parsed)
      BY <2>3, <3>1
    <3>3. AllFrom'
      BY <2>1, <2>5, <3>1, <3>2 DEF AllFrom
    <3>4. ASSUME NEW i \in DOMAIN Decls[parsed], Decls[parsed][i].names # <<>>,
                 Reached(i)'
          PROVE  Covers(chunks', Decls[parsed][i])
      <4>1. CASE i = goAt
        <5>1. \E m \in DOMAIN chunks' : chunks'[m] = c
          BY <2>5, <3>2
        <5>. QED
          BY <2>3, <4>1, <5>1 DEF Covers, d
      <4>2. CASE i # goAt
        <5>1. Reached(i)
          BY <2>1, <3>4, <4>2 DEF Reached
        <5>2. Covers(chunks, Decls[parsed][i])
          BY <3>1, <3>4, <5>1 DEF Covered
        <5>. QED
          BY <2>5, <5>2 DEF Covers
      <4>. QED
        BY <4>1, <4>2
    <3>. QED
      BY <2>1, <3>3, <3>4 DEF Covered
  <2>9. Parsed'
    BY <1>0, <2>1, <2>7, <2>8 DEF Parsed
  <2>. QED
    BY <2>6, <2>9 DEF GoFiled
<1>3. ASSUME GoFile!NextNode PROVE GoFiled'
  <2>1. /\ goPc = "parse" /\ goAt <= Len(Decls[parsed])
        /\ named = Len(Decls[parsed][goAt].names)
        /\ goAt' = goAt + 1 /\ named' = 0
        /\ UNCHANGED <<disk, changes, runs, goPc, parsed, chunks, quiet, goStored,
                       indexed, overwritten>>
    BY <1>3 DEF GoFile!NextNode
  <2>2. /\ goAt' \in 1..(Len(Decls[parsed]) + 1)
        /\ named' \in 0..(IF goAt' <= Len(Decls[parsed])
                          THEN Len(Decls[parsed][goAt'].names) ELSE 0)
    <3>1. goAt' \in 1..(Len(Decls[parsed]) + 1)
      BY <1>0, <2>1
    <3>2. goAt' <= Len(Decls[parsed]) => Len(Decls[parsed][goAt'].names) \in Nat
      BY SMTT(40), <1>0, <3>1, GoFiles
    <3>. QED
      BY <2>1, <3>1, <3>2
  <2>3. GoFile!TypeOK'
    BY <1>0, <2>1, <2>2 DEF GoFile!TypeOK, GoFile!Cardinality
  <2>4. ASSUME Covered PROVE Covered'
    <3>. SUFFICES ASSUME NEW i \in DOMAIN Decls[parsed], Reached(i)',
                         Decls[parsed][i].names # <<>>
                  PROVE  Reached(i)
      BY <2>1, <2>4 DEF Covered
    <3>1. i \in 1..Len(Decls[parsed])
      BY <1>0, GoFiles
    <3>2. i < goAt \/ i = goAt
      BY <1>0, <2>1, <3>1 DEF Reached
    <3>3. Decls[parsed][i].names \in Seq(STRING)
      BY <1>0, <3>1, GoFiles
    <3>4. Len(Decls[parsed][i].names) > 0
      BY <3>3
    <3>. QED
      BY <2>1, <3>2, <3>4 DEF Reached
  <2>5. AllFrom => AllFrom'
    BY <2>1 DEF AllFrom
  <2>6. Parsed'
    BY <1>0, <2>1, <2>4, <2>5 DEF Parsed
  <2>. QED
    BY <2>3, <2>6 DEF GoFiled
<1>4. ASSUME GoFile!EndParse PROVE GoFiled'
  <2>1. /\ UNCHANGED <<disk, changes, runs, parsed, goAt, named, chunks, quiet,
                       goStored, indexed, overwritten>>
        /\ \/ goPc' = "idle"
           \/ goPc = "parse" /\ goAt > Len(Decls[parsed]) /\ goPc' = "store"
    BY <1>4 DEF GoFile!EndParse
  <2>2. GoFile!TypeOK'
    BY <1>0, <2>1 DEF GoFile!TypeOK, GoFile!Cardinality
  <2>3. (AllFrom => AllFrom') /\ (Covered => Covered')
    BY <2>1 DEF AllFrom, Covered, Covers, Reached
  <2>4. Parsed'
    BY <1>0, <2>1, <2>3 DEF Parsed
  <2>. QED
    BY <2>2, <2>4 DEF GoFiled
<1>5. ASSUME GoFile!Upsert PROVE GoFiled'
  <2>1. /\ goPc = "store" /\ goPc' = "idle"
        /\ indexed' = IF quiet THEN {parsed} ELSE {}
        /\ goStored' = GoFile!Replaced(DOMAIN chunks) /\ overwritten' = {}
        /\ UNCHANGED <<disk, changes, runs, parsed, goAt, named, chunks, quiet>>
    BY <1>5 DEF GoFile!Upsert
  <2>2. /\ \A c \in goStored' :
             c \in goStored \/ \E m \in DOMAIN chunks : c = chunks[m]
        /\ \A c, d \in goStored' : GoFile!SameID(c, d) => c = d
        /\ \A d : Covers(chunks, d) =>
             \E m \in DOMAIN chunks :
               chunks[m].first = d.first /\ chunks[m] \in goStored'
    BY <2>1, Overwrites DEF Covers
  <2>3. GoFile!TypeOK'
    <3>1. goStored' \subseteq GoFile!Chunk
      <4>1. \A m \in DOMAIN chunks : chunks[m] \in GoFile!Chunk
        BY <1>0
      <4>. QED
        BY <1>0, <2>2, <4>1
    <3>2. indexed' \subseteq Versions /\ GoFile!Cardinality(indexed') <= 1
      <4>1. Cardinality({}) = 0 /\ Cardinality({parsed}) = 1
        BY FS_EmptySet, FS_Singleton
      <4>2. GoFile!Cardinality({}) = 0 /\ GoFile!Cardinality({parsed}) = 1
        BY <4>1, SameCount, Zenon
      <4>3. indexed' = {} \/ indexed' = {parsed}
        BY <2>1
      <4>4. GoFile!Cardinality({}) <= 1 /\ GoFile!Cardinality({parsed}) <= 1
        BY <4>2
      <4>5. {} \subseteq Versions /\ {parsed} \subseteq Versions
        BY <1>0
      <4>. QED
        BY <4>3, <4>4, <4>5, Zenon
    <3>. QED
      BY <1>0, <2>1, <2>2, <3>1, <3>2 DEF GoFile!TypeOK
  <2>4. \A c \in goStored' : Fits(c)
    BY <1>0, <2>2 DEF Parsed
  <2>5. ASSUME quiet PROVE FreshIn(parsed, goStored', {})
    <3>1. AllFrom /\ Covered /\ goAt > Len(Decls[parsed])
      BY <1>0, <2>1, <2>5 DEF Parsed
    <3>. SUFFICES ASSUME NEW i \in DOMAIN Decls[parsed], Decls[parsed][i].names # <<>>
                  PROVE  \E c \in goStored' :
                           c.first = Decls[parsed][i].first /\ FromDecl(c, parsed)
      BY DEF FreshIn
    <3>2. Reached(i)
      <4>1. i \in 1..Len(Decls[parsed])
        BY <1>0, GoFiles
      <4>. QED
        BY <1>0, <3>1, <4>1 DEF Reached
    <3>3. Covers(chunks, Decls[parsed][i])
      BY <3>1, <3>2 DEF Covered
    <3>4. PICK m \in DOMAIN chunks :
            chunks[m].first = Decls[parsed][i].first /\ chunks[m] \in goStored'
      BY <2>2, <3>3
    <3>5. FromDecl(chunks[m], parsed)
      BY <3>1 DEF AllFrom
    <3>. QED
      BY <3>4, <3>5
  <2>6. Parsed'
    BY <1>0, <2>1, <2>4, <2>5 DEF Parsed
  <2>. QED
    BY <2>3, <2>6 DEF GoFiled
<1>6. ASSUME NEW v \in Versions, GoFile!Edit(v) PROVE GoFiled'
  <2>1. /\ changes < MaxChanges /\ changes' = changes + 1 /\ disk' = v
        /\ quiet' = (quiet /\ goPc # "parse")
        /\ UNCHANGED <<runs, goPc, parsed, goAt, named, chunks, goStored, indexed,
                       overwritten>>
    BY <1>6 DEF GoFile!Edit
  <2>2. changes' \in 0..MaxChanges
    BY <1>0, <2>1, GoFiles
  <2>3. quiet' \in BOOLEAN
    BY <2>1
  <2>4. GoFile!TypeOK'
    BY <1>0, <2>1, <2>2, <2>3 DEF GoFile!TypeOK, GoFile!Cardinality
  <2>5. (AllFrom => AllFrom') /\ (Covered => Covered')
    BY <2>1 DEF AllFrom, Covered, Covers, Reached
  <2>6. Parsed'
    BY <1>0, <2>1, <2>5 DEF Parsed
  <2>. QED
    BY <2>4, <2>6 DEF GoFiled
<1>7. CASE UNCHANGED GoFile!vars
  <2>1. UNCHANGED <<disk, changes, runs, goPc, parsed, goAt, named, chunks, quiet,
                    goStored, indexed, overwritten>>
    BY <1>7 DEF GoFile!vars
  <2>2. GoFile!TypeOK'
    BY <1>0, <2>1 DEF GoFile!TypeOK, GoFile!Cardinality
  <2>3. (AllFrom => AllFrom') /\ (Covered => Covered')
    BY <2>1 DEF AllFrom, Covered, Covers, Reached
  <2>4. Parsed'
    BY <1>0, <2>1, <2>3 DEF Parsed
  <2>. QED
    BY <2>2, <2>4 DEF GoFiled
<1>8. ASSUME GoFile!StoreFails PROVE GoFiled'
  <2>1. /\ goPc = "store" /\ goPc' = "idle"
        /\ UNCHANGED <<disk, changes, runs, parsed, goAt, named, chunks, quiet,
                       indexed>>
    BY <1>8 DEF GoFile!StoreFails
  <2>2. PICK I \in SUBSET DOMAIN chunks :
          /\ goStored' = GoFile!Replaced(I)
          /\ overwritten' = overwritten \cup {chunks[m].first : m \in I}
    BY <1>8 DEF GoFile!StoreFails
  <2>3. /\ \A c \in goStored' : c \in goStored \/ \E m \in I : c = chunks[m]
        /\ \A c, d \in goStored' : GoFile!SameID(c, d) => c = d
        /\ \A d \in goStored :
             (\A m \in I : chunks[m].first # d.first) => d \in goStored'
    BY <2>2, Overwrites
  <2>4. \A m \in I : chunks[m] \in GoFile!Chunk /\ chunks[m].first \in Nat
    <3>1. \A m \in DOMAIN chunks : chunks[m] \in GoFile!Chunk
      BY <1>0
    <3>2. \A c \in GoFile!Chunk : c.first \in Nat
      BY DEF GoFile!Chunk
    <3>. QED
      BY <3>1, <3>2
  <2>5. goStored' \subseteq GoFile!Chunk /\ overwritten' \subseteq Nat
    BY <1>0, <2>2, <2>3, <2>4
  <2>6. GoFile!TypeOK'
    BY <1>0, <2>1, <2>3, <2>5 DEF GoFile!TypeOK, GoFile!Cardinality
  <2>7. \A c \in goStored' : Fits(c)
    BY <1>0, <2>3 DEF Parsed
  <2>8. ASSUME NEW v \in indexed PROVE FreshIn(v, goStored', overwritten')
    <3>. SUFFICES ASSUME NEW i \in DOMAIN Decls[v], Decls[v][i].names # <<>>,
                         Decls[v][i].first \notin overwritten'
                  PROVE  \E c \in goStored' :
                           c.first = Decls[v][i].first /\ FromDecl(c, v)
      BY DEF FreshIn
    <3>1. FreshIn(v, goStored, overwritten) /\ Decls[v][i].first \notin overwritten
      BY <1>0, <2>2 DEF Parsed
    <3>2. PICK c \in goStored : c.first = Decls[v][i].first /\ FromDecl(c, v)
      BY <3>1 DEF FreshIn
    <3>3. c \in goStored'
      BY <2>2, <2>3, <3>2
    <3>. QED
      BY <3>2, <3>3
  <2>9. Parsed'
    BY <1>0, <2>1, <2>7, <2>8 DEF Parsed
  <2>. QED
    BY <2>6, <2>9 DEF GoFiled
<1>. QED
  BY <1>1, <1>2, <1>3, <1>4, <1>5, <1>6, <1>7, <1>8 DEF GoFile!Next

\* A file that stood still while it was parsed is found at its lines with its
\* own text, but for lines that a later store reached before it failed, and
\* every chunk is as long as its lines say.
THEOREM FilesAreFresh == GoFile!Spec => []FreshAtItsLines
<1>1. GoFiled => FreshAtItsLines
  <2>. SUFFICES ASSUME GoFiled PROVE FreshAtItsLines
    OBVIOUS
  <2>1. GoFile!LinesAgree
    BY DEF GoFiled, Parsed, Fits, GoFile!LinesAgree
  <2>2. GoFile!FreshAtItsLines
    <3>. SUFFICES ASSUME NEW v \in indexed, NEW i \in DOMAIN Decls[v],
                         Decls[v][i].names # <<>>, Decls[v][i].first \notin overwritten
                  PROVE  \E c \in goStored :
                           c.first = Decls[v][i].first /\ FromDecl(c, v)
      BY DEF GoFile!FreshAtItsLines, FromDecl
    <3>. QED
      BY DEF GoFiled, Parsed, FreshIn
  <2>. QED
    BY <2>1, <2>2 DEF GoFiled, FreshAtItsLines
<1>. QED
  BY <1>1, GoFiledInit, GoFiledStep, PTL DEF GoFile!Spec

-----------------------------------------------------------------------------
(* The parts together, as the runs check them.                             *)

\* A behaviour of the parts is one of each of them.
THEOREM PartsAreComponents == PartsSpec => Spec /\ Indexer!Spec /\ GoFile!Spec
<1>1. PartsInit => Init /\ Indexer!Init /\ GoFile!Init
  BY DEF PartsInit, ChunkerAtRest, JobsAtRest, GoFileAtRest
<1>2. [PartsNext]_<<part, jobsVars, vars, goVars>> =>
        /\ [Next]_vars
        /\ [Indexer!Next]_(Indexer!vars)
        /\ [GoFile!Next]_(GoFile!vars)
  <2>1. /\ UNCHANGED jobsVars => UNCHANGED Indexer!vars
        /\ UNCHANGED goVars => UNCHANGED GoFile!vars
    BY DEF jobsVars, goVars, Indexer!vars, Indexer!jobVars, GoFile!vars
  <2>. QED
    BY <2>1 DEF PartsNext
<1>. QED
  BY <1>1, <1>2, PTL DEF PartsSpec, Spec, Indexer!Spec, GoFile!Spec

\* Whatever part a behaviour of the run explores, the invariants of all hold.
THEOREM PartsAreSafe ==
    PartsSpec =>
      /\ [](Tiled /\ NothingLost /\ RightSize /\ BlocksAreWhole /\ SignatureIsOwn)
      /\ [](OwnPatternsAlone /\ BatchesInOrder)
      /\ []FreshAtItsLines
BY PartsAreComponents, ChunksTileTheFile, NoTextIsLost, ChunksHaveTheirSize,
   BlocksStayWhole, SignaturesAreTheChunks, OwnPatternsRule, StoredInBatches,
   FilesAreFresh, PTL
=============================================================================
