--------------------------- MODULE SequenceLemmas ---------------------------
(***************************************************************************)
(* Induction over the natural numbers, with sets in the place of formulas, *)
(* and what it says of the functions in Prefixes.                          *)
(***************************************************************************)
EXTENDS Prefixes, WellFoundedInduction, TLAPS

LEMMA Least ==
    ASSUME NEW T \in SUBSET Nat, T # {}
    PROVE  \E x \in T : \A y \in T : x <= y
<1>. DEFINE Less == OpToRel(<, Nat)
<1>1. ASSUME NEW a \in Nat, NEW b \in Nat, a < b PROVE <<a, b>> \in Less
  BY <1>1 DEF OpToRel
<1>. HIDE DEF Less
<1>2. PICK x \in T : \A y \in T : <<y, x>> \notin Less
  <2>1. IsWellFoundedOn(Less, Nat)
    BY NatLessThanWellFounded DEF Less
  <2>. QED
    BY <2>1, WFMin
<1>3. ASSUME NEW y \in T PROVE x <= y
  <2>1. x \in Nat /\ y \in Nat
    OBVIOUS
  <2>2. CASE y < x
    BY <1>1, <1>2, <2>1, <2>2
  <2>. QED
    BY <2>1, <2>2
<1>. QED
  BY <1>3

LEMMA Induction ==
    ASSUME NEW T, 0 \in T, \A n \in Nat : n \in T => n + 1 \in T
    PROVE  \A n \in Nat : n \in T
<1>. SUFFICES ASSUME Nat \ T # {} PROVE FALSE
  OBVIOUS
<1>1. PICK x \in Nat \ T : \A y \in Nat \ T : x <= y
  BY Least
<1>2. x # 0 /\ x - 1 \in Nat /\ x - 1 \in T
  BY <1>1
<1>. QED
  BY <1>1, <1>2

\* The greatest of finitely many numbers.
LEMMA Greatest ==
    ASSUME NEW m \in Nat, NEW T \in SUBSET (0..m), T # {}
    PROVE  \E x \in T : \A y \in T : y <= x
<1>. DEFINE U == {m - y : y \in T}
<1>1. U \in SUBSET Nat /\ U # {}
  <2>1. \A y \in T : m - y \in Nat
    OBVIOUS
  <2>2. PICK y \in T : TRUE
    OBVIOUS
  <2>3. m - y \in U
    OBVIOUS
  <2>. QED
    BY <2>1, <2>3
<1>. HIDE DEF U
<1>2. PICK u \in U : \A v \in U : u <= v
  BY <1>1, Least
<1>. USE DEF U
<1>3. PICK x \in T : u = m - x
  BY <1>2
<1>4. ASSUME NEW y \in T PROVE y <= x
  <2>1. m - y \in U /\ m - y \in Nat /\ x \in Nat /\ y \in Nat
    OBVIOUS
  <2>. QED
    BY <1>2, <1>3, <2>1
<1>. QED
  BY <1>4

\* f holds the results of a loop of m steps.
IsLoop(f, m, a, step) == f[0] = a /\ \A i \in 1..m : f[i] = step[i][f[i - 1]]

\* Every loop has a result after each step.
LEMMA Recursion ==
    ASSUME NEW m \in Nat, NEW S, NEW a \in S, NEW step \in [1..m -> [S -> S]]
    PROVE  \E f \in [0..m -> S] : IsLoop(f, m, a, step)
<1>. DEFINE Loop(k, f) == IsLoop(f, k, a, step)
            T == {k \in Nat : k <= m => \E f \in [0..k -> S] : Loop(k, f)}
<1>. USE DEF IsLoop
<1>1. 0 \in T
  <2>1. [i \in 0..0 |-> a] \in [0..0 -> S] /\ Loop(0, [i \in 0..0 |-> a])
    OBVIOUS
  <2>. HIDE DEF Loop
  <2>. QED
    BY <2>1
<1>2. ASSUME NEW n \in Nat, n \in T PROVE n + 1 \in T
  <2>. SUFFICES ASSUME n + 1 <= m
                PROVE  \E f \in [0..(n + 1) -> S] : Loop(n + 1, f)
    OBVIOUS
  <2>1. PICK f \in [0..n -> S] : Loop(n, f)
    BY <1>2
  <2>. DEFINE g == [i \in 0..(n + 1) |->
                      IF i = n + 1 THEN step[n + 1][f[n]] ELSE f[i]]
  <2>2. step[n + 1][f[n]] \in S
    OBVIOUS
  <2>3. g \in [0..(n + 1) -> S]
    BY <2>2
  <2>4. Loop(n + 1, g)
    <3>1. g[0] = a /\ \A i \in 0..n : g[i] = f[i]
      BY <2>1
    <3>2. ASSUME NEW i \in 1..(n + 1) PROVE g[i] = step[i][g[i - 1]]
      <4>1. i - 1 \in 0..n /\ g[i - 1] = f[i - 1]
        BY <3>1
      <4>2. CASE i = n + 1
        BY <4>1, <4>2
      <4>3. CASE i \in 1..n
        <5>1. g[i] = f[i] /\ f[i] = step[i][f[i - 1]]
          BY <4>3, <3>1, <2>1
        <5>. QED
          BY <4>1, <5>1
      <4>. QED
        BY <4>2, <4>3
    <3>. QED
      BY <3>1, <3>2
  <2>. HIDE DEF Loop, g
  <2>. QED
    BY <2>3, <2>4
<1>3. m \in T
  <2>. HIDE DEF T
  <2>. QED
    BY <1>1, <1>2, Induction
<1>. QED
  BY <1>3

LEMMA SumsStep ==
    ASSUME NEW s \in Seq(Int)
    PROVE  /\ Sums(s) \in [0..Len(s) -> Int]
           /\ Sums(s)[0] = 0
           /\ \A i \in 1..Len(s) : Sums(s)[i] = Sums(s)[i - 1] + s[i]
<1>. DEFINE m == Len(s)
            step == [i \in 1..m |-> [x \in Int |-> x + s[i]]]
            Is(g) == g = [i \in 0..m |-> IF i = 0 THEN 0 ELSE g[i - 1] + s[i]]
<1>1. PICK f \in [0..m -> Int] : IsLoop(f, m, 0, step)
  <2>1. m \in Nat /\ 0 \in Int /\ step \in [1..m -> [Int -> Int]]
    OBVIOUS
  <2>. HIDE DEF step, m
  <2>. QED
    BY <2>1, Recursion, Zenon
<1>. HIDE DEF Is
<1>2. Is(f)
  <2>1. ASSUME NEW i \in 1..m PROVE f[i] = f[i - 1] + s[i]
    <3>1. i - 1 \in 0..m /\ f[i - 1] \in Int
      OBVIOUS
    <3>. QED
      BY <1>1, <3>1 DEF IsLoop
  <2>. QED
    BY <1>1, <2>1 DEF Is, IsLoop
<1>3. Sums(s) = CHOOSE g : Is(g)
  BY DEF Sums, Is
<1>4. Is(Sums(s))
  BY <1>2, <1>3
<1>5. /\ Sums(s)[0] = 0
      /\ \A i \in 1..m : Sums(s)[i] = Sums(s)[i - 1] + s[i]
      /\ DOMAIN Sums(s) = 0..m
  <2>. DEFINE h == Sums(s)
  <2>1. h = [i \in 0..m |-> IF i = 0 THEN 0 ELSE h[i - 1] + s[i]]
    BY <1>4 DEF Is
  <2>2. DOMAIN h = 0..m /\ \A i \in 0..m : h[i] = IF i = 0 THEN 0 ELSE h[i - 1] + s[i]
    <3>. HIDE DEF h
    <3>. QED
      BY <2>1
  <2>. QED
    BY <2>2
<1>6. \A i \in Nat : i <= m => Sums(s)[i] \in Int
  <2>. DEFINE T == {i \in Nat : i <= m => Sums(s)[i] \in Int}
  <2>1. 0 \in T
    BY <1>5
  <2>2. ASSUME NEW n \in Nat, n \in T PROVE n + 1 \in T
    BY <2>2, <1>5
  <2>3. \A n \in Nat : n \in T
    <3>. HIDE DEF T
    <3>. QED
      BY <2>1, <2>2, Induction
  <2>. QED
    BY <2>3
<1>7. Sums(s) \in [0..m -> Int]
  <2>1. Sums(s) = [i \in 0..m |-> Sums(s)[i]]
    BY <1>4 DEF Is
  <2>. QED
    BY <2>1, <1>6
<1>. QED
  BY <1>5, <1>7

LEMMA FiltersStep ==
    ASSUME NEW A, NEW s \in Seq(A), NEW T
    PROVE  /\ Filters(s, T) \in [0..Len(s) -> Seq(A)]
           /\ Filters(s, T)[0] = <<>>
           /\ \A i \in 1..Len(s) :
                Filters(s, T)[i] = IF s[i] \in T
                                   THEN Append(Filters(s, T)[i - 1], s[i])
                                   ELSE Filters(s, T)[i - 1]
<1>. DEFINE m == Len(s)
            step == [i \in 1..m |-> [x \in Seq(A) |->
                       IF s[i] \in T THEN Append(x, s[i]) ELSE x]]
            Is(g) == g = [i \in 0..m |->
                       IF i = 0 THEN <<>>
                       ELSE IF s[i] \in T THEN Append(g[i - 1], s[i]) ELSE g[i - 1]]
<1>1. PICK f \in [0..m -> Seq(A)] : IsLoop(f, m, <<>>, step)
  <2>1. m \in Nat /\ <<>> \in Seq(A) /\ step \in [1..m -> [Seq(A) -> Seq(A)]]
    OBVIOUS
  <2>. HIDE DEF step, m
  <2>. QED
    BY <2>1, Recursion, Zenon
<1>. HIDE DEF Is
<1>2. Is(f)
  <2>1. ASSUME NEW i \in 1..m
        PROVE  f[i] = IF s[i] \in T THEN Append(f[i - 1], s[i]) ELSE f[i - 1]
    <3>1. i - 1 \in 0..m /\ f[i - 1] \in Seq(A)
      OBVIOUS
    <3>. QED
      BY <1>1, <3>1 DEF IsLoop
  <2>2. ASSUME NEW i \in 0..m
        PROVE  f[i] = IF i = 0 THEN <<>>
                      ELSE IF s[i] \in T THEN Append(f[i - 1], s[i]) ELSE f[i - 1]
    <3>1. CASE i = 0
      BY <1>1, <3>1 DEF IsLoop
    <3>2. CASE i # 0
      <4>1. i \in 1..m
        BY <3>2
      <4>. QED
        BY <2>1, <3>2, <4>1, Zenon
    <3>. QED
      BY <3>1, <3>2
  <2>. QED
    BY <1>1, <2>2, Zenon DEF Is
<1>3. Filters(s, T) = CHOOSE g : Is(g)
  BY DEF Filters, Is
<1>4. Is(Filters(s, T))
  BY <1>2, <1>3
<1>5. /\ Filters(s, T)[0] = <<>>
      /\ \A i \in 1..m : Filters(s, T)[i] =
           IF s[i] \in T THEN Append(Filters(s, T)[i - 1], s[i])
           ELSE Filters(s, T)[i - 1]
  <2>. DEFINE h == Filters(s, T)
  <2>1. h = [i \in 0..m |->
               IF i = 0 THEN <<>>
               ELSE IF s[i] \in T THEN Append(h[i - 1], s[i]) ELSE h[i - 1]]
    BY <1>4 DEF Is
  <2>2. \A i \in 0..m :
          h[i] = IF i = 0 THEN <<>>
                 ELSE IF s[i] \in T THEN Append(h[i - 1], s[i]) ELSE h[i - 1]
    <3>. HIDE DEF h
    <3>. QED
      BY <2>1
  <2>. QED
    BY <2>2
<1>6. \A i \in Nat : i <= m => Filters(s, T)[i] \in Seq(A)
  <2>. DEFINE U == {i \in Nat : i <= m => Filters(s, T)[i] \in Seq(A)}
  <2>1. 0 \in U
    <3>1. 0 \in Nat /\ <<>> \in Seq(A)
      OBVIOUS
    <3>. QED
      BY <3>1, <1>5, Zenon
  <2>2. ASSUME NEW n \in Nat, n \in U PROVE n + 1 \in U
    <3>. SUFFICES ASSUME n + 1 <= m PROVE Filters(s, T)[n + 1] \in Seq(A)
      OBVIOUS
    <3>. DEFINE x == Filters(s, T)[n]
    <3>1. x \in Seq(A) /\ n + 1 \in 1..m /\ (n + 1) - 1 = n
      BY <2>2
    <3>2. Filters(s, T)[n + 1] = IF s[n + 1] \in T THEN Append(x, s[n + 1]) ELSE x
      BY <1>5, <3>1, Zenon
    <3>3. s[n + 1] \in A
      BY <3>1
    <3>. HIDE DEF x
    <3>. QED
      BY <3>1, <3>2, <3>3
  <2>3. \A n \in Nat : n \in U
    <3>. HIDE DEF U
    <3>. QED
      BY <2>1, <2>2, Induction
  <2>. QED
    BY <2>3
<1>7. Filters(s, T) \in [0..m -> Seq(A)]
  <2>1. Filters(s, T) = [i \in 0..m |-> Filters(s, T)[i]]
    BY <1>4 DEF Is
  <2>. QED
    BY <2>1, <1>6
<1>. QED
  BY <1>5, <1>7

\* Sums over a part that two sequences share are the same.
LEMMA SumsAgree ==
    ASSUME NEW s \in Seq(Int), NEW t \in Seq(Int), NEW m \in Nat,
           m <= Len(s), m <= Len(t), \A i \in 1..m : s[i] = t[i]
    PROVE  \A i \in 0..m : Sums(s)[i] = Sums(t)[i]
<1>. DEFINE T == {i \in Nat : i <= m => Sums(s)[i] = Sums(t)[i]}
<1>1. 0 \in T
  BY SumsStep
<1>2. ASSUME NEW n \in Nat, n \in T PROVE n + 1 \in T
  <2>. SUFFICES ASSUME n + 1 <= m PROVE Sums(s)[n + 1] = Sums(t)[n + 1]
    OBVIOUS
  <2>1. n + 1 \in 1..Len(s) /\ n + 1 \in 1..Len(t) /\ n + 1 \in 1..m
        /\ (n + 1) - 1 = n
    OBVIOUS
  <2>2. Sums(s)[n + 1] = Sums(s)[n] + s[n + 1]
    BY <2>1, SumsStep, Zenon
  <2>3. Sums(t)[n + 1] = Sums(t)[n] + t[n + 1]
    BY <2>1, SumsStep, Zenon
  <2>. QED
    BY <1>2, <2>1, <2>2, <2>3
<1>3. \A n \in Nat : n \in T
  <2>. HIDE DEF T
  <2>. QED
    BY <1>1, <1>2, Induction
<1>. QED
  BY <1>3

\* Nothing is filtered out of a sequence all of whose elements pass.
LEMMA FilterAll ==
    ASSUME NEW A, NEW s \in Seq(A), NEW T, \A i \in 1..Len(s) : s[i] \in T
    PROVE  Filter(s, T) = s
<1>. DEFINE kept == Filters(s, T)
            Same(i) == Len(kept[i]) = i /\ \A k \in 1..i : kept[i][k] = s[k]
            U == {i \in Nat : i <= Len(s) => Same(i)}
<1>0. kept \in [0..Len(s) -> Seq(A)] /\ kept[0] = <<>>
  BY FiltersStep
<1>1. 0 \in U
  BY <1>0
<1>2. ASSUME NEW n \in Nat, n \in U PROVE n + 1 \in U
  <2>. SUFFICES ASSUME n + 1 <= Len(s) PROVE Same(n + 1)
    OBVIOUS
  <2>1. n + 1 \in 1..Len(s) /\ (n + 1) - 1 = n /\ n \in 0..Len(s)
    OBVIOUS
  <2>2. kept[n + 1] = Append(kept[n], s[n + 1])
    <3>1. kept[n + 1] = IF s[n + 1] \in T THEN Append(kept[(n + 1) - 1], s[n + 1])
                        ELSE kept[(n + 1) - 1]
      BY <2>1, FiltersStep, Zenon
    <3>. QED
      BY <2>1, <3>1
  <2>3. Same(n) /\ kept[n] \in Seq(A)
    BY <1>0, <1>2, <2>1
  <2>. HIDE DEF kept
  <2>. QED
    BY <2>2, <2>3
<1>3. \A n \in Nat : n \in U
  <2>. HIDE DEF U
  <2>. QED
    BY <1>1, <1>2, Induction
<1>4. Len(s) \in Nat /\ Same(Len(s)) /\ kept[Len(s)] \in Seq(A)
  BY <1>0, <1>3
<1>. HIDE DEF kept
<1>5. kept[Len(s)] = s
  BY <1>4
<1>. QED
  BY <1>5 DEF Filter, kept
=============================================================================
