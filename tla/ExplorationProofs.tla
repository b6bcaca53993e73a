------------------------- MODULE ExplorationProofs --------------------------
(***************************************************************************)
(* Theorems about what an exploration reads of the code: the chunks of a   *)
(* file (RepoIngest), packs of files (RepoIngest), the tools, the triggers *)
(* (RlmTools), the questions and the audits (RlmQueries), for any texts,   *)
(* files, budgets and bounds.                                              *)
(***************************************************************************)
EXTENDS RepoIngest, RlmTools, RlmQueries, FiniteSetTheorems, SequenceTheorems, WellFoundedInduction, TLAPS
-----------------------------------------------------------------------------
(* Loops over numbers that stay in a set, and what their turns keep.       *)

NumbersLess == {p \in Nat \X Nat : p[1] < p[2]}

\* Numbers have a least one.
LEMMA LeastNumber ==
    ASSUME NEW S, S \subseteq Nat, S # {}
    PROVE  \E x \in S : \A y \in S : x <= y
<1>1. IsWellFoundedOn(NumbersLess, Nat)
  BY NatLessThanWellFounded, Zenon DEF OpToRel, NumbersLess
<1>2. PICK x \in S : \A y \in S : ~ (<<y, x>> \in NumbersLess)
  BY <1>1, WFMin, Zenon
<1>3. ASSUME NEW y \in S
      PROVE  x <= y
  <2>1. x \in Nat /\ y \in Nat
    OBVIOUS
  <2>2. ~ (<<y, x>> \in NumbersLess)
    BY <1>2
  <2> QED
    BY <2>1, <2>2 DEF NumbersLess
<1> QED
  BY <1>3

\* What holds of 0 and of the next of each holds of all.
LEMMA EveryNumber ==
    ASSUME NEW S, 0 \in S, \A n \in Nat : n \in S => n + 1 \in S
    PROVE  Nat \subseteq S
<1> SUFFICES ASSUME Nat \ S # {}
             PROVE  FALSE
  OBVIOUS
<1>1. Nat \ S \subseteq Nat
  OBVIOUS
<1>2. PICK x \in Nat \ S : \A y \in Nat \ S : x <= y
  BY <1>1, LeastNumber, Zenon
<1>3. x # 0
  OBVIOUS
<1>4. x - 1 \in Nat /\ x - 1 \in S
  BY <1>2, <1>3
<1> QED
  BY <1>2, <1>4

\* A loop over numbers that stays in a set: what each turn makes of the one before it.
StaysIn(X, N, step) == \A n \in 1..N, x \in X : step[<<n, x>>] \in X

LoopRuns(g, N, x0, step) == g[0] = x0 /\ \A n \in 1..N : g[n] = step[<<n, g[n - 1]>>]

\* A loop that stays in a set has a value at every turn.
LEMMA RecursionExists ==
    ASSUME NEW X, NEW N \in Nat, NEW x0 \in X, NEW step, StaysIn(X, N, step)
    PROVE  \E g \in [0..N -> X] : LoopRuns(g, N, x0, step)
<1> DEFINE S == {m \in Nat : m <= N => \E g \in [0..m -> X] : LoopRuns(g, m, x0, step)}
<1>1. 0 \in S
  <2>1. [n \in 0..0 |-> x0] \in [0..0 -> X] /\ LoopRuns([n \in 0..0 |-> x0], 0, x0, step)
    BY DEF LoopRuns
  <2> QED
    BY <2>1
<1>2. ASSUME NEW m \in Nat, m \in S
      PROVE  m + 1 \in S
  <2> SUFFICES ASSUME m + 1 <= N
               PROVE  \E g \in [0..(m + 1) -> X] : LoopRuns(g, m + 1, x0, step)
    OBVIOUS
  <2>1. PICK g \in [0..m -> X] : LoopRuns(g, m, x0, step)
    BY <1>2
  <2> DEFINE h == [n \in 0..(m + 1) |-> IF n = m + 1 THEN step[<<m + 1, g[m]>>] ELSE g[n]]
  <2>2. g \in [0..m -> X] /\ g[0] = x0 /\ \A n \in 1..m : g[n] = step[<<n, g[n - 1]>>]
    BY <2>1 DEF LoopRuns
  <2>3. \A n \in 0..(m + 1) : n = m + 1 \/ n \in 0..m
    OBVIOUS
  <2>4. m + 1 \in 1..N /\ m \in 0..m /\ g[m] \in X
    BY <2>2
  <2>5. step[<<m + 1, g[m]>>] \in X
    BY <2>4 DEF StaysIn
  <2>6. h \in [0..(m + 1) -> X]
    <3>1. \A n \in 0..(m + 1) : (IF n = m + 1 THEN step[<<m + 1, g[m]>>] ELSE g[n]) \in X
      BY <2>2, <2>3, <2>5
    <3> QED
      BY <3>1
  <2>7. h[0] = x0 /\ h[m + 1] = step[<<m + 1, g[m]>>] /\ \A n \in 0..m : h[n] = g[n]
    BY <2>2
  <2> HIDE DEF h
  <2>8. \A n \in 1..(m + 1) : h[n] = step[<<n, h[n - 1]>>]
    <3> SUFFICES ASSUME NEW n \in 1..(m + 1)
                 PROVE  h[n] = step[<<n, h[n - 1]>>]
      OBVIOUS
    <3>1. CASE n = m + 1
      BY <2>7, <3>1
    <3>2. CASE n \in 1..m
      <4>1. n - 1 \in 0..m /\ n \in 0..m
        BY <3>2
      <4> QED
        BY <2>2, <2>7, <3>2, <4>1
    <3> QED
      BY <3>1, <3>2
  <2>9. LoopRuns(h, m + 1, x0, step)
    BY <2>7, <2>8 DEF LoopRuns
  <2> QED
    BY <2>6, <2>9
<1>3. N \in S
  <2> HIDE DEF S
  <2> QED
    BY <1>1, <1>2, EveryNumber
<1> QED
  BY <1>3

LoopFollows(f, X, N, x0, step) == f[0] = x0 /\ \A n \in 1..N : f[n - 1] \in X => f[n] = step[<<n, f[n - 1]>>]

\* Whatever follows the turns of such a loop stays in the set.
LEMMA RecursionStays ==
    ASSUME NEW X, NEW N \in Nat, NEW x0 \in X, NEW step, StaysIn(X, N, step),
           NEW f, LoopFollows(f, X, N, x0, step)
    PROVE  \A n \in 0..N : f[n] \in X
<1> DEFINE S == {n \in Nat : n <= N => f[n] \in X}
<1>1. 0 \in S
  BY DEF LoopFollows
<1>2. ASSUME NEW n \in Nat, n \in S
      PROVE  n + 1 \in S
  <2> SUFFICES ASSUME n + 1 <= N
               PROVE  f[n + 1] \in X
    OBVIOUS
  <2>1. n + 1 \in 1..N /\ (n + 1) - 1 = n /\ f[n] \in X
    BY <1>2
  <2>2. f[n + 1] = step[<<n + 1, f[n]>>]
    BY <2>1 DEF LoopFollows
  <2> QED
    BY <2>1, <2>2 DEF StaysIn
<1>3. Nat \subseteq S
  <2> HIDE DEF S
  <2> QED
    BY <1>1, <1>2, EveryNumber
<1> QED
  BY <1>3

-----------------------------------------------------------------------------
(* What the filters and joins of sequences return.                         *)

\* What is kept of the first lines of a sequence, line by line.
Keeps(q, X, s, S) ==
    /\ q \in [0..Len(s) -> Seq(X)] /\ q[0] = <<>>
    /\ \A n \in 1..Len(s) : q[n] = IF s[n] \in S THEN Append(q[n - 1], s[n]) ELSE q[n - 1]

\* What is kept of a sequence is what its last line leaves of it.
LEMMA AmongRuns ==
    ASSUME NEW X, NEW s \in Seq(X), NEW S
    PROVE  \E q : Keeps(q, X, s, S) /\ Among(s, S) = q[Len(s)]
<1> DEFINE N == Len(s)
           More(n, x) == IF s[n] \in S THEN Append(x, s[n]) ELSE x
           Turned(k) == [n \in 0..N |-> IF n = 0 THEN <<>> ELSE IF s[n] \in S THEN Append(k[n - 1], s[n]) ELSE k[n - 1]]
           kept == CHOOSE k : k = Turned(k)
           step == [p \in (1..N) \X Seq(X) |-> More(p[1], p[2])]
<1>1. N \in Nat /\ <<>> \in Seq(X) /\ \A n \in 1..N : s[n] \in X
  OBVIOUS
<1>0. \A n \in 1..N, x \in Seq(X) : More(n, x) \in Seq(X)
  OBVIOUS
<1>a. \A n \in 1..N, x \in Seq(X) : step[<<n, x>>] = More(n, x)
  <2> HIDE DEF More
  <2> QED
    OBVIOUS
<1>b. StaysIn(Seq(X), N, step)
  <2> HIDE DEF step, More, N
  <2> QED
    BY <1>0, <1>a DEF StaysIn
<1>2. PICK g \in [0..N -> Seq(X)] : LoopRuns(g, N, <<>>, step)
  <2> HIDE DEF step, N
  <2> QED
    BY <1>1, <1>b, RecursionExists
<1>c. g[0] = <<>> /\ \A n \in 1..N : n - 1 \in 0..N /\ g[n] = More(n, g[n - 1])
  <2>1. g[0] = <<>> /\ \A n \in 1..N : g[n] = step[<<n, g[n - 1]>>]
    <3> HIDE DEF step, N
    <3> QED
      BY <1>2 DEF LoopRuns
  <2>2. \A n \in 1..N : n - 1 \in 0..N /\ g[n - 1] \in Seq(X)
    <3> HIDE DEF N
    <3> QED
      BY <1>1, <1>2
  <2> HIDE DEF step, More
  <2> QED
    BY <1>a, <2>1, <2>2
<1>3. g = Turned(g)
  <2>0. \A n \in 0..N : n = 0 \/ n \in 1..N
    BY <1>1
  <2>1. \A n \in 0..N : g[n] = IF n = 0 THEN <<>> ELSE IF s[n] \in S THEN Append(g[n - 1], s[n]) ELSE g[n - 1]
    <3> SUFFICES ASSUME NEW n \in 0..N
                 PROVE  g[n] = IF n = 0 THEN <<>> ELSE IF s[n] \in S THEN Append(g[n - 1], s[n]) ELSE g[n - 1]
      OBVIOUS
    <3>1. n # 0 => g[n] = More(n, g[n - 1])
      <4> HIDE DEF N, More
      <4> QED
        BY <2>0, <1>c
    <3> HIDE DEF N
    <3> QED
      BY <1>c, <3>1
  <2> HIDE DEF N
  <2> QED
    BY <1>2, <2>1
<1>4. kept = Turned(kept)
  <2>1. kept = CHOOSE k : k = Turned(k)
    OBVIOUS
  <2> HIDE DEF Turned, kept
  <2> QED
    BY <1>3, <2>1
<1>5. Among(s, S) = kept[N]
  BY Zenon DEF Among
<1>6. kept[0] = <<>> /\ \A n \in 1..N : kept[n] = More(n, kept[n - 1])
  <2>1. \A n \in 0..N : kept[n] = IF n = 0 THEN <<>> ELSE IF s[n] \in S THEN Append(kept[n - 1], s[n]) ELSE kept[n - 1]
    <3> HIDE DEF kept
    <3> QED
      BY <1>1, <1>4
  <2> HIDE DEF kept
  <2> QED
    BY <1>1, <2>1
<1> DEFINE Same == {n \in Nat : n <= N => kept[n] = g[n]}
<1>7. Nat \subseteq Same
  <2>1. 0 \in Same
    <3> HIDE DEF kept
    <3> QED
      BY <1>6, <1>c
  <2>2. ASSUME NEW n \in Nat, n \in Same
        PROVE  n + 1 \in Same
    <3> SUFFICES ASSUME n + 1 <= N
                 PROVE  kept[n + 1] = g[n + 1]
      OBVIOUS
    <3>1. n + 1 \in 1..N /\ (n + 1) - 1 = n /\ kept[n] = g[n]
      <4> HIDE DEF kept
      <4> QED
        BY <1>1, <2>2
    <3>2. kept[n + 1] = More(n + 1, kept[n]) /\ g[n + 1] = More(n + 1, g[n])
      <4> HIDE DEF kept, More
      <4> QED
        BY <1>6, <1>c, <3>1
    <3> HIDE DEF kept, More
    <3> QED
      BY <3>1, <3>2
  <2> HIDE DEF Same
  <2> QED
    BY <2>1, <2>2, EveryNumber
<1>8. kept[N] = g[N]
  <2> HIDE DEF kept
  <2> QED
    BY <1>1, <1>7
<1>9. Keeps(g, X, s, S)
  BY <1>2, <1>c DEF Keeps
<1> QED
  <2> HIDE DEF kept
  <2> QED
    BY <1>5, <1>8, <1>9

\* What is among the kept is of the set, all of the set is, and nothing twice that was not.
LEMMA AmongIs ==
    ASSUME NEW X, NEW s \in Seq(X), NEW S
    PROVE  /\ Among(s, S) \in Seq(X)
           /\ \A k \in 1..Len(Among(s, S)) : Among(s, S)[k] \in S /\ \E i \in 1..Len(s) : Among(s, S)[k] = s[i]
           /\ \A i \in 1..Len(s) : s[i] \in S => \E k \in 1..Len(Among(s, S)) : Among(s, S)[k] = s[i]
           /\ IsInjective(s) => IsInjective(Among(s, S))
<1>1. PICK q : Keeps(q, X, s, S) /\ Among(s, S) = q[Len(s)]
  BY AmongRuns
<1> DEFINE N == Len(s)
           Of(n) == /\ \A k \in 1..Len(q[n]) : q[n][k] \in S /\ \E i \in 1..n : q[n][k] = s[i]
                    /\ \A i \in 1..n : s[i] \in S => \E k \in 1..Len(q[n]) : q[n][k] = s[i]
                    /\ IsInjective(s) => \A j, k \in 1..Len(q[n]) : q[n][j] = q[n][k] => j = k
           Good == {n \in Nat : n <= N => Of(n)}
<1>2. N \in Nat /\ q \in [0..N -> Seq(X)] /\ q[0] = <<>>
      /\ \A n \in 1..N : q[n] = IF s[n] \in S THEN Append(q[n - 1], s[n]) ELSE q[n - 1]
  BY <1>1 DEF Keeps
<1>3. 0 \in Good
  BY <1>2
<1>4. ASSUME NEW n \in Nat, n \in Good
      PROVE  n + 1 \in Good
  <2> SUFFICES ASSUME n + 1 <= N
               PROVE  Of(n + 1)
    OBVIOUS
  <2>0. n <= N /\ n + 1 \in 1..N /\ (n + 1) - 1 = n /\ n \in 0..N
    BY <1>2
  <2>1. n + 1 \in 1..N /\ (n + 1) - 1 = n /\ Of(n) /\ n \in 0..N
    <3>1. n <= N => Of(n)
      <4> HIDE DEF Of, N
      <4> QED
        BY <1>4
    <3> HIDE DEF Of, N
    <3> QED
      BY <2>0, <3>1
  <2>2. q[n] \in Seq(X) /\ Len(q[n]) \in Nat /\ s[n + 1] \in X
    <3>1. q[n] \in Seq(X)
      <4> HIDE DEF Of, N
      <4> QED
        BY <1>2, <2>1
    <3>2. s[n + 1] \in X
      BY <2>1
    <3> QED
      BY <3>1, <3>2
  <2>3. q[n + 1] = IF s[n + 1] \in S THEN Append(q[n], s[n + 1]) ELSE q[n]
    BY <1>2, <2>1
  <2>4. CASE s[n + 1] \notin S
    <3>1. q[n + 1] = q[n]
      BY <2>3, <2>4
    <3>2. \A i \in 1..(n + 1) : s[i] \in S => i \in 1..n
      BY <2>4
    <3>3. \A i \in 1..n : i \in 1..(n + 1)
      OBVIOUS
    <3> QED
      BY <2>1, <3>1, <3>2, <3>3
  <2>5. CASE s[n + 1] \in S
    <3>1. q[n + 1] = Append(q[n], s[n + 1])
      BY <2>3, <2>5
    <3>2. Len(q[n + 1]) = Len(q[n]) + 1 /\ q[n + 1][Len(q[n]) + 1] = s[n + 1]
          /\ \A k \in 1..Len(q[n]) : q[n + 1][k] = q[n][k]
      BY <2>2, <3>1
    <3>3. \A k \in 1..Len(q[n + 1]) : k \in 1..Len(q[n]) \/ k = Len(q[n]) + 1
      BY <2>2, <3>2
    <3>4. \A k \in 1..Len(q[n]) : k \in 1..Len(q[n + 1])
      BY <2>2, <3>2
    <3>5. Len(q[n]) + 1 \in 1..Len(q[n + 1])
      BY <2>2, <3>2
    <3>6. \A k \in 1..Len(q[n + 1]) : q[n + 1][k] \in S /\ \E i \in 1..(n + 1) : q[n + 1][k] = s[i]
      <4> SUFFICES ASSUME NEW k \in 1..Len(q[n + 1])
                   PROVE  q[n + 1][k] \in S /\ \E i \in 1..(n + 1) : q[n + 1][k] = s[i]
        OBVIOUS
      <4>1. CASE k \in 1..Len(q[n])
        <5>1. q[n][k] \in S /\ \E i \in 1..n : q[n][k] = s[i]
          BY <2>1, <4>1
        <5> QED
          BY <3>2, <4>1, <5>1
      <4>2. CASE k = Len(q[n]) + 1
        <5>1. n + 1 \in 1..(n + 1)
          OBVIOUS
        <5> QED
          BY <2>5, <3>2, <4>2, <5>1
      <4> QED
        BY <3>3, <4>1, <4>2
    <3>7. \A i \in 1..(n + 1) : s[i] \in S => \E k \in 1..Len(q[n + 1]) : q[n + 1][k] = s[i]
      <4> SUFFICES ASSUME NEW i \in 1..(n + 1), s[i] \in S
                   PROVE  \E k \in 1..Len(q[n + 1]) : q[n + 1][k] = s[i]
        OBVIOUS
      <4>1. CASE i \in 1..n
        <5>1. PICK k \in 1..Len(q[n]) : q[n][k] = s[i]
          BY <2>1, <4>1
        <5> QED
          BY <3>2, <3>4, <5>1
      <4>2. CASE i = n + 1
        BY <3>2, <3>5, <4>2
      <4> QED
        BY <4>1, <4>2
    <3>8. IsInjective(s) => \A j, k \in 1..Len(q[n + 1]) : q[n + 1][j] = q[n + 1][k] => j = k
      <4> SUFFICES ASSUME IsInjective(s), NEW j \in 1..Len(q[n + 1]), NEW k \in 1..Len(q[n + 1]),
                          q[n + 1][j] = q[n + 1][k]
                   PROVE  j = k
        OBVIOUS
      <4>1. \A i \in 1..Len(q[n]) : q[n][i] # s[n + 1]
        <5> SUFFICES ASSUME NEW i \in 1..Len(q[n]), q[n][i] = s[n + 1]
                     PROVE  FALSE
          OBVIOUS
        <5>1. PICK m \in 1..n : q[n][i] = s[m]
          BY <2>1
        <5>2. m \in DOMAIN s /\ n + 1 \in DOMAIN s /\ m # n + 1
          BY <2>1
        <5> QED
          BY <5>1, <5>2 DEF IsInjective
      <4>2. CASE j \in 1..Len(q[n]) /\ k \in 1..Len(q[n])
        BY <2>1, <3>2, <4>2
      <4>3. CASE j = Len(q[n]) + 1 \/ k = Len(q[n]) + 1
        BY <3>2, <3>3, <4>1, <4>3
      <4> QED
        BY <3>3, <4>2, <4>3
    <3> QED
      BY <3>6, <3>7, <3>8
  <2> QED
    BY <2>4, <2>5
<1>5. N \in Good
  <2> HIDE DEF Good
  <2> QED
    BY <1>2, <1>3, <1>4, EveryNumber
<1>6. Of(N) /\ q[N] \in Seq(X)
  BY <1>2, <1>5
<1>7. IsInjective(s) => IsInjective(q[N])
  BY <1>6 DEF IsInjective
<1> QED
  BY <1>1, <1>6, <1>7

\* What the first of several sequences make, joined one after the other.
Joins(q, X, parts) ==
    /\ q \in [0..Len(parts) -> Seq(X)] /\ q[0] = <<>>
    /\ \A n \in 1..Len(parts) : q[n] = q[n - 1] \o parts[n]

\* What is joined is what the last of the parts makes of the others.
LEMMA FlattenRuns ==
    ASSUME NEW X, NEW parts \in Seq(Seq(X))
    PROVE  \E q : Joins(q, X, parts) /\ FlattenSeq(parts) = q[Len(parts)]
<1> DEFINE N == Len(parts)
           More(n, x) == x \o parts[n]
           Turned(k) == [i \in 1..N |-> IF i = 1 THEN parts[i] ELSE k[i - 1] \o parts[i]]
           flatten == CHOOSE k : k = Turned(k)
           step == [p \in (1..N) \X Seq(X) |-> More(p[1], p[2])]
<1>1. N \in Nat /\ <<>> \in Seq(X) /\ \A n \in 1..N : parts[n] \in Seq(X)
  OBVIOUS
<1>0. \A n \in 1..N, x \in Seq(X) : More(n, x) \in Seq(X)
  <2> SUFFICES ASSUME NEW n \in 1..N, NEW x \in Seq(X)
               PROVE  x \o parts[n] \in Seq(X)
    OBVIOUS
  <2>1. parts[n] \in Seq(X)
    BY <1>1
  <2> QED
    BY <2>1
<1>a. \A n \in 1..N, x \in Seq(X) : step[<<n, x>>] = More(n, x)
  <2> HIDE DEF More
  <2> QED
    OBVIOUS
<1>b. StaysIn(Seq(X), N, step)
  <2> HIDE DEF step, More, N
  <2> QED
    BY <1>0, <1>a DEF StaysIn
<1>2. PICK g \in [0..N -> Seq(X)] : LoopRuns(g, N, <<>>, step)
  <2> HIDE DEF step, N
  <2> QED
    BY <1>1, <1>b, RecursionExists
<1>c. g[0] = <<>> /\ \A n \in 1..N : n - 1 \in 0..N /\ g[n] = More(n, g[n - 1])
  <2>1. g[0] = <<>> /\ \A n \in 1..N : g[n] = step[<<n, g[n - 1]>>]
    <3> HIDE DEF step, N
    <3> QED
      BY <1>2 DEF LoopRuns
  <2>2. \A n \in 1..N : n - 1 \in 0..N /\ g[n - 1] \in Seq(X)
    <3> HIDE DEF N
    <3> QED
      BY <1>1, <1>2
  <2> HIDE DEF step, More
  <2> QED
    BY <1>a, <2>1, <2>2
<1>d. N > 0 => g[1] = parts[1]
  <2> SUFFICES ASSUME N > 0
               PROVE  g[1] = parts[1]
    OBVIOUS
  <2>1. 1 \in 1..N /\ 1 - 1 = 0
    BY <1>1
  <2>2. g[1] = More(1, g[0]) /\ g[0] = <<>> /\ parts[1] \in Seq(X)
    <3> HIDE DEF N, More
    <3> QED
      BY <1>1, <1>c, <2>1
  <2>3. <<>> \o parts[1] = parts[1]
    BY <2>2, ConcatEmptySeq
  <2> QED
    BY <2>2, <2>3
<1> DEFINE h == [i \in 1..N |-> g[i]]
<1>3. h = Turned(h)
  <2>1. \A i \in 1..N : g[i] = IF i = 1 THEN parts[i] ELSE h[i - 1] \o parts[i]
    <3> SUFFICES ASSUME NEW i \in 1..N
                 PROVE  g[i] = IF i = 1 THEN parts[i] ELSE h[i - 1] \o parts[i]
      OBVIOUS
    <3>0. N > 0
      BY <1>1
    <3>1. i = 1 => g[i] = parts[i]
      BY <1>d, <3>0
    <3>2. ASSUME i # 1
          PROVE  g[i] = h[i - 1] \o parts[i]
      <4>1. i - 1 \in 1..N
        BY <1>1, <3>2
      <4>2. h[i - 1] = g[i - 1]
        BY <4>1
      <4>3. g[i] = More(i, g[i - 1])
        <5> HIDE DEF N, More
        <5> QED
          BY <1>c
      <4> QED
        BY <4>2, <4>3
    <3> QED
      BY <3>1, <3>2
  <2> HIDE DEF N
  <2> QED
    BY <2>1
<1>4. flatten = Turned(flatten)
  <2>1. flatten = CHOOSE k : k = Turned(k)
    OBVIOUS
  <2> HIDE DEF Turned, flatten, h
  <2> QED
    BY <1>3, <2>1
<1>5. FlattenSeq(parts) = IF N = 0 THEN parts ELSE flatten[N]
  BY Zenon DEF FlattenSeq
<1>6. \A n \in 1..N : flatten[n] = IF n = 1 THEN parts[n] ELSE flatten[n - 1] \o parts[n]
  <2> HIDE DEF flatten
  <2> QED
    BY <1>1, <1>4
<1> DEFINE Same == {n \in Nat : n \in 1..N => flatten[n] = g[n]}
<1>7. Nat \subseteq Same
  <2>1. 0 \in Same
    OBVIOUS
  <2>2. ASSUME NEW n \in Nat, n \in Same
        PROVE  n + 1 \in Same
    <3> SUFFICES ASSUME n + 1 <= N
                 PROVE  flatten[n + 1] = g[n + 1]
      <4> HIDE DEF flatten
      <4> QED
        OBVIOUS
    <3>1. n + 1 \in 1..N /\ (n + 1) - 1 = n /\ (n # 0 => flatten[n] = g[n])
      <4> HIDE DEF flatten
      <4> QED
        BY <1>1, <2>2
    <3>2. CASE n = 0
      <4>1. 1 \in 1..N /\ N > 0
        BY <1>1, <3>1, <3>2
      <4> HIDE DEF flatten
      <4> QED
        BY <1>6, <1>d, <3>2, <4>1
    <3>3. CASE n # 0
      <4>1. flatten[n + 1] = flatten[n] \o parts[n + 1]
        <5>1. n + 1 # 1
          BY <3>3
        <5> HIDE DEF flatten
        <5> QED
          BY <1>6, <3>1, <5>1
      <4>2. g[n + 1] = More(n + 1, g[n])
        <5> HIDE DEF flatten, More
        <5> QED
          BY <1>c, <3>1
      <4> HIDE DEF flatten
      <4> QED
        BY <3>1, <3>3, <4>1, <4>2
    <3> QED
      BY <3>2, <3>3
  <2> HIDE DEF Same
  <2> QED
    BY <2>1, <2>2, EveryNumber
<1>8. FlattenSeq(parts) = g[N]
  <2>1. CASE N = 0
    <3>1. parts = <<>>
      BY <2>1
    <3> HIDE DEF flatten
    <3> QED
      BY <1>5, <1>c, <2>1, <3>1
  <2>2. CASE N # 0
    <3>1. N \in 1..N
      BY <1>1, <2>2
    <3>2. flatten[N] = g[N]
      <4> HIDE DEF flatten
      <4> QED
        BY <1>1, <1>7, <3>1
    <3> HIDE DEF flatten
    <3> QED
      BY <1>5, <2>2, <3>2
  <2> QED
    BY <2>1, <2>2
<1>9. Joins(g, X, parts)
  BY <1>2, <1>c DEF Joins
<1> QED
  <2> HIDE DEF flatten
  <2> QED
    BY <1>8, <1>9

\* Where each of several sequences begins in what they make.
Begins(off, parts) ==
    /\ off \in [1..(Len(parts) + 1) -> Nat] /\ off[1] = 0
    /\ \A n \in 1..Len(parts) : off[n + 1] = off[n] + Len(parts[n])

Placed0(flat, off, parts) ==
    /\ \A n \in 1..Len(parts) : \A k \in 1..Len(parts[n]) :
           off[n] + k \in 1..Len(flat) /\ flat[off[n] + k] = parts[n][k]
    /\ \A a \in 1..Len(flat) : \E n \in 1..Len(parts) : \E k \in 1..Len(parts[n]) : a = off[n] + k

\* Each part of what is joined has its place there, and every place is of a part.
LEMMA FlattenIs ==
    ASSUME NEW X, NEW parts \in Seq(Seq(X))
    PROVE  /\ FlattenSeq(parts) \in Seq(X)
           /\ \E off : /\ Begins(off, parts) /\ Placed0(FlattenSeq(parts), off, parts)
                       /\ Len(FlattenSeq(parts)) = off[Len(parts) + 1]
<1>1. PICK q : Joins(q, X, parts) /\ FlattenSeq(parts) = q[Len(parts)]
  BY FlattenRuns
<1> DEFINE N == Len(parts)
           off == [n \in 1..(N + 1) |-> Len(q[n - 1])]
<1>2. N \in Nat /\ q \in [0..N -> Seq(X)] /\ q[0] = <<>> /\ \A n \in 1..N : q[n] = q[n - 1] \o parts[n]
  BY <1>1, SMTT(30) DEF Joins
<1>3. \A n \in 1..N : n - 1 \in 0..N /\ n \in 0..N /\ parts[n] \in Seq(X) /\ q[n - 1] \in Seq(X) /\ q[n] \in Seq(X)
  <2> SUFFICES ASSUME NEW n \in 1..N
               PROVE  n - 1 \in 0..N /\ n \in 0..N /\ parts[n] \in Seq(X) /\ q[n - 1] \in Seq(X) /\ q[n] \in Seq(X)
    OBVIOUS
  <2>1. n - 1 \in 0..N /\ n \in 0..N
    BY <1>2
  <2>2. parts[n] \in Seq(X)
    OBVIOUS
  <2> HIDE DEF N
  <2> QED
    BY <1>2, <2>1, <2>2
<1>4. \A n \in 1..N : Len(q[n]) = Len(q[n - 1]) + Len(parts[n])
  <2> SUFFICES ASSUME NEW n \in 1..N
               PROVE  Len(q[n]) = Len(q[n - 1]) + Len(parts[n])
    OBVIOUS
  <2>1. q[n - 1] \in Seq(X) /\ parts[n] \in Seq(X) /\ q[n] = q[n - 1] \o parts[n]
    BY <1>2, <1>3
  <2> QED
    BY <2>1, ConcatProperties
<1>5. Begins(off, parts)
  <2>1. \A n \in 1..(N + 1) : n - 1 \in 0..N /\ Len(q[n - 1]) \in Nat
    <3> SUFFICES ASSUME NEW n \in 1..(N + 1)
                 PROVE  n - 1 \in 0..N /\ Len(q[n - 1]) \in Nat
      OBVIOUS
    <3>1. n - 1 \in 0..N
      BY <1>2
    <3>2. q[n - 1] \in Seq(X)
      BY <1>2, <3>1
    <3> QED
      BY <3>1, <3>2
  <2>2. off \in [1..(N + 1) -> Nat]
    BY <2>1
  <2>3. 1 \in 1..(N + 1) /\ off[1] = Len(q[0])
    BY <1>2
  <2>4. \A n \in 1..N : n \in 1..(N + 1) /\ n + 1 \in 1..(N + 1) /\ off[n] = Len(q[n - 1]) /\ off[n + 1] = Len(q[n])
    BY <1>2
  <2>5. \A n \in 1..N : off[n + 1] = off[n] + Len(parts[n])
    <3> HIDE DEF off
    <3> QED
      BY <1>4, <2>4
  <2>6. off[1] = 0
    BY <1>2, <2>3
  <2> HIDE DEF off
  <2> QED
    BY <2>2, <2>5, <2>6 DEF Begins
<1>6. \A n \in 1..N : off[n] = Len(q[n - 1])
  BY <1>2
<1>7. Len(q[N]) = off[N + 1]
  <2>1. N + 1 \in 1..(N + 1) /\ (N + 1) - 1 = N
    BY <1>2
  <2> QED
    BY <2>1
<1> HIDE DEF off
<1> DEFINE Of(m) == /\ \A n \in 1..m : \A k \in 1..Len(parts[n]) : off[n] + k \in 1..Len(q[m]) /\ q[m][off[n] + k] = parts[n][k]
                    /\ \A a \in 1..Len(q[m]) : \E n \in 1..m : \E k \in 1..Len(parts[n]) : a = off[n] + k
           Good == {m \in Nat : m <= N => Of(m)}
<1>8. 0 \in Good
  BY <1>2
<1>9. ASSUME NEW m \in Nat, m \in Good
      PROVE  m + 1 \in Good
  <2> SUFFICES ASSUME m + 1 <= N
               PROVE  Of(m + 1)
    OBVIOUS
  <2>1. m + 1 \in 1..N /\ (m + 1) - 1 = m /\ m <= N
    BY <1>2
  <2>2. Of(m)
    <3>1. m <= N => Of(m)
      <4> HIDE DEF Of, N
      <4> QED
        BY <1>9
    <3> HIDE DEF Of, N
    <3> QED
      BY <2>1, <3>1
  <2> DEFINE p == parts[m + 1]
  <2>3. q[m] \in Seq(X) /\ p \in Seq(X) /\ q[m + 1] = q[m] \o p /\ off[m + 1] = Len(q[m])
    <3> HIDE DEF N
    <3> QED
      BY <1>2, <1>3, <1>6, <2>1
  <2> HIDE DEF p
  <2>4. /\ Len(q[m]) \in Nat /\ Len(p) \in Nat /\ Len(q[m + 1]) = Len(q[m]) + Len(p)
        /\ \A i \in 1..(Len(q[m]) + Len(p)) : q[m + 1][i] = IF i <= Len(q[m]) THEN q[m][i] ELSE p[i - Len(q[m])]
    BY <2>3, ConcatProperties
  <2>5. \A n \in 1..(m + 1) : n \in 1..m \/ n = m + 1
    OBVIOUS
  <2>6. \A n \in 1..m : n \in 1..(m + 1)
    OBVIOUS
  <2>7. \A i \in 1..Len(q[m]) : i \in 1..Len(q[m + 1]) /\ q[m + 1][i] = q[m][i]
    BY <2>4, SMTT(30)
  <2>8. \A k \in 1..Len(p) : Len(q[m]) + k \in 1..Len(q[m + 1]) /\ q[m + 1][Len(q[m]) + k] = p[k]
    <3> SUFFICES ASSUME NEW k \in 1..Len(p)
                 PROVE  Len(q[m]) + k \in 1..Len(q[m + 1]) /\ q[m + 1][Len(q[m]) + k] = p[k]
      OBVIOUS
    <3>1. Len(q[m]) + k \in 1..(Len(q[m]) + Len(p)) /\ ~ (Len(q[m]) + k <= Len(q[m])) /\ (Len(q[m]) + k) - Len(q[m]) = k
      BY <2>4
    <3>2. q[m + 1][Len(q[m]) + k] = p[(Len(q[m]) + k) - Len(q[m])]
      BY <2>4, <3>1
    <3> QED
      BY <2>4, <3>1, <3>2
  <2>9. ASSUME NEW n \in 1..(m + 1), NEW k \in 1..Len(parts[n])
        PROVE  off[n] + k \in 1..Len(q[m + 1]) /\ q[m + 1][off[n] + k] = parts[n][k]
    <3>1. CASE n \in 1..m
      <4>1. off[n] + k \in 1..Len(q[m]) /\ q[m][off[n] + k] = parts[n][k]
        BY <2>2, <3>1
      <4> QED
        BY <2>7, <4>1
    <3>2. CASE n = m + 1
      BY <2>3, <2>8, <3>2 DEF p
    <3> QED
      BY <2>5, <3>1, <3>2
  <2>10. ASSUME NEW a \in 1..Len(q[m + 1])
         PROVE  \E n \in 1..(m + 1) : \E k \in 1..Len(parts[n]) : a = off[n] + k
    <3>1. CASE a \in 1..Len(q[m])
      <4>1. PICK n \in 1..m : \E k \in 1..Len(parts[n]) : a = off[n] + k
        BY <2>2, <3>1
      <4> QED
        BY <2>6, <4>1
    <3>2. CASE a \notin 1..Len(q[m])
      <4>0. a \in Nat /\ a <= Len(q[m]) + Len(p) /\ a > Len(q[m])
        BY <2>4, <3>2
      <4>1. a - Len(q[m]) \in 1..Len(p) /\ a = Len(q[m]) + (a - Len(q[m]))
        BY <2>4, <4>0
      <4>2. m + 1 \in 1..(m + 1)
        OBVIOUS
      <4> QED
        BY <2>3, <4>1, <4>2 DEF p
    <3> QED
      BY <3>1, <3>2
  <2> QED
    BY <2>9, <2>10
<1>10. N \in Good
  <2> HIDE DEF Good
  <2> QED
    BY <1>2, <1>8, <1>9, EveryNumber
<1>11. Of(N) /\ q[N] \in Seq(X) /\ FlattenSeq(parts) = q[N]
  BY <1>1, <1>2, <1>10
<1>12. Placed0(FlattenSeq(parts), off, parts)
  BY <1>11 DEF Placed0
<1>13. Len(FlattenSeq(parts)) = off[Len(parts) + 1]
  BY <1>7, <1>11
<1> QED
  BY <1>5, <1>11, <1>12, <1>13

\* Two places of what is joined are two places of its parts.
PlacesOf(flat, parts, a, b) ==
    \E m, n \in 1..Len(parts) : \E j \in 1..Len(parts[m]) : \E k \in 1..Len(parts[n]) :
        /\ flat[a] = parts[m][j] /\ flat[b] = parts[n][k]
        /\ m # n \/ j # k

\* Two places of what is joined are two places of the parts.
LEMMA FlattenApart ==
    ASSUME NEW X, NEW parts \in Seq(Seq(X)), NEW a \in 1..Len(FlattenSeq(parts)), NEW b \in 1..Len(FlattenSeq(parts)),
           a # b
    PROVE  PlacesOf(FlattenSeq(parts), parts, a, b)
<1>1. PICK off : Begins(off, parts) /\ Placed0(FlattenSeq(parts), off, parts)
  BY FlattenIs
<1>2. PICK m \in 1..Len(parts) : \E j \in 1..Len(parts[m]) : a = off[m] + j
  BY <1>1 DEF Placed0
<1>3. PICK j \in 1..Len(parts[m]) : a = off[m] + j
  BY <1>2
<1>4. PICK n \in 1..Len(parts) : \E k \in 1..Len(parts[n]) : b = off[n] + k
  BY <1>1 DEF Placed0
<1>5. PICK k \in 1..Len(parts[n]) : b = off[n] + k
  BY <1>4
<1>6. FlattenSeq(parts)[a] = parts[m][j] /\ FlattenSeq(parts)[b] = parts[n][k]
  BY <1>1, <1>3, <1>5 DEF Placed0
<1>7. m # n \/ j # k
  BY <1>3, <1>5
<1> QED
  BY <1>6, <1>7, SMTT(30) DEF PlacesOf

\* What is joined is of a part, and what is of a part is joined.
LEMMA FlattenHas ==
    ASSUME NEW X, NEW parts \in Seq(Seq(X))
    PROVE  /\ FlattenSeq(parts) \in Seq(X)
           /\ \A a \in 1..Len(FlattenSeq(parts)) :
                  \E n \in 1..Len(parts) : \E k \in 1..Len(parts[n]) : FlattenSeq(parts)[a] = parts[n][k]
           /\ \A n \in 1..Len(parts) : \A k \in 1..Len(parts[n]) :
                  \E a \in 1..Len(FlattenSeq(parts)) : FlattenSeq(parts)[a] = parts[n][k]
<1>1. PICK off : Begins(off, parts) /\ Placed0(FlattenSeq(parts), off, parts)
  BY FlattenIs
<1>2. ASSUME NEW a \in 1..Len(FlattenSeq(parts))
      PROVE  \E n \in 1..Len(parts) : \E k \in 1..Len(parts[n]) : FlattenSeq(parts)[a] = parts[n][k]
  <2>1. PICK m \in 1..Len(parts) : \E j \in 1..Len(parts[m]) : a = off[m] + j
    BY <1>1 DEF Placed0
  <2>2. PICK j \in 1..Len(parts[m]) : a = off[m] + j
    BY <2>1
  <2> QED
    BY <1>1, <2>2 DEF Placed0
<1>3. ASSUME NEW n \in 1..Len(parts), NEW k \in 1..Len(parts[n])
      PROVE  \E a \in 1..Len(FlattenSeq(parts)) : FlattenSeq(parts)[a] = parts[n][k]
  BY <1>1 DEF Placed0
<1>4. FlattenSeq(parts) \in Seq(X)
  BY FlattenIs
<1> QED
  BY <1>2, <1>3, <1>4

-----------------------------------------------------------------------------
(* A file is cut up (workers/repo_ingestor): the loop over its lines.      *)

\* The characters of lines are a number.
LEMMA SizeIsNumber ==
    ASSUME NEW lines \in Seq(Nat), NEW content, \A i \in 1..Len(lines) : content[lines[i]] \in Nat
    PROVE  SizeOf(lines, content) \in Nat
<1> DEFINE N == Len(lines)
           Adds(f) == [i \in 0..N |-> IF i = 0 THEN 0 ELSE f[i - 1] + content[lines[i]]]
           size == CHOOSE f : f = Adds(f)
           step == [p \in (1..N) \X Nat |-> p[2] + content[lines[p[1]]]]
<1>1. N \in Nat /\ 0 \in Nat /\ \A n \in 1..N : content[lines[n]] \in Nat
  OBVIOUS
<1>a. \A n \in 1..N, x \in Nat : step[<<n, x>>] = x + content[lines[n]]
  OBVIOUS
<1>b. StaysIn(Nat, N, step)
  <2> SUFFICES ASSUME NEW n \in 1..N, NEW x \in Nat
               PROVE  step[<<n, x>>] \in Nat
    BY DEF StaysIn
  <2>1. step[<<n, x>>] = x + content[lines[n]] /\ content[lines[n]] \in Nat
    BY <1>1, <1>a
  <2> HIDE DEF step
  <2> QED
    BY <2>1
<1>2. PICK g \in [0..N -> Nat] : LoopRuns(g, N, 0, step)
  <2> HIDE DEF step, N
  <2> QED
    BY <1>1, <1>b, RecursionExists
<1>3. g = Adds(g)
  <2>1. \A n \in 1..N : n - 1 \in 0..N /\ g[n] = g[n - 1] + content[lines[n]]
    <3> SUFFICES ASSUME NEW n \in 1..N
                 PROVE  n - 1 \in 0..N /\ g[n] = g[n - 1] + content[lines[n]]
      OBVIOUS
    <3>1. n - 1 \in 0..N /\ g[n - 1] \in Nat
      <4> HIDE DEF N
      <4> QED
        BY <1>1, <1>2
    <3>2. g[n] = step[<<n, g[n - 1]>>]
      BY <1>2 DEF LoopRuns
    <3> HIDE DEF step
    <3> QED
      BY <1>a, <3>1, <3>2
  <2> HIDE DEF step
  <2>2. \A n \in 0..N : g[n] = IF n = 0 THEN 0 ELSE g[n - 1] + content[lines[n]]
    BY <1>1, <1>2, <2>1 DEF LoopRuns
  <2> QED
    BY <2>2
<1>4. size = Adds(size)
  <2>1. size = CHOOSE f : f = Adds(f)
    OBVIOUS
  <2> HIDE DEF Adds, size
  <2> QED
    BY <1>3, <2>1, Zenon
<1>5. SizeOf(lines, content) = size[N]
  BY DEF SizeOf
<1> HIDE DEF size
<1>6. size[0] = 0 /\ \A n \in 1..N : size[n] = size[n - 1] + content[lines[n]]
  <2>1. \A n \in 0..N : Adds(size)[n] = IF n = 0 THEN 0 ELSE size[n - 1] + content[lines[n]]
    OBVIOUS
  <2>2. \A n \in 0..N : size[n] = IF n = 0 THEN 0 ELSE size[n - 1] + content[lines[n]]
    <3> HIDE DEF Adds
    <3> QED
      BY <1>4, <2>1, Zenon
  <2>3. 0 \in 0..N /\ \A n \in 1..N : n \in 0..N /\ n # 0
    BY <1>1
  <2> QED
    BY <2>2, <2>3
<1>7. LoopFollows(size, Nat, N, 0, step)
  <2> HIDE DEF N, step
  <2> QED
    BY <1>1, <1>a, <1>6 DEF LoopFollows
<1>8. \A n \in 0..N : size[n] \in Nat
  <2> HIDE DEF step, N
  <2> QED
    BY <1>1, <1>b, <1>7, RecursionStays
<1> QED
  BY <1>1, <1>5, <1>8

-----------------------------------------------------------------------------

\* The lines of a chunk are of the first n of the content, and each is next to the one before.
Chunk(c, n) == c \in Seq(1..n) /\ c # <<>> /\ \A i \in 1..Len(c) : c[i] = c[1] + i - 1

\* Chunks for the first n lines of a content: none has a gap, nor is there one between two.
Covers(chunks, n) ==
    /\ chunks \in Seq(Seq(Nat)) /\ Len(chunks) \in 1..n /\ \A k \in 1..Len(chunks) : Chunk(chunks[k], n)
    /\ chunks[1][1] = 1 /\ chunks[Len(chunks)][Len(chunks[Len(chunks)])] = n
    /\ \A k \in 2..Len(chunks) : chunks[k][1] <= chunks[k - 1][Len(chunks[k - 1])] + 1

\* A chunk that fits, or has its overlap and a line.
Bounded(c, content) ==
    overlap # 0 => Len(c) <= overlap + 1 \/ ~(SizeOf(c, content) - 1 > MaxChunkSize)

\* The overlap is the end of the chunk, and there is some.
LEMMA TailIsEnd ==
    ASSUME NEW S, NEW c \in Seq(S), c # <<>>, overlap \in Nat
    PROVE  /\ Tail0(c) \in Seq(S) /\ Len(Tail0(c)) \in 1..Len(c)
           /\ \A i \in 1..Len(Tail0(c)) : Tail0(c)[i] = c[i + Len(c) - Len(Tail0(c))]
           /\ overlap # 0 => Len(Tail0(c)) <= overlap
<1>1. Len(c) \in Nat \ {0}
  OBVIOUS
<1>2. CASE overlap = 0 \/ overlap >= Len(c)
  <2>1. Tail0(c) = c
    BY <1>2 DEF Tail0
  <2> QED
    BY <1>1, <1>2, <2>1
<1>3. CASE ~(overlap = 0 \/ overlap >= Len(c))
  <2>1. Tail0(c) = SubSeq(c, Len(c) - overlap + 1, Len(c))
    BY <1>3 DEF Tail0
  <2>2. Len(c) - overlap + 1 \in 1..Len(c)
    BY <1>1, <1>3
  <2> QED
    BY <1>1, <1>3, <2>1, <2>2
<1> QED
  BY <1>2, <1>3

\* Lines the content has have a size.
LEMMA ChunkHasSize ==
    ASSUME NEW n \in Nat, NEW c \in Seq(1..n), NEW content \in Seq(Nat), n <= Len(content)
    PROVE  SizeOf(c, content) \in Nat
<1>1. c \in Seq(Nat)
  OBVIOUS
<1>2. \A i \in 1..Len(c) : content[c[i]] \in Nat
  <2> SUFFICES ASSUME NEW i \in 1..Len(c)
               PROVE  content[c[i]] \in Nat
    OBVIOUS
  <2>1. c[i] \in 1..n
    OBVIOUS
  <2> QED
    BY <2>1, SMTT(30)
<1> QED
  BY <1>1, <1>2, SizeIsNumber

\* What a turn of the loop leaves.
Chunkings == [done : Seq(Seq(Nat)), current : Seq(Nat)]

\* A line that is added leaves a chunk that is a chunk, and lines that are lines.
LEMMA AddLineTyped ==
    ASSUME NEW content, NEW c \in Chunkings, NEW n \in Nat, overlap \in Nat
    PROVE  AddLine(content, c, n) \in Chunkings
<1>1. c.done \in Seq(Seq(Nat)) /\ c.current \in Seq(Nat)
  BY DEF Chunkings
<1>2. Append(c.current, n) \in Seq(Nat)
  BY <1>1
<1>3. CASE SizeOf(Append(c.current, n), content) > MaxChunkSize /\ c.current # <<>>
  <2>1. Tail0(c.current) \in Seq(Nat)
    BY <1>1, <1>3, TailIsEnd
  <2>2. AddLine(content, c, n) =
            [done |-> Append(c.done, c.current), current |-> Append(Tail0(c.current), n)]
    BY <1>3, Zenon DEF AddLine
  <2>3. Append(c.done, c.current) \in Seq(Seq(Nat)) /\ Append(Tail0(c.current), n) \in Seq(Nat)
    BY <1>1, <2>1
  <2> QED
    BY <2>2, <2>3 DEF Chunkings
<1>4. CASE ~(SizeOf(Append(c.current, n), content) > MaxChunkSize /\ c.current # <<>>)
  <2>1. AddLine(content, c, n) = [c EXCEPT !.current = Append(c.current, n)]
    BY <1>4, Zenon DEF AddLine
  <2> QED
    BY <1>2, <2>1 DEF Chunkings
<1> QED
  BY <1>3, <1>4

\* The loop runs: its chunkings are those its turns make of one another.
LEMMA CutRuns ==
    ASSUME NEW content \in Seq(Nat), overlap \in Nat
    PROVE  /\ CutUpTo(content)[0] = [done |-> <<>>, current |-> <<>>]
           /\ \A n \in 1..Len(content) : CutUpTo(content)[n] = AddLine(content, CutUpTo(content)[n - 1], n)
           /\ \A n \in 0..Len(content) : CutUpTo(content)[n] \in Chunkings
<1> DEFINE N == Len(content)
           x0 == [done |-> <<>>, current |-> <<>>]
           Turned(f) == [n \in 0..N |-> IF n = 0 THEN x0 ELSE AddLine(content, f[n - 1], n)]
           cut == CHOOSE f : f = Turned(f)
           step == [p \in (1..N) \X Chunkings |-> AddLine(content, p[2], p[1])]
<1>1. N \in Nat /\ x0 \in Chunkings
  BY DEF Chunkings
<1>a. \A n \in 1..N, x \in Chunkings : step[<<n, x>>] = AddLine(content, x, n)
  OBVIOUS
<1>b. StaysIn(Chunkings, N, step)
  <2> SUFFICES ASSUME NEW n \in 1..N, NEW x \in Chunkings
               PROVE  step[<<n, x>>] \in Chunkings
    BY DEF StaysIn
  <2>1. step[<<n, x>>] = AddLine(content, x, n) /\ n \in Nat
    BY <1>1, <1>a
  <2> HIDE DEF step
  <2> QED
    BY <2>1, AddLineTyped
<1>2. PICK g \in [0..N -> Chunkings] : LoopRuns(g, N, x0, step)
  <2> HIDE DEF step, N, x0
  <2> QED
    BY <1>1, <1>b, RecursionExists
<1>3. g = Turned(g)
  <2>1. \A n \in 1..N : n - 1 \in 0..N /\ g[n] = AddLine(content, g[n - 1], n)
    <3> SUFFICES ASSUME NEW n \in 1..N
                 PROVE  n - 1 \in 0..N /\ g[n] = AddLine(content, g[n - 1], n)
      OBVIOUS
    <3>1. n - 1 \in 0..N /\ g[n - 1] \in Chunkings
      <4>1. n - 1 \in 0..N
        <5> HIDE DEF N
        <5> QED
          BY <1>1
      <4> HIDE DEF N
      <4> QED
        BY <1>2, <4>1, Zenon
    <3>2. g[n] = step[<<n, g[n - 1]>>]
      BY <1>2 DEF LoopRuns
    <3> HIDE DEF step
    <3> QED
      BY <1>a, <3>1, <3>2
  <2> HIDE DEF step, x0
  <2>2. \A n \in 0..N : g[n] = IF n = 0 THEN x0 ELSE AddLine(content, g[n - 1], n)
    BY <1>1, <1>2, <2>1 DEF LoopRuns
  <2> QED
    BY <2>2
<1>4. cut = Turned(cut)
  <2>1. cut = CHOOSE f : f = Turned(f)
    OBVIOUS
  <2> HIDE DEF Turned, cut
  <2> QED
    BY <1>3, <2>1, Zenon
<1>5. CutUpTo(content) = cut
  BY DEF CutUpTo
<1> HIDE DEF cut
<1>6. cut[0] = x0 /\ \A n \in 1..N : cut[n] = AddLine(content, cut[n - 1], n)
  <2> HIDE DEF x0
  <2>1. \A n \in 0..N : Turned(cut)[n] = IF n = 0 THEN x0 ELSE AddLine(content, cut[n - 1], n)
    OBVIOUS
  <2>2. \A n \in 0..N : cut[n] = IF n = 0 THEN x0 ELSE AddLine(content, cut[n - 1], n)
    <3> HIDE DEF Turned
    <3> QED
      BY <1>4, <2>1, Zenon
  <2>3. 0 \in 0..N /\ \A n \in 1..N : n \in 0..N /\ n # 0
    BY <1>1
  <2> QED
    BY <2>2, <2>3
<1>7. LoopFollows(cut, Chunkings, N, x0, step)
  <2> HIDE DEF N, step, x0
  <2> QED
    BY <1>1, <1>a, <1>6 DEF LoopFollows
<1>8. \A n \in 0..N : cut[n] \in Chunkings
  <2> HIDE DEF step, N, x0
  <2> QED
    BY <1>1, <1>b, <1>7, RecursionStays
<1> QED
  BY <1>5, <1>6, <1>8

\* A chunk grows by the next line.
LEMMA ChunkGrows ==
    ASSUME NEW m \in Nat, NEW c, Chunk(c, m), c[Len(c)] = m
    PROVE  Chunk(Append(c, m + 1), m + 1) /\ Append(c, m + 1)[1] = c[1]
<1>1. c \in Seq(1..m) /\ c # <<>> /\ Len(c) \in Nat \ {0} /\ \A i \in 1..Len(c) : c[i] = c[1] + i - 1
  BY DEF Chunk
<1>2. Append(c, m + 1) \in Seq(1..(m + 1))
  <2>1. c \in Seq(1..(m + 1)) /\ m + 1 \in 1..(m + 1)
    BY <1>1
  <2> QED
    BY <2>1
<1> DEFINE v == Append(c, m + 1)
<1>3. /\ Len(v) = Len(c) + 1 /\ v[Len(c) + 1] = m + 1 /\ \A i \in 1..Len(c) : v[i] = c[i]
  BY <1>1
<1>4. m = c[1] + Len(c) - 1 /\ 1 \in 1..Len(c) /\ c[1] \in Nat
  BY <1>1
<1>5. \A i \in 1..(Len(c) + 1) : i \in 1..Len(c) \/ i = Len(c) + 1
  BY <1>1
<1> HIDE DEF v
<1>6. v[1] = c[1]
  BY <1>3, <1>4
<1>7. \A i \in 1..Len(c) : v[i] = v[1] + i - 1
  BY <1>1, <1>3, <1>6
<1>8. v[Len(c) + 1] = v[1] + (Len(c) + 1) - 1
  BY <1>1, <1>3, <1>4, <1>6
<1>9. \A i \in 1..Len(v) : v[i] = v[1] + i - 1
  BY <1>3, <1>5, <1>7, <1>8
<1>10. v # <<>>
  <2>1. Len(v) # 0
    BY <1>1, <1>3
  <2> QED
    BY <2>1
<1> QED
  BY <1>2, <1>6, <1>9, <1>10 DEF Chunk, v

\* So does its end.
LEMMA EndIsChunk ==
    ASSUME NEW m \in Nat, NEW c, Chunk(c, m), overlap \in Nat
    PROVE  /\ Chunk(Tail0(c), m) /\ Tail0(c)[Len(Tail0(c))] = c[Len(c)]
           /\ Len(Tail0(c)) \in Nat \ {0} /\ Tail0(c)[1] <= c[Len(c)]
<1>1. c \in Seq(1..m) /\ c # <<>> /\ Len(c) \in Nat \ {0} /\ \A i \in 1..Len(c) : c[i] = c[1] + i - 1
  BY DEF Chunk
<1> DEFINE t == Tail0(c)
<1>2. t \in Seq(1..m) /\ Len(t) \in 1..Len(c) /\ \A i \in 1..Len(t) : t[i] = c[i + Len(c) - Len(t)]
  BY <1>1, TailIsEnd
<1> HIDE DEF t
<1>3. \A i \in 1..Len(t) : i + Len(c) - Len(t) \in 1..Len(c)
  BY <1>1, <1>2
<1>4. c[1] \in Nat
  BY <1>1
<1>5. \A i \in 1..Len(t) : t[i] = c[1] + (i + Len(c) - Len(t)) - 1
  BY <1>1, <1>2, <1>3
<1>6. 1 \in 1..Len(t) /\ Len(t) \in 1..Len(t) /\ Len(c) \in 1..Len(c) /\ t # <<>>
  BY <1>1, <1>2
<1>7. \A i \in 1..Len(t) : t[i] = t[1] + i - 1
  BY <1>1, <1>2, <1>4, <1>5, <1>6, SMTT(30)
<1>8. t[Len(t)] = c[Len(c)] /\ t[1] <= c[Len(c)]
  <2>1. t[Len(t)] = c[1] + (Len(t) + Len(c) - Len(t)) - 1
    BY <1>5, <1>6
  <2>2. t[1] = c[1] + (1 + Len(c) - Len(t)) - 1
    BY <1>5, <1>6
  <2>3. c[Len(c)] = c[1] + Len(c) - 1
    BY <1>1, <1>6
  <2>4. Len(t) \in 1..Len(c)
    BY <1>2
  <2> QED
    BY <1>1, <1>4, <2>1, <2>2, <2>3, <2>4, SMTT(30)
<1> QED
  BY <1>2, <1>6, <1>7, <1>8 DEF Chunk, t

\* A line that fits, or is the first.
LEMMA AddedLine ==
    ASSUME NEW m \in Nat, NEW d \in Seq(Seq(Nat)), NEW u \in Seq(Nat),
           IF m = 0 THEN d = <<>> /\ u = <<>> ELSE Covers(Append(d, u), m)
    PROVE  Covers(Append(d, Append(u, m + 1)), m + 1)
<1> DEFINE v == Append(u, m + 1)
           after == Append(d, v)
           before == Append(d, u)
<1>1. CASE m = 0
  <2>1. v = <<1>> /\ after = <<<<1>>>>
    BY <1>1
  <2>2. <<1>> \in Seq(1..1) /\ <<<<1>>>> \in Seq(Seq(Nat))
    OBVIOUS
  <2>3. Len(<<1>>) = 1 /\ <<1>>[1] = 1 /\ <<1>> # <<>> /\ \A i \in 1..1 : i = 1
    OBVIOUS
  <2>4. Chunk(<<1>>, 1)
    BY <2>2, <2>3 DEF Chunk
  <2>5. Len(<<<<1>>>>) = 1 /\ <<<<1>>>>[1] = <<1>> /\ 2..1 = {} /\ 1 \in 1..1
    OBVIOUS
  <2>6. Covers(<<<<1>>>>, 1)
    <3> DEFINE w == <<<<1>>>>
    <3>1. w \in Seq(Seq(Nat)) /\ Len(w) = 1 /\ w[1] = <<1>>
      BY <2>2, <2>5
    <3>2. w[1][1] = 1 /\ w[Len(w)][Len(w[Len(w)])] = 1
      BY <2>3, <3>1
    <3> HIDE DEF w
    <3>3. Len(w) \in 1..1 /\ \A k \in 1..Len(w) : Chunk(w[k], 1)
      BY <2>3, <2>4, <3>1
    <3>4. \A k \in 2..Len(w) : w[k][1] <= w[k - 1][Len(w[k - 1])] + 1
      BY <2>5, <3>1
    <3>5. Covers(w, 1)
      BY <3>1, <3>2, <3>3, <3>4 DEF Covers
    <3> QED
      BY <3>5 DEF w
  <2>7. 0 + 1 = 1
    OBVIOUS
  <2> QED
    BY <1>1, <2>1, <2>6, <2>7
<1>2. CASE m # 0
  <2>1. Covers(before, m)
    BY <1>2
  <2>2. /\ Len(d) \in Nat /\ Len(before) = Len(d) + 1 /\ before[Len(d) + 1] = u
        /\ \A k \in 1..Len(d) : before[k] = d[k] /\ after[k] = d[k]
        /\ Len(after) = Len(d) + 1 /\ after[Len(d) + 1] = v /\ after \in Seq(Seq(Nat))
    OBVIOUS
  <2> HIDE DEF after, before
  <2>3. /\ Len(d) + 1 \in 1..m /\ \A k \in 1..(Len(d) + 1) : Chunk(before[k], m)
        /\ before[1][1] = 1 /\ u[Len(u)] = m
        /\ \A k \in 2..(Len(d) + 1) : before[k][1] <= before[k - 1][Len(before[k - 1])] + 1
    BY <2>1, <2>2 DEF Covers
  <2>4. Chunk(u, m)
    BY <2>2, <2>3
  <2>5. Chunk(v, m + 1) /\ v[1] = u[1] /\ v[Len(v)] = m + 1
    BY <2>3, <2>4, ChunkGrows
  <2> HIDE DEF v
  <2>6. \A c : Chunk(c, m) => Chunk(c, m + 1)
    BY DEF Chunk
  <2>7. \A k \in 1..(Len(d) + 1) : k \in 1..Len(d) \/ k = Len(d) + 1
    BY <2>2
  <2>8. \A k \in 1..(Len(d) + 1) : Chunk(after[k], m + 1)
    BY <2>2, <2>3, <2>5, <2>6, <2>7
  <2>9. \A k \in 1..(Len(d) + 1) : after[k][1] = before[k][1]
    BY <2>2, <2>5, <2>7
  <2>10. \A k \in 2..(Len(d) + 1) : k - 1 \in 1..Len(d) /\ k \in 1..(Len(d) + 1)
    BY <2>2
  <2>11. \A k \in 2..(Len(d) + 1) : after[k][1] <= after[k - 1][Len(after[k - 1])] + 1
    BY <2>2, <2>3, <2>9, <2>10
  <2>12. after[1][1] = 1
    BY <2>2, <2>3, <2>9
  <2>13. Len(after) \in 1..(m + 1) /\ \A k \in 1..Len(after) : Chunk(after[k], m + 1)
    BY <2>2, <2>3, <2>8
  <2>14. after[1][1] = 1 /\ after[Len(after)][Len(after[Len(after)])] = m + 1
    BY <2>2, <2>5, <2>12
  <2>15. \A k \in 2..Len(after) : after[k][1] <= after[k - 1][Len(after[k - 1])] + 1
    BY <2>2, <2>11
  <2>16. Covers(after, m + 1)
    BY <2>2, <2>13, <2>14, <2>15, Zenon DEF Covers
  <2> QED
    BY <2>16 DEF after, v
<1> QED
  BY <1>1, <1>2

\* A line that closes a chunk, and starts the next one.
LEMMA Closed ==
    ASSUME NEW m \in Nat \ {0}, NEW d \in Seq(Seq(Nat)), NEW u \in Seq(Nat), overlap \in Nat,
           Covers(Append(d, u), m)
    PROVE  Covers(Append(Append(d, u), Append(Tail0(u), m + 1)), m + 1)
<1> DEFINE before == Append(d, u)
           v == Append(Tail0(u), m + 1)
           after == Append(before, v)
<1>1. /\ before \in Seq(Seq(Nat)) /\ Len(before) = Len(d) + 1 /\ before[Len(before)] = u /\ Len(d) \in Nat
  OBVIOUS
<1>2. Covers(before, m) /\ m \in Nat /\ Len(before) \in Nat \ {0}
  OBVIOUS
<1> HIDE DEF before
<1>3. /\ Len(before) \in 1..m /\ \A k \in 1..Len(before) : Chunk(before[k], m)
      /\ before[1][1] = 1 /\ u[Len(u)] = m
      /\ \A k \in 2..Len(before) : before[k][1] <= before[k - 1][Len(before[k - 1])] + 1
  BY <1>1, <1>2 DEF Covers
<1>4. Chunk(u, m)
  BY <1>1, <1>3
<1>5. Chunk(Tail0(u), m) /\ Tail0(u)[Len(Tail0(u))] = m /\ Tail0(u)[1] <= m
  BY <1>3, <1>4, EndIsChunk
<1>6. Chunk(v, m + 1) /\ v[1] <= m
  BY <1>5, ChunkGrows
<1>a. Tail0(u) \in Seq(Nat) /\ Len(Tail0(u)) \in Nat
  BY <1>5 DEF Chunk
<1>b. v[Len(v)] = m + 1 /\ v \in Seq(Nat)
  BY <1>a
<1> HIDE DEF v
<1>7. /\ Len(after) = Len(before) + 1 /\ after[Len(before) + 1] = v /\ after \in Seq(Seq(Nat))
      /\ \A k \in 1..Len(before) : after[k] = before[k]
  BY <1>1, <1>b
<1> HIDE DEF after
<1>8. \A c : Chunk(c, m) => Chunk(c, m + 1)
  BY DEF Chunk
<1>9. \A k \in 1..(Len(before) + 1) : k \in 1..Len(before) \/ k = Len(before) + 1
  BY <1>3
<1>10. \A k \in 1..(Len(before) + 1) : Chunk(after[k], m + 1)
  BY <1>3, <1>6, <1>7, <1>8, <1>9
<1>11. \A k \in 2..(Len(before) + 1) : after[k][1] <= after[k - 1][Len(after[k - 1])] + 1
  <2> SUFFICES ASSUME NEW k \in 2..(Len(before) + 1)
               PROVE  after[k][1] <= after[k - 1][Len(after[k - 1])] + 1
    OBVIOUS
  <2>0. k - 1 \in 1..Len(before) /\ (k \in 2..Len(before) \/ k = Len(before) + 1)
    BY <1>2
  <2>1. after[k - 1] = before[k - 1]
    BY <1>7, <2>0
  <2>2. CASE k \in 2..Len(before)
    <3>1. k \in 1..Len(before) /\ after[k] = before[k]
      BY <1>2, <1>7, <2>2
    <3> QED
      BY <1>3, <2>1, <2>2, <3>1
  <2>3. CASE k = Len(before) + 1
    <3>1. k - 1 = Len(before) /\ after[k - 1] = u /\ after[k] = v
      BY <1>1, <1>2, <1>7, <2>1, <2>3
    <3>2. v[1] \in Nat
      <4>1. v \in Seq(1..(m + 1)) /\ v # <<>>
        BY <1>6 DEF Chunk
      <4> QED
        BY <4>1
    <3> QED
      BY <1>2, <1>3, <1>6, <3>1, <3>2
  <2> QED
    BY <2>0, <2>2, <2>3
<1>12. after[1][1] = 1
  BY <1>3, <1>7
<1>13. Len(after) \in 1..(m + 1)
  BY <1>2, <1>3, <1>7
<1>14. after[Len(after)][Len(after[Len(after)])] = m + 1
  BY <1>7, <1>b
<1>15. Covers(after, m + 1)
  BY <1>7, <1>10, <1>11, <1>12, <1>13, <1>14 DEF Covers
<1> QED
  BY <1>15 DEF v, after, before

\* After each line, the chunks and the one under way cover the lines so far.
LEMMA CutCovers ==
    ASSUME NEW content \in Seq(Nat), overlap \in Nat
    PROVE  \A n \in 1..Len(content) :
               LET c == CutUpTo(content)[n]  chunks == Append(c.done, c.current) IN
               Covers(chunks, n) /\ \A k \in 1..Len(chunks) : Bounded(chunks[k], content)
<1> DEFINE N == Len(content)
           c(n) == CutUpTo(content)[n]
           chunks(n) == Append(c(n).done, c(n).current)
           Good(n) == Covers(chunks(n), n) /\ \A k \in 1..Len(chunks(n)) : Bounded(chunks(n)[k], content)
           S == {n \in Nat : n \in 1..N => Good(n)}
<1>1. /\ c(0) = [done |-> <<>>, current |-> <<>>]
      /\ \A n \in 1..N : c(n) = AddLine(content, c(n - 1), n)
      /\ \A n \in 0..N : c(n).done \in Seq(Seq(Nat)) /\ c(n).current \in Seq(Nat)
  BY CutRuns DEF Chunkings
<1>n. N \in Nat
  OBVIOUS
<1>2. 0 \in S
  OBVIOUS
<1>3. ASSUME NEW m \in Nat, m \in S
      PROVE  m + 1 \in S
  <2> SUFFICES ASSUME m + 1 \in 1..N
               PROVE  Good(m + 1)
    BY SMTT(30)
  <2> DEFINE d == c(m).done
             u == c(m).current
  <2>1. m \in 0..N /\ d \in Seq(Seq(Nat)) /\ u \in Seq(Nat) /\ c(m + 1) = AddLine(content, c(m), m + 1)
    <3>1. m \in 0..N /\ (m + 1) - 1 = m
      BY <1>n
    <3> HIDE DEF N, c
    <3> QED
      BY <1>1, <3>1
  <2>2. m = 0 => d = <<>> /\ u = <<>>
    BY <1>1
  <2>3. m # 0 => Good(m)
    <3>1. m # 0 => m \in 1..N
      BY <2>1, <1>n
    <3> HIDE DEF N, Good
    <3> QED
      BY <1>3, <3>1
  <2>a. c(m) \in Chunkings
    <3> HIDE DEF N
    <3> QED
      BY <2>1, CutRuns DEF c, N
  <2>4. /\ c(m + 1).current # <<>> /\ Bounded(c(m + 1).current, content)
        /\ \/ c(m + 1).done = d /\ c(m + 1).current = Append(u, m + 1)
           \/ c(m + 1).done = Append(d, u) /\ u # <<>> /\ c(m + 1).current = Append(Tail0(u), m + 1)
    <3>1. Append(u, m + 1) # <<>> /\ (u # <<>> => Append(Tail0(u), m + 1) # <<>>)
      <4> HIDE DEF u, d, c, N, S
      <4>0. \A x \in Seq(Nat) : Append(x, m + 1) # <<>>
        <5> SUFFICES ASSUME NEW x \in Seq(Nat)
                     PROVE  Append(x, m + 1) # <<>>
          OBVIOUS
        <5>1. Len(Append(x, m + 1)) = Len(x) + 1 /\ Len(x) \in Nat
          OBVIOUS
        <5> QED
          BY <5>1
      <4>1. u # <<>> => Tail0(u) \in Seq(Nat)
        BY <2>1, TailIsEnd
      <4> QED
        BY <2>1, <4>0, <4>1
    <3> HIDE DEF c, N, S
    <3>2. CASE SizeOf(Append(u, m + 1), content) > MaxChunkSize /\ u # <<>>
      <4>1. AddLine(content, c(m), m + 1) = [done |-> Append(d, u), current |-> Append(Tail0(u), m + 1)]
        BY <3>2, Zenon DEF AddLine
      <4>2. c(m + 1).done = Append(d, u) /\ c(m + 1).current = Append(Tail0(u), m + 1)
        BY <2>1, <4>1
      <4> HIDE DEF d, u
      <4>3. Tail0(u) \in Seq(Nat) /\ (overlap # 0 => Len(Tail0(u)) <= overlap)
        BY <2>1, <3>2, TailIsEnd
      <4>4. Bounded(Append(Tail0(u), m + 1), content)
        <5>1. Len(Append(Tail0(u), m + 1)) = Len(Tail0(u)) + 1 /\ Len(Tail0(u)) \in Nat
          BY <4>3
        <5> QED
          BY <4>3, <5>1 DEF Bounded
      <4> QED
        BY <3>1, <3>2, <4>2, <4>4
    <3>3. CASE ~(SizeOf(Append(u, m + 1), content) > MaxChunkSize /\ u # <<>>)
      <4>1. AddLine(content, c(m), m + 1) = [c(m) EXCEPT !.current = Append(u, m + 1)]
        BY <3>3, Zenon DEF AddLine
      <4>2. c(m + 1).done = d /\ c(m + 1).current = Append(u, m + 1)
        BY <2>1, <2>a, <4>1 DEF Chunkings
      <4> HIDE DEF d, u
      <4>3. Bounded(Append(u, m + 1), content)
        <5>1. CASE u = <<>>
          <6>1. Len(Append(u, m + 1)) = 1
            BY <5>1
          <6> QED
            BY <6>1 DEF Bounded
        <5>2. CASE u # <<>>
          <6>1. ~(SizeOf(Append(u, m + 1), content) > MaxChunkSize)
            BY <3>3, <5>2
          <6>2. Append(u, m + 1) \in Seq(1..(m + 1))
            <7>1. m # 0
              BY <2>2, <5>2
            <7>2. Covers(Append(d, u), m)
              BY <2>3, <7>1 DEF d, u
            <7>3. Len(Append(d, u)) \in 1..Len(Append(d, u)) /\ Append(d, u)[Len(Append(d, u))] = u
              BY <2>1
            <7>4. Chunk(u, m)
              BY <7>2, <7>3 DEF Covers
            <7>5. u \in Seq(1..(m + 1)) /\ m + 1 \in 1..(m + 1)
              BY <7>4 DEF Chunk
            <7> QED
              BY <7>5
          <6>3. m + 1 <= Len(content) /\ m + 1 \in Nat
            BY DEF N
          <6>4. SizeOf(Append(u, m + 1), content) \in Nat
            BY <6>2, <6>3, ChunkHasSize
          <6> QED
            BY <6>1, <6>4, IngestAssumption DEF Bounded
        <5> QED
          BY <5>1, <5>2
      <4>4. c(m + 1).current # <<>> /\ Bounded(c(m + 1).current, content)
        BY <3>1, <4>2, <4>3, Zenon
      <4> QED
        BY <4>2, <4>4, Zenon
    <3> QED
      BY <3>2, <3>3
  <2> HIDE DEF c, N, S
  <2>5. Covers(chunks(m + 1), m + 1)
    <3>1. CASE c(m + 1).done = d /\ c(m + 1).current = Append(u, m + 1)
      <4>1. IF m = 0 THEN d = <<>> /\ u = <<>> ELSE Covers(Append(d, u), m)
        BY <2>2, <2>3
      <4> HIDE DEF d, u
      <4> QED
        BY <2>1, <3>1, <4>1, AddedLine
    <3>2. CASE c(m + 1).done = Append(d, u) /\ u # <<>> /\ c(m + 1).current = Append(Tail0(u), m + 1)
      <4>1. m # 0 /\ Covers(Append(d, u), m)
        BY <2>2, <2>3, <3>2
      <4> HIDE DEF d, u
      <4> QED
        BY <2>1, <3>2, <4>1, Closed
    <3> QED
      BY <2>4, <3>1, <3>2
  <2>6. \A k \in 1..Len(chunks(m + 1)) : Bounded(chunks(m + 1)[k], content)
    <3> DEFINE d1 == c(m + 1).done
               u1 == c(m + 1).current
    <3>0. \A b \in Seq(Seq(Nat)), x \in Seq(Nat) :
              /\ Len(Append(b, x)) = Len(b) + 1 /\ Append(b, x)[Len(b) + 1] = x
              /\ \A k \in 1..Len(b) : Append(b, x)[k] = b[k]
              /\ \A k \in 1..Len(Append(b, x)) : k \in 1..Len(b) \/ k = Len(b) + 1
      OBVIOUS
    <3>1. d1 \in Seq(Seq(Nat)) /\ u1 \in Seq(Nat)
      <4>1. m + 1 \in 0..N
        BY <1>n
      <4> QED
        BY <1>1, <4>1
    <3>2. m = 0 => Len(d) = 0
      BY <2>2
    <3>3. m # 0 => \A k \in 1..Len(Append(d, u)) : Bounded(Append(d, u)[k], content)
      BY <2>3
    <3> HIDE DEF d, u
    <3>4. \A k \in 1..Len(d) : Bounded(d[k], content)
      <4> SUFFICES ASSUME NEW k \in 1..Len(d)
                   PROVE  Bounded(d[k], content)
        OBVIOUS
      <4>1. m # 0 /\ k \in 1..Len(Append(d, u)) /\ Append(d, u)[k] = d[k]
        BY <2>1, <3>2
      <4> QED
        BY <3>3, <4>1
    <3>5. \A k \in 1..Len(d1) : Bounded(d1[k], content)
      <4>1. CASE d1 = d
        BY <3>4, <4>1
      <4>2. CASE d1 = Append(d, u) /\ u # <<>>
        <5>1. m # 0
          BY <2>2, <4>2 DEF u
        <5> QED
          BY <3>3, <4>2, <5>1
      <4> QED
        BY <2>4, <4>1, <4>2
    <3>6. Bounded(u1, content)
      BY <2>4
    <3> HIDE DEF d1, u1
    <3>7. \A k \in 1..Len(Append(d1, u1)) : Bounded(Append(d1, u1)[k], content)
      <4> SUFFICES ASSUME NEW k \in 1..Len(Append(d1, u1))
                   PROVE  Bounded(Append(d1, u1)[k], content)
        OBVIOUS
      <4>1. k \in 1..Len(d1) \/ k = Len(d1) + 1
        BY <3>1
      <4>2. CASE k \in 1..Len(d1)
        <5>1. Append(d1, u1)[k] = d1[k]
          BY <3>1, <4>2
        <5> QED
          BY <3>5, <4>2, <5>1
      <4>3. CASE k = Len(d1) + 1
        <5>1. Append(d1, u1)[k] = u1
          BY <3>1, <4>3
        <5> QED
          BY <3>6, <5>1
      <4> QED
        BY <4>1, <4>2, <4>3
    <3> QED
      BY <3>7 DEF d1, u1
  <2> QED
    BY <2>5, <2>6
<1>4. Nat \subseteq S
  <2> HIDE DEF S
  <2> QED
    BY <1>2, <1>3, EveryNumber
<1>5. \A n \in 1..N : n \in Nat /\ n \in S
  <2> HIDE DEF S, N
  <2> QED
    BY <1>n, <1>4
<1>6. \A n \in 1..N : Good(n)
  <2> HIDE DEF Good, N, c, chunks
  <2> QED
    BY <1>5
<1> QED
  BY <1>6

\* The chunks of a content cover all of it.
LEMMA ChunksCover ==
    ASSUME NEW content \in Seq(Nat), content # <<>>, overlap \in Nat
    PROVE  /\ Covers(Chunks(content), Len(content))
           /\ \A k \in 1..Len(Chunks(content)) : Bounded(Chunks(content)[k], content)
<1> DEFINE N == Len(content)
<1>1. N \in Nat \ {0}
  OBVIOUS
<1>2. CASE SizeOf(AllOf(content), content) - 1 <= MaxChunkSize
  <2> DEFINE a == AllOf(content)
             w == <<a>>
  <2>1. Chunks(content) = w
    BY <1>2, Zenon DEF Chunks
  <2>2. a = [i \in 1..N |-> i]
    BY DEF AllOf
  <2> HIDE DEF N
  <2>3. [i \in 1..N |-> i] \in Seq(1..N) /\ Len([i \in 1..N |-> i]) = N /\ \A i \in 1..N : [j \in 1..N |-> j][i] = i
    BY <1>1
  <2> HIDE DEF a
  <2>4. a \in Seq(1..N) /\ Len(a) = N /\ (\A i \in 1..N : a[i] = i) /\ a \in Seq(Nat)
    BY <1>1, <2>2, <2>3
  <2>5. a # <<>> /\ a[1] = 1 /\ a[N] = N
    BY <1>1, <2>4
  <2>6. Chunk(a, N)
    BY <1>1, <2>4, <2>5 DEF Chunk
  <2>7. w \in Seq(Seq(Nat)) /\ Len(w) = 1 /\ w[1] = a /\ \A k \in 1..Len(w) : k = 1
    BY <2>4
  <2>8. SizeOf(a, content) \in Nat
    BY <1>1, <2>4, ChunkHasSize DEF N
  <2>9. Bounded(a, content)
    BY <1>2, <2>8, IngestAssumption DEF Bounded, a
  <2> HIDE DEF w
  <2>10. w[1][1] = 1 /\ w[Len(w)][Len(w[Len(w)])] = N
    BY <2>4, <2>5, <2>7
  <2>11. Len(w) \in 1..N /\ (\A k \in 1..Len(w) : Chunk(w[k], N)) /\ 2..Len(w) = {}
    BY <1>1, <2>6, <2>7
  <2>12. Covers(w, N)
    BY <2>7, <2>10, <2>11 DEF Covers
  <2>13. \A k \in 1..Len(w) : Bounded(w[k], content)
    BY <2>7, <2>9
  <2> QED
    BY <2>1, <2>12, <2>13 DEF N
<1>3. CASE ~(SizeOf(AllOf(content), content) - 1 <= MaxChunkSize)
  <2>1. Chunks(content) = Append(CutUpTo(content)[N].done, CutUpTo(content)[N].current)
    BY <1>3, Zenon DEF Chunks
  <2>2. N \in 1..N
    BY <1>1
  <2> QED
    BY <2>1, <2>2, CutCovers
<1> QED
  BY <1>2, <1>3

-----------------------------------------------------------------------------

IngestSpec == IngestInit /\ [][IngestNext]_ingestVars

Content(lines) == lines \in Seq(Nat) /\ Len(lines) <= MaxLines

IngestTyped ==
    /\ overlap \in Nat /\ source.rev \in 1..(MaxEdits + 1) /\ Content(source.lines)
    /\ documents \in [Numbers -> [rev : Nat, lines : Seq(Nat), total : Nat]]
    /\ ingest \in [on : BOOLEAN, rev : Nat, total : 0..MaxLines, left : Seq(Seq(Nat))]
    /\ Len(ingest.left) <= ingest.total /\ ingest.rev \in 0..source.rev
    /\ ended.rev \in 0..source.rev /\ ended.total \in 0..MaxLines

\* A run has indexed the chunks before those that are left.
IngestGoesOn ==
    ingest.on =>
        /\ ingest.rev # 0 /\ ingest.total # 0
        /\ \A k \in Numbers : k < Number => documents[k].rev = ingest.rev
        /\ ingest.rev = source.rev =>
            /\ source.lines # <<>> /\ ingest.total = Len(Chunks(source.lines))
            /\ \A k \in 1..Len(ingest.left) : ingest.left[k] = Chunks(source.lines)[Number + k]
            /\ \A k \in Numbers : k < Number => documents[k].lines = Chunks(source.lines)[k + 1]

\* The chunks of the last run that ended stay until another has indexed one.
EndedStays ==
    ended.rev # 0 /\ ~disturbed /\ (ingest.on => Number = 0) =>
        /\ ended.total # 0
        /\ \A k \in Numbers : k < ended.total => documents[k].rev = ended.rev
        /\ ended.rev = source.rev =>
            /\ source.lines # <<>> /\ ended.total = Len(Chunks(source.lines))
            /\ \A k \in Numbers : k < ended.total => documents[k].lines = Chunks(source.lines)[k + 1]

IngestInv == IngestTyped /\ IngestGoesOn /\ EndedStays

\* A content is lines, or none.
LEMMA ContentsAre == \A lines \in Contents \cup {<<>>} : Content(lines)
<1> SUFFICES ASSUME NEW lines \in Contents \cup {<<>>}
             PROVE  Content(lines)
  OBVIOUS
<1>0. MaxLines \in Nat /\ LineSizes \subseteq Nat
  BY IngestAssumption
<1>1. CASE lines = <<>>
  BY <1>0, <1>1 DEF Content
<1>2. CASE lines \in Contents
  <2>1. PICK n \in 1..MaxLines : lines \in [1..n -> LineSizes]
    BY <1>2 DEF Contents
  <2>2. lines \in [1..n -> Nat] /\ n \in Nat
    <3>1. n \in Nat
      BY <1>0
    <3>2. \A i \in 1..n : lines[i] \in Nat
      BY <1>0, <2>1
    <3> QED
      BY <2>1, <3>1, <3>2
  <2>3. lines \in Seq(Nat) /\ Len(lines) = n
    BY <2>2
  <2> QED
    BY <1>0, <2>1, <2>3 DEF Content
<1> QED
  BY <1>1, <1>2

\* Before the first ingestion nothing has been ingested.
LEMMA IngestStart == IngestInit => IngestInv
<1> SUFFICES ASSUME IngestInit
             PROVE  IngestInv
  OBVIOUS
<1>1. MaxEdits \in Nat /\ MaxLines \in Nat /\ Overlaps \subseteq Nat
  BY IngestAssumption
<1>2. overlap \in Nat /\ source.rev = 1 /\ source.lines \in Contents
  BY <1>1 DEF IngestInit
<1>3. Content(source.lines)
  BY <1>2, ContentsAre
<1>4. /\ documents \in [Numbers -> [rev : Nat, lines : Seq(Nat), total : Nat]]
      /\ ingest \in [on : BOOLEAN, rev : Nat, total : 0..MaxLines, left : Seq(Seq(Nat))]
      /\ ingest.on = FALSE /\ ingest.rev = 0 /\ ingest.total = 0 /\ ingest.left = <<>>
      /\ ended.rev = 0 /\ ended.total = 0
  <2>1. 0 \in 0..MaxLines /\ <<>> \in Seq(Seq(Nat)) /\ <<>> \in Seq(Nat)
    BY <1>1
  <2> QED
    BY <2>1 DEF IngestInit, NoDocument
<1>5. IngestTyped
  BY <1>1, <1>2, <1>3, <1>4 DEF IngestTyped
<1> QED
  BY <1>4, <1>5 DEF IngestInv, IngestGoesOn, EndedStays

\* Every step keeps what is said of each ingestion that ended: the loop over the lines, an
\* edit of the file while it runs, and the next.
LEMMA IngestStep == IngestInv /\ [IngestNext]_ingestVars => IngestInv'
<1> SUFFICES ASSUME IngestInv, [IngestNext]_ingestVars
             PROVE  IngestInv'
  OBVIOUS
<1>0. MaxLines \in Nat /\ MaxEdits \in Nat
  BY IngestAssumption
<1>c. ASSUME overlap' = overlap, source' = source
      PROVE  Chunks(source.lines)' = Chunks(source.lines)
  BY <1>c DEF Chunks, CutUpTo, AddLine, Tail0
<1>1. CASE UNCHANGED ingestVars
  <2>1. /\ overlap' = overlap /\ source' = source /\ documents' = documents /\ ingest' = ingest
        /\ ended' = ended /\ disturbed' = disturbed
    BY <1>1 DEF ingestVars
  <2>2. Chunks(source.lines)' = Chunks(source.lines) /\ Number' = Number
    BY <1>c, <2>1 DEF Number
  <2>3. IngestTyped'
    BY <2>1 DEF IngestInv, IngestTyped, Content
  <2>4. IngestGoesOn' /\ EndedStays'
    BY <2>1, <2>2 DEF IngestInv, IngestGoesOn, EndedStays
  <2> QED
    BY <2>3, <2>4 DEF IngestInv
<1>2. ASSUME NEW lines \in Contents \cup {<<>>}, EditFile(lines)
      PROVE  IngestInv'
  <2>1. /\ overlap' = overlap /\ documents' = documents /\ ingest' = ingest /\ ended' = ended /\ disturbed' = disturbed
        /\ source'.rev = source.rev + 1 /\ source'.lines = lines /\ source.rev <= MaxEdits
    BY <1>2 DEF EditFile
  <2>2. Content(lines)
    BY ContentsAre
  <2>3. IngestTyped'
    BY <1>0, <2>1, <2>2, SMTT(30) DEF IngestInv, IngestTyped, Content
  <2>4. IngestGoesOn'
    BY <1>0, <2>1 DEF IngestInv, IngestTyped, IngestGoesOn, Number
  <2>5. EndedStays'
    BY <1>0, <2>1 DEF IngestInv, IngestTyped, EndedStays, Number
  <2> QED
    BY <2>3, <2>4, <2>5 DEF IngestInv
<1>3. CASE StartFile
  <2>1. /\ overlap' = overlap /\ source' = source /\ documents' = documents /\ ended' = ended /\ disturbed' = disturbed
        /\ ~ingest.on /\ source.lines # <<>> /\ ingest'.on = TRUE /\ ingest'.rev = source.rev
        /\ ingest'.total = Len(Chunks(source.lines)) /\ ingest'.left = Chunks(source.lines)
    BY <1>3 DEF StartFile
  <2>2. Covers(Chunks(source.lines), Len(source.lines))
    BY <2>1, ChunksCover DEF IngestInv, IngestTyped, Content
  <2>3. Chunks(source.lines) \in Seq(Seq(Nat)) /\ Len(Chunks(source.lines)) \in 1..MaxLines
    <3>1. Len(Chunks(source.lines)) \in 1..Len(source.lines) /\ Len(source.lines) <= MaxLines
      BY <2>2 DEF Covers, IngestInv, IngestTyped, Content
    <3>2. Len(source.lines) \in Nat
      BY DEF IngestInv, IngestTyped, Content
    <3> QED
      BY <1>0, <2>2, <3>1, <3>2 DEF Covers
  <2>4. Number' = 0 /\ Chunks(source.lines)' = Chunks(source.lines)
    BY <1>c, <2>1, <2>3 DEF Number
  <2>5. IngestTyped'
    <3>1. ingest' \in [on : BOOLEAN, rev : Nat, total : 0..MaxLines, left : Seq(Seq(Nat))]
      <4>1. Len(Chunks(source.lines)) \in 0..MaxLines /\ source.rev \in Nat
        BY <1>0, <2>3 DEF IngestInv, IngestTyped
      <4>2. ingest' = [on |-> TRUE, rev |-> source.rev, total |-> Len(Chunks(source.lines)), left |-> Chunks(source.lines)]
        BY <1>3 DEF StartFile
      <4> HIDE DEF IngestInv
      <4> QED
        BY <2>3, <4>1, <4>2
    <3>2. Len(ingest'.left) <= ingest'.total
      BY <2>1, <2>3
    <3> QED
      BY <2>1, <3>1, <3>2 DEF IngestInv, IngestTyped, Content
  <2>6. IngestGoesOn'
    <3>1. source.rev # 0 /\ \A k \in Numbers : ~(k < 0)
      BY <1>0 DEF IngestInv, IngestTyped, Numbers
    <3>2. \A k \in 1..Len(Chunks(source.lines)) : 0 + k = k
      OBVIOUS
    <3> HIDE DEF Number
    <3> QED
      BY <2>1, <2>3, <2>4, <3>1, <3>2 DEF IngestGoesOn
  <2>7. EndedStays'
    BY <2>1, <2>4 DEF IngestInv, EndedStays
  <2> QED
    BY <2>5, <2>6, <2>7 DEF IngestInv
<1>4. CASE IndexChunk
  <2> DEFINE doc == [rev |-> ingest.rev, lines |-> Head(ingest.left), total |-> ingest.total]
             left == ingest.left
  <2>1. /\ overlap' = overlap /\ source' = source /\ ended' = ended /\ disturbed' = disturbed
        /\ ingest.on /\ left # <<>> /\ documents' = [documents EXCEPT ![Number] = doc]
        /\ ingest' = [ingest EXCEPT !.left = Tail(left)]
    BY <1>4 DEF IndexChunk, Put
  <2>0. /\ ingest \in [on : BOOLEAN, rev : Nat, total : 0..MaxLines, left : Seq(Seq(Nat))]
        /\ documents \in [Numbers -> [rev : Nat, lines : Seq(Nat), total : Nat]]
        /\ Len(left) <= ingest.total
    BY DEF IngestInv, IngestTyped
  <2>3. /\ left \in Seq(Seq(Nat)) /\ Len(left) \in Nat \ {0} /\ Len(Tail(left)) = Len(left) - 1
        /\ Head(left) = left[1] /\ left[1] \in Seq(Nat) /\ \A k \in 1..(Len(left) - 1) : Tail(left)[k] = left[k + 1]
        /\ Tail(left) \in Seq(Seq(Nat))
    <3>1. left \in Seq(Seq(Nat)) /\ left # <<>>
      BY <2>0, <2>1
    <3> HIDE DEF left
    <3> QED
      BY <3>1
  <2>2. /\ ingest'.on /\ ingest'.rev = ingest.rev /\ ingest'.total = ingest.total /\ ingest'.left = Tail(left)
        /\ ingest' \in [on : BOOLEAN, rev : Nat, total : 0..MaxLines, left : Seq(Seq(Nat))]
    <3>1. Tail(left) \in Seq(Seq(Nat))
      BY <2>3
    <3> HIDE DEF left
    <3> QED
      BY <2>0, <2>1, <3>1
  <2>4. Number' = Number + 1 /\ Number \in Nat /\ Number < ingest.total /\ Number \in Numbers
    <3>1. Number' = ingest.total - (Len(left) - 1) /\ Number = ingest.total - Len(left)
      BY <2>2, <2>3 DEF Number
    <3>2. ingest.total \in 0..MaxLines /\ Len(left) <= ingest.total
      BY <2>0
    <3> HIDE DEF left, Number
    <3> QED
      BY <1>0, <2>3, <3>1, <3>2, SMTT(30) DEF Numbers
  <2>5. /\ documents' \in [Numbers -> [rev : Nat, lines : Seq(Nat), total : Nat]]
        /\ documents'[Number].rev = ingest.rev /\ documents'[Number].lines = left[1]
        /\ \A k \in Numbers : k # Number => documents'[k] = documents[k]
    <3>1. doc \in [rev : Nat, lines : Seq(Nat), total : Nat] /\ doc.rev = ingest.rev /\ doc.lines = left[1]
      BY <1>0, <2>0, <2>3
    <3> HIDE DEF doc
    <3>2. documents'[Number] = doc
      BY <2>0, <2>1, <2>4
    <3> QED
      BY <2>0, <2>1, <2>4, <3>1, <3>2
  <2>c. Chunks(source.lines)' = Chunks(source.lines)
    BY <1>c, <2>1
  <2>6. IngestTyped'
    <3>1. Len(ingest'.left) <= ingest'.total
      BY <1>0, <2>0, <2>2, <2>3
    <3> QED
      BY <2>1, <2>2, <2>5, <3>1 DEF IngestInv, IngestTyped, Content
  <2>n. \A k \in Numbers : k < Number + 1 <=> k < Number \/ k = Number
    BY <2>4 DEF Numbers
  <2>7. IngestGoesOn'
    <3> HIDE DEF Number, left
    <3>1. /\ ingest.rev # 0 /\ ingest.total # 0
          /\ \A k \in Numbers : k < Number => documents[k].rev = ingest.rev
      BY <2>1 DEF IngestInv, IngestGoesOn
    <3>2. \A k \in Numbers : k < Number' => documents'[k].rev = ingest'.rev
      <4>1. \A k \in Numbers : k < Number => k # Number
        BY <2>4 DEF Numbers
      <4> QED
        BY <2>2, <2>4, <2>5, <2>n, <3>1, <4>1
    <3>3. ASSUME ingest'.rev = source'.rev
          PROVE  /\ source'.lines # <<>> /\ ingest'.total = Len(Chunks(source.lines)')
                 /\ \A k \in 1..Len(ingest'.left) : ingest'.left[k] = Chunks(source.lines)'[Number' + k]
                 /\ \A k \in Numbers : k < Number' => documents'[k].lines = Chunks(source.lines)'[k + 1]
      <4>1. /\ source.lines # <<>> /\ ingest.total = Len(Chunks(source.lines))
            /\ \A k \in 1..Len(left) : left[k] = Chunks(source.lines)[Number + k]
            /\ \A k \in Numbers : k < Number => documents[k].lines = Chunks(source.lines)[k + 1]
        BY <2>1, <2>2, <3>3 DEF IngestInv, IngestGoesOn, left
      <4>2. \A k \in 1..Len(ingest'.left) : ingest'.left[k] = Chunks(source.lines)[Number' + k]
        <5> SUFFICES ASSUME NEW k \in 1..(Len(left) - 1)
                     PROVE  Tail(left)[k] = Chunks(source.lines)[(Number + 1) + k]
          BY <2>2, <2>3, <2>4
        <5>1. k + 1 \in 1..Len(left) /\ Number + (k + 1) = (Number + 1) + k
          BY <2>3, <2>4
        <5> QED
          BY <2>3, <4>1, <5>1
      <4>3. \A k \in Numbers : k < Number' => documents'[k].lines = Chunks(source.lines)[k + 1]
        <5> SUFFICES ASSUME NEW k \in Numbers, k < Number + 1
                     PROVE  documents'[k].lines = Chunks(source.lines)[k + 1]
          BY <2>4
        <5>1. CASE k = Number
          <6>1. 1 \in 1..Len(left)
            BY <2>3
          <6> QED
            BY <2>5, <4>1, <5>1, <6>1
        <5>2. CASE k < Number
          <6>1. k # Number
            BY <2>4, <5>2
          <6> QED
            BY <2>5, <4>1, <5>2, <6>1
        <5> QED
          BY <2>n, <5>1, <5>2
      <4> QED
        BY <2>1, <2>2, <2>c, <4>1, <4>2, <4>3
    <3> QED
      BY <2>2, <3>1, <3>2, <3>3 DEF IngestGoesOn
  <2>8. EndedStays'
    <3>1. Number' # 0
      BY <2>4
    <3> QED
      BY <2>2, <3>1 DEF EndedStays
  <2> QED
    BY <2>6, <2>7, <2>8 DEF IngestInv
<1>5. CASE IndexFails
  <2>1. /\ overlap' = overlap /\ source' = source /\ documents' = documents /\ ended' = ended
        /\ ingest.on /\ ingest.left # <<>> /\ disturbed' = (disturbed \/ Number > 0)
        /\ ingest' = [ingest EXCEPT !.on = FALSE]
    BY <1>5 DEF IndexFails
  <2>2. /\ ingest'.on = FALSE /\ ingest'.rev = ingest.rev /\ ingest'.total = ingest.total /\ ingest'.left = ingest.left
        /\ ingest' \in [on : BOOLEAN, rev : Nat, total : 0..MaxLines, left : Seq(Seq(Nat))]
    BY <2>1 DEF IngestInv, IngestTyped
  <2>3. Number \in Nat
    BY <1>0 DEF Number, IngestInv, IngestTyped
  <2>4. IngestTyped'
    BY <2>1, <2>2 DEF IngestInv, IngestTyped, Content
  <2>5. IngestGoesOn'
    BY <2>2 DEF IngestGoesOn
  <2>6. Chunks(source.lines)' = Chunks(source.lines)
    BY <1>c, <2>1
  <2>7. EndedStays'
    <3> SUFFICES ASSUME ended.rev # 0, ~disturbed'
                 PROVE  EndedStays'
      BY <2>1 DEF EndedStays
    <3>0. ~disturbed /\ ~(Number > 0)
      BY <2>1, Zenon
    <3>1. ~disturbed /\ Number = 0
      BY <2>3, <3>0
    <3> QED
      BY <2>1, <2>6, <3>1 DEF IngestInv, EndedStays
  <2> QED
    BY <2>4, <2>5, <2>7 DEF IngestInv
<1>6. CASE EndFile
  <2>1. /\ overlap' = overlap /\ source' = source /\ documents' = documents /\ disturbed' = FALSE
        /\ ingest.on /\ ingest.left = <<>> /\ ended'.rev = ingest.rev /\ ended'.total = ingest.total
        /\ ingest' = [ingest EXCEPT !.on = FALSE]
    BY <1>6 DEF EndFile
  <2>2. /\ ingest'.on = FALSE /\ ingest'.rev = ingest.rev /\ ingest'.total = ingest.total /\ ingest'.left = ingest.left
        /\ ingest' \in [on : BOOLEAN, rev : Nat, total : 0..MaxLines, left : Seq(Seq(Nat))]
    BY <2>1 DEF IngestInv, IngestTyped
  <2>3. Number = ingest.total
    BY <1>0, <2>1 DEF Number, IngestInv, IngestTyped
  <2>4. IngestTyped'
    BY <2>1, <2>2 DEF IngestInv, IngestTyped, Content
  <2>5. IngestGoesOn'
    BY <2>2 DEF IngestGoesOn
  <2>6. Chunks(source.lines)' = Chunks(source.lines)
    BY <1>c, <2>1
  <2>7. EndedStays'
    BY <2>1, <2>2, <2>3, <2>6 DEF IngestInv, IngestGoesOn, EndedStays
  <2> QED
    BY <2>4, <2>5, <2>7 DEF IngestInv
<1> QED
  BY <1>1, <1>2, <1>3, <1>4, <1>5, <1>6 DEF IngestNext

\* So it is of every ingestion.
LEMMA IngestAlways == IngestSpec => []IngestInv
<1>1. IngestInv /\ [IngestNext]_ingestVars => IngestInv'
  BY IngestStep
<1> QED
  BY IngestStart, <1>1, PTL DEF IngestSpec

\* What the documents of a run that ended, and the chunks that are left, are of the file.
LEMMA IngestedIsWhole == IngestInv => IngestTypeOK /\ NothingLost /\ ChunksBounded /\ OlderAreBeyond
<1> SUFFICES ASSUME IngestInv
             PROVE  IngestTypeOK /\ NothingLost /\ ChunksBounded /\ OlderAreBeyond
  OBVIOUS
<1>0. MaxLines \in Nat /\ MaxEdits \in Nat
  BY IngestAssumption
<1>1. IngestTypeOK
  BY DEF IngestInv, IngestTyped, IngestTypeOK
<1>2. OlderAreBeyond
  <2> SUFFICES ASSUME UpToDate, NEW k \in Numbers, documents[k].rev \notin {0, ended.rev}
               PROVE  k >= ended.total
    BY DEF OlderAreBeyond
  <2>1. \A n \in Numbers : n < ended.total => documents[n].rev = ended.rev
    BY DEF IngestInv, EndedStays, UpToDate
  <2>2. k \in Nat /\ ended.total \in Nat /\ ~(k < ended.total)
    <3>1. k \in Nat /\ ended.total \in Nat
      BY <1>0 DEF IngestInv, IngestTyped, Numbers
    <3> QED
      BY <2>1, <3>1
  <2> QED
    BY <2>2
<1>c. ASSUME source.lines # <<>>
      PROVE  /\ Covers(Chunks(source.lines), Len(source.lines))
             /\ \A k \in 1..Len(Chunks(source.lines)) : Bounded(Chunks(source.lines)[k], source.lines)
  BY <1>c, ChunksCover DEF IngestInv, IngestTyped, Content
<1>3. ChunksBounded
  <2> SUFFICES ASSUME overlap # 0, ingest.on, ingest.rev = source.rev, NEW k \in DOMAIN ingest.left
               PROVE  SizeOf(ingest.left[k], source.lines) - 1 > MaxChunkSize => Len(ingest.left[k]) <= overlap + 1
    BY DEF ChunksBounded
  <2>1. /\ source.lines # <<>> /\ ingest.total = Len(Chunks(source.lines))
        /\ \A n \in 1..Len(ingest.left) : ingest.left[n] = Chunks(source.lines)[Number + n]
    BY DEF IngestInv, IngestGoesOn
  <2>2. /\ Len(ingest.left) \in Nat /\ ingest.total \in Nat /\ k \in 1..Len(ingest.left) /\ Len(ingest.left) <= ingest.total
    BY <1>0 DEF IngestInv, IngestTyped
  <2>3. Number + k \in 1..Len(Chunks(source.lines))
    <3> DEFINE m == Len(ingest.left)
    <3>1. Number = ingest.total - m /\ m \in Nat /\ ingest.total \in Nat /\ k \in 1..m /\ m <= ingest.total
      BY <2>2 DEF Number
    <3> HIDE DEF m
    <3>2. Number + k \in 1..ingest.total
      BY <3>1
    <3> QED
      BY <2>1, <3>2
  <2>4. Bounded(ingest.left[k], source.lines)
    BY <1>c, <2>1, <2>2, <2>3
  <2> QED
    BY <2>4 DEF Bounded
<1>4. NothingLost
  <2> SUFFICES ASSUME UpToDate, ended.rev = source.rev
               PROVE  NothingLost
    BY DEF NothingLost
  <2> DEFINE chunks == Chunks(source.lines)
             N == Len(chunks)
             doc(k) == documents[k].lines
  <2>1. /\ ended.total # 0 /\ source.lines # <<>> /\ ended.total = N
        /\ \A k \in Numbers : k < N => documents[k].rev = ended.rev /\ doc(k) = chunks[k + 1]
    BY <1>0 DEF IngestInv, IngestTyped, EndedStays, UpToDate
  <2>2. /\ N \in Nat \ {0} /\ \A k \in 1..N : Chunk(chunks[k], Len(source.lines))
        /\ chunks[1][1] = 1 /\ chunks[N][Len(chunks[N])] = Len(source.lines)
        /\ \A k \in 2..N : chunks[k][1] <= chunks[k - 1][Len(chunks[k - 1])] + 1
    BY <1>c, <2>1 DEF Covers
  <2>3. N <= MaxLines
    BY <1>0, <2>1 DEF IngestInv, IngestTyped
  <2> HIDE DEF N, chunks
  <2>4. /\ 0 \in Numbers /\ N - 1 \in Numbers /\ \A k \in Current : k \in Numbers /\ k \in Nat /\ k < N /\ k + 1 \in 1..N
        /\ \A k \in Current \ {0} : k - 1 \in Numbers /\ k \in 1..(N - 1)
    BY <1>0, <2>1, <2>2, <2>3 DEF Numbers, Current
  <2>5. \A k \in Current : doc(k) = chunks[k + 1] /\ documents[k].rev = ended.rev
    BY <2>1, <2>4
  <2>6. \A k \in Current : doc(k) # <<>> /\ \A i \in 2..Len(doc(k)) : doc(k)[i] = doc(k)[i - 1] + 1
    <3> SUFFICES ASSUME NEW k \in Current
                 PROVE  doc(k) # <<>> /\ \A i \in 2..Len(doc(k)) : doc(k)[i] = doc(k)[i - 1] + 1
      OBVIOUS
    <3>1. Chunk(doc(k), Len(source.lines))
      BY <2>2, <2>4, <2>5
    <3> HIDE DEF doc
    <3>2. doc(k) \in Seq(1..Len(source.lines)) /\ doc(k) # <<>> /\ \A i \in 1..Len(doc(k)) : doc(k)[i] = doc(k)[1] + i - 1
      BY <3>1 DEF Chunk
    <3>3. \A i \in 2..Len(doc(k)) : i \in 1..Len(doc(k)) /\ i - 1 \in 1..Len(doc(k)) /\ i \in Nat
      BY <3>2
    <3>4. doc(k)[1] \in Nat
      BY <3>2
    <3>5. \A i \in 2..Len(doc(k)) : doc(k)[i] = doc(k)[1] + i - 1 /\ doc(k)[i - 1] = doc(k)[1] + (i - 1) - 1
      BY <3>2, <3>3
    <3> QED
      BY <3>2, <3>3, <3>4, <3>5, SMTT(30)
  <2>7. doc(0)[1] = 1 /\ doc(N - 1)[Len(doc(N - 1))] = Len(source.lines)
    <3>1. doc(0) = chunks[0 + 1] /\ doc(N - 1) = chunks[(N - 1) + 1]
      BY <2>1, <2>2, <2>4
    <3>2. 0 + 1 = 1 /\ (N - 1) + 1 = N
      BY <2>2
    <3> QED
      BY <2>2, <3>1, <3>2
  <2>8. \A k \in Current \ {0} : doc(k)[1] <= doc(k - 1)[Len(doc(k - 1))] + 1
    <3> SUFFICES ASSUME NEW k \in Current \ {0}
                 PROVE  doc(k)[1] <= doc(k - 1)[Len(doc(k - 1))] + 1
      OBVIOUS
    <3>1. k \in 1..(N - 1) /\ k - 1 \in Numbers /\ k - 1 < N
      BY <2>2, <2>4
    <3>2. doc(k) = chunks[k + 1] /\ doc(k - 1) = chunks[(k - 1) + 1] /\ (k - 1) + 1 = k
      BY <2>1, <2>5, <3>1
    <3>3. k + 1 \in 2..N /\ (k + 1) - 1 = k
      BY <2>2, <3>1
    <3>4. chunks[k + 1][1] <= chunks[(k + 1) - 1][Len(chunks[(k + 1) - 1])] + 1
      BY <2>2, <3>3
    <3> QED
      BY <3>2, <3>3, <3>4
  <2>9. Last(doc(N - 1)) = doc(N - 1)[Len(doc(N - 1))] /\ \A k \in Current \ {0} : Last(doc(k - 1)) = doc(k - 1)[Len(doc(k - 1))]
    BY DEF Last
  <2> QED
    BY <2>1, <2>5, <2>6, <2>7, <2>8, <2>9 DEF NothingLost
<1> QED
  BY <1>1, <1>2, <1>3, <1>4

-----------------------------------------------------------------------------
(* Files are searched for what they import, and packed (context builder).  *)

\* A finite set as a sequence: all of it, and nothing else.
LEMMA SequenceOfSet ==
    ASSUME NEW T, IsFiniteSet(T)
    PROVE  /\ SetToSeq(T) \in Seq(T) /\ Len(SetToSeq(T)) = Cardinality(T) /\ Cardinality(T) \in Nat
           /\ \A x \in T : \E i \in 1..Cardinality(T) : SetToSeq(T)[i] = x
<1> DEFINE n == Cardinality(T)
           s == SetToSeq(T)
<1>1. n \in Nat /\ ExistsBijection(1..n, T)
  BY FS_CardinalityType
<1>2. PICK f \in Bijection(1..n, T) : TRUE
  BY <1>1 DEF ExistsBijection
<1>3. f \in [1..n -> T] /\ IsInjective(f)
  BY <1>2 DEF Bijection, Injection
<1>4. s = CHOOSE g \in [1..n -> T] : IsInjective(g)
  BY Zenon DEF SetToSeq
<1>5. s \in [1..n -> T] /\ IsInjective(s)
  <2> HIDE DEF s, n
  <2> QED
    BY <1>3, <1>4, Zenon
<1>6. s \in Surjection(1..n, T)
  <2>1. s \in Injection(1..n, T)
    BY <1>5 DEF Injection
  <2>2. Cardinality(1..n) = n
    <3>1. Cardinality(1..n) = IF 1 > n THEN 0 ELSE n - 1 + 1
      <4> HIDE DEF n
      <4> QED
        BY <1>1, FS_Interval
    <3> HIDE DEF n
    <3> QED
      BY <1>1, <3>1
  <2> HIDE DEF s
  <2> QED
    BY <2>1, <2>2, FS_Injection
<1> HIDE DEF s
<1>7. \A x \in T : \E i \in 1..n : s[i] = x
  BY <1>6, Zenon DEF Surjection
<1>8. s \in Seq(T) /\ Len(s) = n
  <2> HIDE DEF n
  <2> QED
    BY <1>1, <1>5
<1> QED
  BY <1>1, <1>7, <1>8 DEF s

-----------------------------------------------------------------------------

ItemType == [file : SourceFiles, depth : 0..MaxDepth]

SearchType == [queue : Seq(ItemType), visited : SUBSET SourceFiles, depth : [SourceFiles -> 0..MaxDepth]]

FilesImport == context.imports \in [SourceFiles -> SUBSET SourceFiles]

\* In the queue the depths rise, by one at most, from the ones visited on.
Rising(s) == \A i, j \in 1..Len(s.queue) : i <= j =>
    s.queue[i].depth <= s.queue[j].depth /\ s.queue[j].depth <= s.queue[i].depth + 1

Behind(s) == \A g \in s.visited, i \in 1..Len(s.queue) : s.depth[g] <= s.queue[i].depth

\* A file is visited, or will be, at a depth of no more than that.
Awaits(s, g, k) ==
    (g \in s.visited /\ s.depth[g] <= k) \/ \E i \in 1..Len(s.queue) : s.queue[i].file = g /\ s.queue[i].depth <= k

Complete(s, f) ==
    Awaits(s, f, 0) /\ \A g \in s.visited : s.depth[g] < MaxDepth => \A h \in KnownImports(g) : Awaits(s, h, s.depth[g] + 1)

ReachedByImports(s, reach) ==
    /\ \A g \in s.visited : g \in reach[s.depth[g]]
    /\ \A i \in 1..Len(s.queue) : s.queue[i].file \in reach[s.queue[i].depth]

\* Each file that is visited pays for the turns of those it puts in the queue.
FileCount == Cardinality(SourceFiles)

TurnsLeft(s, n) == s.queue # <<>> => Len(s.queue) + n <= 1 + FileCount * Cardinality(s.visited)

\* The files are so many.
LEMMA FilesAreFinite ==
    FileCount \in Nat /\ \A V \in SUBSET SourceFiles : IsFiniteSet(V) /\ Cardinality(V) \in Nat /\ Cardinality(V) <= FileCount
<1>1. IsFiniteSet(SourceFiles)
  BY ContextAssumption
<1>2. ASSUME NEW V \in SUBSET SourceFiles
      PROVE  IsFiniteSet(V) /\ Cardinality(V) \in Nat /\ Cardinality(V) <= FileCount
  <2>1. IsFiniteSet(V) /\ Cardinality(V) <= Cardinality(SourceFiles)
    BY <1>1, FS_Subset
  <2>2. Cardinality(V) \in Nat
    BY <2>1, FS_CardinalityType
  <2> QED
    BY <2>1, <2>2 DEF FileCount
<1>3. FileCount \in Nat
  BY <1>1, FS_CardinalityType DEF FileCount
<1> QED
  BY <1>2, <1>3

\* What a file puts in the queue.
LEMMA ExpandedTyped ==
    ASSUME FilesImport, NEW f \in SourceFiles, NEW d \in 0..MaxDepth, NEW V \in SUBSET SourceFiles
    PROVE  LET e == Expanded(f, d, V) IN
           /\ e \in Seq(ItemType) /\ Len(e) \in Nat /\ Len(e) <= FileCount
           /\ \A i \in 1..Len(e) : e[i].depth = d + 1 /\ d < MaxDepth /\ e[i].file \in KnownImports(f)
           /\ d < MaxDepth => \A g \in KnownImports(f) \ V : \E i \in 1..Len(e) : e[i].file = g /\ e[i].depth = d + 1
<1> DEFINE e == Expanded(f, d, V)
           K == KnownImports(f) \ V
           T == {[file |-> g, depth |-> d + 1] : g \in K}
<1>0. MaxDepth \in Nat \ {0} /\ FileCount \in Nat
  BY ContextAssumption, FilesAreFinite
<1>1. KnownImports(f) \subseteq SourceFiles /\ K \in SUBSET SourceFiles
  BY DEF KnownImports, FilesImport
<1>2. CASE d < MaxDepth
  <2>1. e = SetToSeq(T)
    BY <1>2 DEF Expanded
  <2> HIDE DEF e
  <2>2. IsFiniteSet(K) /\ Cardinality(K) <= FileCount
    BY <1>1, FilesAreFinite
  <2>3. d + 1 \in 0..MaxDepth
    BY <1>0, <1>2
  <2>4. T \subseteq ItemType
    BY <1>1, <2>3 DEF ItemType
  <2>5. [g \in K |-> [file |-> g, depth |-> d + 1]] \in Surjection(K, T)
    BY DEF Surjection
  <2>6. IsFiniteSet(T) /\ Cardinality(T) <= Cardinality(K)
    <3> HIDE DEF K, T
    <3> QED
      BY <2>2, <2>5, FS_Surjection
  <2>7. \A t \in T : t.depth = d + 1 /\ t.file \in KnownImports(f)
    OBVIOUS
  <2>8. \A g \in K : [file |-> g, depth |-> d + 1] \in T
    OBVIOUS
  <2>9. Cardinality(K) \in Nat
    BY <1>1, FilesAreFinite
  <2> HIDE DEF T, K
  <2>10. e \in Seq(T) /\ Len(e) = Cardinality(T) /\ Cardinality(T) \in Nat /\ \A x \in T : \E i \in 1..Len(e) : e[i] = x
    BY <2>1, <2>6, SequenceOfSet
  <2>11. e \in Seq(ItemType) /\ Len(e) \in Nat /\ Len(e) <= FileCount
    <3>1. e \in Seq(ItemType)
      BY <2>4, <2>10
    <3> QED
      BY <1>0, <2>2, <2>6, <2>9, <2>10, <3>1
  <2>12. \A i \in 1..Len(e) : e[i] \in T
    BY <2>10
  <2>13. \A g \in K : \E i \in 1..Len(e) : e[i].file = g /\ e[i].depth = d + 1
    <3> SUFFICES ASSUME NEW g \in K
                 PROVE  \E i \in 1..Len(e) : e[i].file = g /\ e[i].depth = d + 1
      OBVIOUS
    <3>1. PICK i \in 1..Len(e) : e[i] = [file |-> g, depth |-> d + 1]
      BY <2>8, <2>10
    <3> QED
      BY <3>1
  <2> QED
    BY <1>2, <2>7, <2>11, <2>12, <2>13 DEF e, K
<1>3. CASE ~(d < MaxDepth)
  <2>1. e = <<>>
    BY <1>3 DEF Expanded
  <2> QED
    BY <1>0, <1>3, <2>1
<1> QED
  BY <1>2, <1>3

\* A turn: nothing is left, its file was visited, or it is now.
LEMMA TurnIs ==
    ASSUME NEW s \in SearchType, FilesImport
    PROVE  LET q == s.queue  t == Turn(s)  e == Expanded(q[1].file, q[1].depth, s.visited) IN
           /\ t \in SearchType
           /\ q = <<>> => t = s
           /\ q # <<>> /\ q[1].file \in s.visited => t.queue = Tail(q) /\ t.visited = s.visited /\ t.depth = s.depth
           /\ q # <<>> /\ q[1].file \notin s.visited =>
                  /\ t.queue = Tail(q) \o e /\ t.visited = s.visited \cup {q[1].file}
                  /\ t.depth = [s.depth EXCEPT ![q[1].file] = q[1].depth]
<1> DEFINE q == s.queue
           t == Turn(s)
           e == Expanded(q[1].file, q[1].depth, s.visited)
<1>1. q \in Seq(ItemType) /\ s.visited \in SUBSET SourceFiles /\ s.depth \in [SourceFiles -> 0..MaxDepth]
  BY DEF SearchType
<1>2. CASE q = <<>>
  BY <1>2 DEF Turn
<1>3. CASE q # <<>>
  <2>1. Head(q) = q[1] /\ q[1] \in ItemType /\ Tail(q) \in Seq(ItemType)
    <3> HIDE DEF q
    <3> QED
      BY <1>1, <1>3
  <2>2. q[1].file \in SourceFiles /\ q[1].depth \in 0..MaxDepth
    BY <2>1 DEF ItemType
  <2>3. CASE q[1].file \in s.visited
    <3>1. t = [s EXCEPT !.queue = Tail(q)]
      BY <1>3, <2>1, <2>3, Zenon DEF Turn
    <3> HIDE DEF t
    <3>2. t.queue = Tail(q) /\ t.visited = s.visited /\ t.depth = s.depth /\ t \in SearchType
      BY <2>1, <3>1 DEF SearchType
    <3> QED
      BY <1>3, <2>3, <3>2 DEF t
  <2>4. CASE q[1].file \notin s.visited
    <3>1. t = [queue |-> Tail(q) \o e, visited |-> s.visited \cup {q[1].file},
               depth |-> [s.depth EXCEPT ![q[1].file] = q[1].depth]]
      BY <1>3, <2>1, <2>4, Zenon DEF Turn, Queued
    <3> HIDE DEF t
    <3>2. e \in Seq(ItemType)
      BY <1>1, <2>2, ExpandedTyped
    <3> HIDE DEF e, q
    <3>3. Tail(q) \o e \in Seq(ItemType)
      BY <2>1, <3>2
    <3>4. [s.depth EXCEPT ![q[1].file] = q[1].depth] \in [SourceFiles -> 0..MaxDepth]
      BY <1>1, <2>2
    <3>5. s.visited \cup {q[1].file} \in SUBSET SourceFiles
      BY <1>1, <2>2
    <3>6. t \in SearchType
      BY <3>1, <3>3, <3>4, <3>5 DEF SearchType
    <3>7. /\ t.queue = Tail(q) \o e /\ t.visited = s.visited \cup {q[1].file}
          /\ t.depth = [s.depth EXCEPT ![q[1].file] = q[1].depth]
      BY <3>1
    <3> QED
      BY <1>3, <2>4, <3>6, <3>7, Zenon DEF t, q, e
  <2> QED
    BY <2>3, <2>4
<1> QED
  BY <1>2, <1>3

\* A turn with something in the queue: its first goes, and what it queues is w.
SearchMoves(s, t, w) ==
    LET q == s.queue  f == q[1].file  d == q[1].depth  m == Len(q) - 1 IN
    /\ s.queue \in Seq(ItemType) /\ Len(q) \in Nat \ {0} /\ f \in SourceFiles /\ d \in 0..MaxDepth
    /\ w \in Seq(ItemType) /\ Len(w) \in Nat /\ Len(t.queue) = m + Len(w)
    /\ \A i \in 1..m : t.queue[i] = q[i + 1]
    /\ \A i \in 1..Len(w) : t.queue[m + i] = w[i]
    /\ \A i \in 1..Len(t.queue) : i \in 1..m \/ i - m \in 1..Len(w)
    /\ \A i \in 1..Len(w) : w[i].depth = d + 1 /\ d < MaxDepth /\ w[i].file \in KnownImports(f)
    /\ \/ f \in s.visited /\ Len(w) = 0 /\ t.visited = s.visited /\ t.depth = s.depth
       \/ /\ f \notin s.visited /\ Len(w) <= FileCount /\ t.visited = s.visited \cup {f}
          /\ t.depth = [s.depth EXCEPT ![f] = d]
          /\ d < MaxDepth => \A g \in KnownImports(f) \ s.visited : \E i \in 1..Len(w) : w[i].file = g /\ w[i].depth = d + 1

\* A turn of the search takes the first that awaits, or leaves the search as it is.
LEMMA TurnMoves ==
    ASSUME NEW s \in SearchType, FilesImport, s.queue # <<>>
    PROVE  \E w : SearchMoves(s, Turn(s), w)
<1> DEFINE q == s.queue
           t == Turn(s)
           f == q[1].file
           d == q[1].depth
           m == Len(q) - 1
           e == Expanded(f, d, s.visited)
<1>1. q \in Seq(ItemType) /\ q # <<>> /\ s.visited \in SUBSET SourceFiles
  BY DEF SearchType
<1>2. /\ Len(q) \in Nat \ {0} /\ q[1] \in ItemType /\ Tail(q) \in Seq(ItemType) /\ Len(Tail(q)) = m /\ m \in Nat
      /\ \A i \in 1..m : Tail(q)[i] = q[i + 1]
  <2> HIDE DEF q
  <2> QED
    BY <1>1
<1>3. f \in SourceFiles /\ d \in 0..MaxDepth
  BY <1>2 DEF ItemType
<1>4. CASE f \in s.visited
  <2>1. t.queue = Tail(q) /\ t.visited = s.visited /\ t.depth = s.depth
    BY <1>1, <1>4, TurnIs
  <2>2. <<>> \in Seq(ItemType) /\ Len(<<>>) = 0 /\ 1..0 = {}
    OBVIOUS
  <2> DEFINE w == <<>>
  <2>3. w \in Seq(ItemType) /\ Len(w) = 0 /\ 1..Len(w) = {}
    BY <2>2
  <2> HIDE DEF w, q, t
  <2>4. Len(t.queue) = m + Len(w) /\ (\A i \in 1..m : t.queue[i] = q[i + 1]) /\ \A i \in 1..Len(t.queue) : i \in 1..m
    BY <1>2, <2>1, <2>3
  <2>5. SearchMoves(s, t, w)
    BY <1>1, <1>2, <1>3, <1>4, <2>1, <2>3, <2>4 DEF SearchMoves, q
  <2> QED
    BY <2>5 DEF t
<1>5. CASE f \notin s.visited
  <2>1. /\ t.queue = Tail(q) \o e /\ t.visited = s.visited \cup {f} /\ t.depth = [s.depth EXCEPT ![f] = d]
    BY <1>1, <1>5, TurnIs
  <2>2. /\ e \in Seq(ItemType) /\ Len(e) \in Nat /\ Len(e) <= FileCount
        /\ \A i \in 1..Len(e) : e[i].depth = d + 1 /\ d < MaxDepth /\ e[i].file \in KnownImports(f)
        /\ d < MaxDepth => \A g \in KnownImports(f) \ s.visited : \E i \in 1..Len(e) : e[i].file = g /\ e[i].depth = d + 1
    BY <1>1, <1>3, ExpandedTyped, SMTT(30)
  <2> HIDE DEF q, e, t, m
  <2>3. /\ Len(Tail(q) \o e) = m + Len(e) /\ \A i \in 1..m : (Tail(q) \o e)[i] = Tail(q)[i]
        /\ \A i \in 1..Len(e) : (Tail(q) \o e)[m + i] = e[i]
    <3> DEFINE u == Tail(q)
    <3>1. u \in Seq(ItemType) /\ e \in Seq(ItemType) /\ Len(u) = m
      BY <1>2, <2>2
    <3> HIDE DEF u
    <3> QED
      BY <1>2, <3>1 DEF u
  <2>4. \A i \in 1..(m + Len(e)) : i \in 1..m \/ i - m \in 1..Len(e)
    BY <1>2, <2>2
  <2>5. /\ Len(t.queue) = m + Len(e) /\ (\A i \in 1..m : t.queue[i] = q[i + 1])
        /\ \A i \in 1..Len(e) : t.queue[m + i] = e[i]
        /\ \A i \in 1..Len(t.queue) : i \in 1..m \/ i - m \in 1..Len(e)
    BY <1>2, <2>1, <2>3, <2>4
  <2>6. SearchMoves(s, t, e)
    BY <1>1, <1>2, <1>3, <1>5, <2>1, <2>2, <2>5 DEF SearchMoves, q, m
  <2> QED
    BY <2>6 DEF t
<1> QED
  BY <1>4, <1>5

\* A search goes on breadth first.
LEMMA AwaitsStays ==
    ASSUME NEW s \in SearchType, NEW t \in SearchType, NEW w, SearchMoves(s, t, w), Behind(s),
           NEW g \in SourceFiles, NEW k \in Nat, Awaits(s, g, k)
    PROVE  Awaits(t, g, k)
<1> DEFINE q == s.queue
           f == q[1].file
           d == q[1].depth
<1>1. /\ s.depth \in [SourceFiles -> 0..MaxDepth] /\ q \in Seq(ItemType) /\ Len(q) \in Nat \ {0} /\ 1 \in 1..Len(q)
      /\ f \in SourceFiles /\ d \in 0..MaxDepth /\ 0..MaxDepth \subseteq Nat
  <2>1. Len(q) \in Nat \ {0} /\ f \in SourceFiles /\ d \in 0..MaxDepth /\ q \in Seq(ItemType)
    BY DEF SearchMoves
  <2>2. 0..MaxDepth \subseteq Nat
    BY ContextAssumption
  <2> QED
    BY <2>1, <2>2 DEF SearchType
<1>2. /\ \A i \in 1..(Len(q) - 1) : t.queue[i] = q[i + 1] /\ i \in 1..Len(t.queue)
      /\ \/ f \in s.visited /\ t.visited = s.visited /\ t.depth = s.depth
         \/ f \notin s.visited /\ t.visited = s.visited \cup {f} /\ t.depth = [s.depth EXCEPT ![f] = d]
  <2>1. Len(t.queue) = Len(q) - 1 + Len(w) /\ Len(w) \in Nat /\ \A i \in 1..(Len(q) - 1) : t.queue[i] = q[i + 1]
    BY DEF SearchMoves
  <2>2. \A i \in 1..(Len(q) - 1) : i \in 1..Len(t.queue)
    BY <1>1, <2>1
  <2> QED
    BY <2>1, <2>2 DEF SearchMoves
<1>3. CASE g \in s.visited /\ s.depth[g] <= k
  <2>1. g \in t.visited /\ t.depth[g] = s.depth[g]
    BY <1>1, <1>2, <1>3
  <2> QED
    BY <1>3, <2>1 DEF Awaits
<1>4. ASSUME NEW i \in 1..Len(q), q[i].file = g, q[i].depth <= k
      PROVE  Awaits(t, g, k)
  <2>1. CASE i = 1
    <3>1. f = g /\ d <= k
      BY <1>4, <2>1
    <3>2. CASE f \in s.visited
      <4>1. s.depth[f] <= d
        BY <1>1, <3>2 DEF Behind
      <4>2. t.depth[f] \in Nat /\ t.depth[f] <= k /\ f \in t.visited
        BY <1>1, <1>2, <3>1, <3>2, <4>1
      <4> QED
        BY <3>1, <4>2 DEF Awaits
    <3>3. CASE f \notin s.visited
      <4>1. t.depth[f] = d /\ f \in t.visited
        BY <1>1, <1>2, <3>3
      <4> QED
        BY <3>1, <4>1 DEF Awaits
    <3> QED
      BY <3>2, <3>3
  <2>2. CASE i # 1
    <3>1. i - 1 \in 1..(Len(q) - 1) /\ (i - 1) + 1 = i
      BY <1>1, <2>2
    <3>2. t.queue[i - 1] = q[i] /\ i - 1 \in 1..Len(t.queue)
      BY <1>2, <3>1
    <3> QED
      BY <1>4, <3>2 DEF Awaits
  <2> QED
    BY <2>1, <2>2
<1> QED
  BY <1>3, <1>4 DEF Awaits

\* What was expanded in a search stays so.
LEMMA CompleteStays ==
    ASSUME FilesImport, NEW s \in SearchType, NEW t \in SearchType, NEW w, SearchMoves(s, t, w), Behind(s),
           NEW f0 \in SourceFiles, Complete(s, f0)
    PROVE  Complete(t, f0)
<1> DEFINE q == s.queue
           f == q[1].file
           d == q[1].depth
<1>0. MaxDepth \in Nat
  BY ContextAssumption
<1>1. Awaits(t, f0, 0)
  BY AwaitsStays DEF Complete
<1>2. /\ s.depth \in [SourceFiles -> 0..MaxDepth] /\ f \in SourceFiles /\ d \in 0..MaxDepth /\ s.visited \subseteq SourceFiles
      /\ Len(q) \in Nat \ {0} /\ q \in Seq(ItemType) /\ Len(w) \in Nat /\ Len(t.queue) = Len(q) - 1 + Len(w)
  BY DEF SearchMoves, SearchType
<1>3. SUFFICES ASSUME NEW g \in t.visited, t.depth[g] < MaxDepth, NEW h \in KnownImports(g)
               PROVE  Awaits(t, h, t.depth[g] + 1)
  BY <1>1 DEF Complete
<1>4. CASE g \in s.visited
  <2>1. t.depth[g] = s.depth[g] /\ t.depth[g] \in Nat /\ g \in SourceFiles
    BY <1>2, <1>4, <1>0, SMTT(30) DEF SearchMoves
  <2>2. Awaits(s, h, s.depth[g] + 1)
    BY <1>3, <1>4, <2>1 DEF Complete
  <2>3. h \in SourceFiles
    BY <2>1 DEF KnownImports, FilesImport
  <2>4. s.depth[g] + 1 \in Nat
    BY <2>1
  <2> QED
    BY <2>1, <2>2, <2>3, <2>4, AwaitsStays
<1>5. CASE g \notin s.visited
  <2>1. g = f /\ t.visited = s.visited \cup {f} /\ t.depth = [s.depth EXCEPT ![f] = d]
    BY <1>5 DEF SearchMoves
  <2>2. t.depth[g] = d /\ h \in KnownImports(f) /\ d < MaxDepth /\ f \notin s.visited
    BY <1>2, <1>3, <1>5, <2>1
  <2>3. h \in SourceFiles
    BY <1>2, <2>2 DEF KnownImports, FilesImport
  <2>4. CASE h \in s.visited
    <3>1. s.depth[h] <= d
      <4>1. 1 \in 1..Len(q)
        BY <1>2
      <4> QED
        BY <2>4, <4>1 DEF Behind
    <3>2. h \in t.visited /\ t.depth[h] = s.depth[h] /\ s.depth[h] \in Nat /\ d \in Nat
      BY <1>0, <1>2, <2>1, <2>2, <2>3, <2>4
    <3> QED
      BY <2>2, <3>1, <3>2 DEF Awaits
  <2>5. CASE h \notin s.visited
    <3>1. PICK i \in 1..Len(w) : w[i].file = h /\ w[i].depth = d + 1
      BY <2>2, <2>5 DEF SearchMoves
    <3>2. t.queue[Len(q) - 1 + i] = w[i]
      BY DEF SearchMoves
    <3>3. Len(q) - 1 + i \in 1..Len(t.queue)
      BY <1>2
    <3>4. d + 1 <= d + 1
      BY <1>2
    <3> QED
      BY <2>2, <3>1, <3>2, <3>3, <3>4 DEF Awaits
  <2> QED
    BY <2>4, <2>5
<1> QED
  BY <1>4, <1>5

\* The queue stays in the order of the depths.
LEMMA RisingStays ==
    ASSUME NEW s \in SearchType, NEW t \in SearchType, NEW w, SearchMoves(s, t, w), Behind(s), Rising(s)
    PROVE  Behind(t) /\ Rising(t)
<1> DEFINE q == s.queue
           f == q[1].file
           d == q[1].depth
           m == Len(q) - 1
<1>0. MaxDepth \in Nat
  BY ContextAssumption
<1>1. /\ s.depth \in [SourceFiles -> 0..MaxDepth] /\ f \in SourceFiles /\ d \in 0..MaxDepth /\ s.visited \subseteq SourceFiles
      /\ Len(q) \in Nat \ {0} /\ q \in Seq(ItemType) /\ m \in Nat
  BY DEF SearchMoves, SearchType
<1>2. /\ \A i \in 1..m : t.queue[i] = q[i + 1]
      /\ \A i \in 1..Len(w) : t.queue[m + i] = w[i]
      /\ \A i \in 1..Len(t.queue) : i \in 1..m \/ i - m \in 1..Len(w)
      /\ \A i \in 1..Len(w) : w[i].depth = d + 1
      /\ Len(w) \in Nat /\ Len(t.queue) = m + Len(w)
  BY DEF SearchMoves
<1>3. /\ \A i \in 1..Len(q) : q[i].depth \in Nat /\ d <= q[i].depth /\ q[i].depth <= d + 1
      /\ \A i, j \in 1..Len(q) : i <= j => q[i].depth <= q[j].depth
  <2>1. \A i \in 1..Len(q) : q[i] \in ItemType /\ 1 \in 1..Len(q) /\ 1 <= i
    BY <1>1
  <2>2. \A i \in 1..Len(q) : q[i].depth \in 0..MaxDepth
    BY <2>1 DEF ItemType
  <2>3. \A i \in 1..Len(q) : q[i].depth \in Nat
    BY <1>0, <2>2
  <2>4. \A i, j \in 1..Len(q) : i <= j => q[i].depth <= q[j].depth /\ q[j].depth <= q[i].depth + 1
    BY DEF Rising
  <2>5. \A i \in 1..Len(q) : d <= q[i].depth /\ q[i].depth <= d + 1
    BY <2>1, <2>4
  <2> QED
    BY <2>3, <2>4, <2>5
<1>d. d \in Nat
  BY <1>0, <1>1
<1> HIDE DEF m, d, f
\* The items after a turn are of the first's depth, or one more.
<1>4. \A i \in 1..Len(t.queue) : \/ i \in 1..m /\ t.queue[i] = q[i + 1] /\ i + 1 \in 1..Len(q)
                                 \/ i > m /\ t.queue[i].depth = d + 1
  <2> SUFFICES ASSUME NEW i \in 1..Len(t.queue)
               PROVE  \/ i \in 1..m /\ t.queue[i] = q[i + 1] /\ i + 1 \in 1..Len(q)
                      \/ i > m /\ t.queue[i].depth = d + 1
    OBVIOUS
  <2>1. CASE i \in 1..m
    BY <1>1, <1>2, <2>1 DEF m
  <2>2. CASE i - m \in 1..Len(w)
    <3>1. m + (i - m) = i /\ i > m
      BY <1>1, <1>2, <2>2
    <3>2. t.queue[m + (i - m)] = w[i - m] /\ w[i - m].depth = d + 1
      BY <1>2, <2>2
    <3> QED
      BY <3>1, <3>2
  <2> QED
    BY <1>2, <2>1, <2>2
<1>5. \A i \in 1..Len(t.queue) : t.queue[i].depth \in Nat /\ d <= t.queue[i].depth /\ t.queue[i].depth <= d + 1
  BY <1>3, <1>4, <1>d
<1>6. \A i, j \in 1..Len(t.queue) : i <= j => t.queue[i].depth <= t.queue[j].depth
  <2> SUFFICES ASSUME NEW i \in 1..Len(t.queue), NEW j \in 1..Len(t.queue), i <= j
               PROVE  t.queue[i].depth <= t.queue[j].depth
    OBVIOUS
  <2>1. CASE j > m
    <3>1. t.queue[j].depth = d + 1
      BY <1>1, <1>4, <2>1
    <3> QED
      BY <1>5, <3>1
  <2>2. CASE ~(j > m)
    <3>1. i \in 1..m /\ j \in 1..m
      BY <1>1, <1>2, <2>2
    <3>2. t.queue[i] = q[i + 1] /\ t.queue[j] = q[j + 1] /\ i + 1 \in 1..Len(q) /\ j + 1 \in 1..Len(q) /\ i + 1 <= j + 1
      BY <1>1, <1>2, <3>1 DEF m
    <3> QED
      BY <1>3, <3>2
  <2> QED
    BY <2>1, <2>2
<1>7. Rising(t)
  <2> SUFFICES ASSUME NEW i \in 1..Len(t.queue), NEW j \in 1..Len(t.queue), i <= j
               PROVE  t.queue[i].depth <= t.queue[j].depth /\ t.queue[j].depth <= t.queue[i].depth + 1
    BY DEF Rising
  <2> QED
    BY <1>5, <1>6, <1>d, SMTT(30)
<1>8. \A g \in t.visited : t.depth[g] \in Nat /\ t.depth[g] <= d
  <2> SUFFICES ASSUME NEW g \in t.visited
               PROVE  t.depth[g] \in Nat /\ t.depth[g] <= d
    OBVIOUS
  <2>1. \A x \in s.visited : s.depth[x] \in Nat /\ s.depth[x] <= d
    <3>1. 1 \in 1..Len(q)
      BY <1>1
    <3> QED
      BY <1>0, <1>1, <3>1 DEF Behind, d
  <2>2. \/ g \in s.visited /\ t.depth[g] = s.depth[g]
        \/ t.depth[g] = d
    BY <1>1 DEF SearchMoves, d, f
  <2> QED
    BY <1>d, <2>1, <2>2
<1>9. Behind(t)
  BY <1>5, <1>8, <1>d DEF Behind
<1> QED
  BY <1>7, <1>9

\* A file is reached in as many steps as it is deep.
Reach(R, f) == R \in [0..MaxDepth -> SUBSET SourceFiles] /\ R[0] = {f} /\
    \A k \in 1..MaxDepth : R[k] = R[k - 1] \cup UNION {KnownImports(g) : g \in R[k - 1]}

\* What was visited in a search was reached by imports.
LEMMA ReachedStays ==
    ASSUME NEW s \in SearchType, NEW t \in SearchType, NEW w, SearchMoves(s, t, w), NEW R, NEW f0, Reach(R, f0), ReachedByImports(s, R)
    PROVE  ReachedByImports(t, R)
<1> DEFINE q == s.queue
           f == q[1].file
           d == q[1].depth
           m == Len(q) - 1
<1>0. MaxDepth \in Nat
  BY ContextAssumption
<1>1. /\ s.depth \in [SourceFiles -> 0..MaxDepth] /\ f \in SourceFiles /\ d \in 0..MaxDepth /\ s.visited \subseteq SourceFiles
      /\ Len(q) \in Nat \ {0} /\ m \in Nat /\ 1 \in 1..Len(q)
  BY DEF SearchMoves, SearchType
<1>2. f \in R[d]
  BY <1>1 DEF ReachedByImports
<1>3. \A g \in t.visited : g \in R[t.depth[g]]
  <2> SUFFICES ASSUME NEW g \in t.visited
               PROVE  g \in R[t.depth[g]]
    OBVIOUS
  <2>1. \/ g \in s.visited /\ t.depth[g] = s.depth[g]
        \/ g = f /\ t.depth[g] = d
    BY <1>1 DEF SearchMoves
  <2> QED
    BY <1>2, <2>1 DEF ReachedByImports
<1>4. ASSUME NEW i \in 1..Len(t.queue)
      PROVE  t.queue[i].file \in R[t.queue[i].depth]
  <2>1. i \in 1..m \/ i - m \in 1..Len(w)
    BY DEF SearchMoves
  <2>2. CASE i \in 1..m
    <3>1. t.queue[i] = q[i + 1]
      BY <2>2 DEF SearchMoves
    <3>2. i + 1 \in 1..Len(q)
      BY <1>1, <2>2
    <3> QED
      BY <3>1, <3>2 DEF ReachedByImports
  <2>3. CASE i - m \in 1..Len(w)
    <3>1. m + (i - m) = i
      <4>1. Len(t.queue) \in Nat
        BY <1>1 DEF SearchMoves
      <4>2. i \in Nat /\ m \in Nat
        BY <1>1, <4>1
      <4> HIDE DEF m
      <4> QED
        BY <4>2
    <3>2. t.queue[m + (i - m)] = w[i - m] /\ w[i - m].depth = d + 1 /\ d < MaxDepth /\ w[i - m].file \in KnownImports(f)
      BY <2>3 DEF SearchMoves
    <3>3. d + 1 \in 1..MaxDepth /\ (d + 1) - 1 = d
      <4>1. d < MaxDepth /\ d \in 0..MaxDepth
        BY <1>1, <3>2
      <4> HIDE DEF d
      <4> QED
        BY <1>0, <4>1
    <3>4. R[d + 1] = R[d] \cup UNION {KnownImports(g) : g \in R[d]}
      BY <3>3 DEF Reach
    <3>5. w[i - m].file \in R[d + 1]
      BY <1>2, <3>2, <3>4
    <3> QED
      BY <3>1, <3>2, <3>5
  <2> QED
    BY <2>1, <2>2, <2>3
<1> QED
  BY <1>3, <1>4 DEF ReachedByImports

\* A file that is added to the visited ones is one more of them.
LEMMA MoreFiles ==
    ASSUME NEW n \in Nat, NEW v \in Nat
    PROVE  n * (v + 1) = n * v + n /\ (v <= n => n * v <= n * n)
<1>1. n * (v + 1) = n * v + n
  OBVIOUS
<1>2. ASSUME v <= n
      PROVE  n * v <= n * n
  BY <1>2
<1> QED
  BY <1>1, <1>2

\* Each turn leaves fewer to be taken.
LEMMA TurnsGoDown ==
    ASSUME NEW s \in SearchType, NEW t \in SearchType, NEW w, SearchMoves(s, t, w), NEW n \in Nat, TurnsLeft(s, n), s.queue # <<>>
    PROVE  TurnsLeft(t, n + 1)
<1> DEFINE v == Cardinality(s.visited)
           l == Len(s.queue)
<1>1. v \in Nat /\ FileCount \in Nat /\ IsFiniteSet(s.visited)
  BY FilesAreFinite DEF SearchType
<1>2. l + n <= 1 + FileCount * v /\ l \in Nat \ {0} /\ Len(t.queue) = l - 1 + Len(w) /\ Len(w) \in Nat
  BY DEF TurnsLeft, SearchMoves
<1> HIDE DEF l, v
<1>3. CASE Len(w) = 0 /\ t.visited = s.visited
  <2>1. Cardinality(t.visited) = v
    BY <1>3 DEF v
  <2>2. FileCount * v \in Nat
    BY <1>1
  <2> HIDE DEF FileCount
  <2>3. Len(t.queue) + (n + 1) <= 1 + FileCount * v
    BY <1>2, <1>3, <2>2
  <2> QED
    BY <2>1, <2>3 DEF TurnsLeft
<1>4. CASE s.queue[1].file \notin s.visited /\ Len(w) <= FileCount /\ t.visited = s.visited \cup {s.queue[1].file}
  <2>1. Cardinality(t.visited) = v + 1
    BY <1>1, <1>4, FS_AddElement DEF v
  <2>2. FileCount * (v + 1) = FileCount * v + FileCount /\ FileCount * v \in Nat
    BY <1>1, MoreFiles
  <2> HIDE DEF FileCount
  <2>3. Len(t.queue) + (n + 1) <= 1 + (FileCount * v + FileCount)
    BY <1>1, <1>2, <1>4, <2>2
  <2> QED
    BY <2>1, <2>2, <2>3 DEF TurnsLeft
<1> QED
  BY <1>3, <1>4 DEF SearchMoves

FirstSearch(f) == [queue |-> <<[file |-> f, depth |-> 0]>>, visited |-> {}, depth |-> [g \in SourceFiles |-> 0]]

\* A search begins with the file alone, and nothing visited.
LEMMA FirstSearchIs ==
    ASSUME NEW f \in SourceFiles
    PROVE  LET s == FirstSearch(f) IN
           s \in SearchType /\ Len(s.queue) = 1 /\ s.queue[1] = [file |-> f, depth |-> 0] /\ s.visited = {}
<1> DEFINE s == FirstSearch(f)
           item == [file |-> f, depth |-> 0]
<1>1. MaxDepth \in Nat /\ FileCount \in Nat
  BY ContextAssumption, FilesAreFinite
<1>2. item \in ItemType
  BY <1>1 DEF ItemType
<1> HIDE DEF item
<1>3. <<item>> \in Seq(ItemType) /\ Len(<<item>>) = 1 /\ <<item>>[1] = item
  BY <1>2
<1>4. s = [queue |-> <<item>>, visited |-> {}, depth |-> [g \in SourceFiles |-> 0]]
  BY DEF FirstSearch, item
<1>5. [g \in SourceFiles |-> 0] \in [SourceFiles -> 0..MaxDepth]
  BY <1>1
<1> HIDE DEF s
<1>6. s \in SearchType
  BY <1>3, <1>4, <1>5 DEF SearchType
<1> QED
  BY <1>3, <1>4, <1>6 DEF item, s

\* The turns of a search are numbers.
LEMMA TurnsAre == Turns \in Nat /\ Turns = FileCount * FileCount + 1
<1>1. Turns = FileCount * FileCount + 1
  BY DEF Turns, FileCount
<1>2. FileCount \in Nat
  BY FilesAreFinite
<1> HIDE DEF FileCount
<1> QED
  BY <1>1, <1>2

\* A search runs: each turn goes on from the one before.
LEMMA SearchRuns ==
    ASSUME NEW f \in SourceFiles, FilesImport
    PROVE  /\ Search(f)[0] = FirstSearch(f)
           /\ \A n \in 1..Turns : Search(f)[n] = Turn(Search(f)[n - 1])
           /\ \A n \in 0..Turns : Search(f)[n] \in SearchType
<1> DEFINE N == Turns
           x0 == FirstSearch(f)
           Turned(s) == [n \in 0..N |-> IF n = 0 THEN x0 ELSE Turn(s[n - 1])]
           after == CHOOSE s : s = Turned(s)
           step == [p \in (1..N) \X SearchType |-> Turn(p[2])]
<1>1. N \in Nat /\ x0 \in SearchType
  BY FirstSearchIs, TurnsAre
<1>a. \A n \in 1..N, x \in SearchType : step[<<n, x>>] = Turn(x)
  OBVIOUS
<1>b. StaysIn(SearchType, N, step)
  <2> SUFFICES ASSUME NEW n \in 1..N, NEW x \in SearchType
               PROVE  step[<<n, x>>] \in SearchType
    BY DEF StaysIn
  <2>1. step[<<n, x>>] = Turn(x)
    BY <1>a
  <2> HIDE DEF step
  <2> QED
    BY <2>1, TurnIs
<1>2. PICK g \in [0..N -> SearchType] : LoopRuns(g, N, x0, step)
  <2> HIDE DEF step, N, x0
  <2> QED
    BY <1>1, <1>b, RecursionExists
<1>3. g = Turned(g)
  <2>1. \A n \in 1..N : n - 1 \in 0..N /\ g[n] = Turn(g[n - 1])
    <3> SUFFICES ASSUME NEW n \in 1..N
                 PROVE  n - 1 \in 0..N /\ g[n] = Turn(g[n - 1])
      OBVIOUS
    <3>1. n - 1 \in 0..N /\ g[n - 1] \in SearchType
      <4>1. n - 1 \in 0..N
        <5> HIDE DEF N
        <5> QED
          BY <1>1
      <4> HIDE DEF N
      <4> QED
        BY <1>2, <4>1, Zenon
    <3>2. g[n] = step[<<n, g[n - 1]>>]
      BY <1>2 DEF LoopRuns
    <3> HIDE DEF step
    <3> QED
      BY <1>a, <3>1, <3>2
  <2> HIDE DEF step, x0
  <2>2. \A n \in 0..N : g[n] = IF n = 0 THEN x0 ELSE Turn(g[n - 1])
    BY <1>1, <1>2, <2>1 DEF LoopRuns
  <2> QED
    BY <2>2
<1>4. after = Turned(after)
  <2>1. after = CHOOSE s : s = Turned(s)
    OBVIOUS
  <2> HIDE DEF Turned, after
  <2> QED
    BY <1>3, <2>1, Zenon
<1>5. Search(f) = after
  BY DEF Search, FirstSearch
<1> HIDE DEF after
<1>6. after[0] = x0 /\ \A n \in 1..N : after[n] = Turn(after[n - 1])
  <2> HIDE DEF x0
  <2>1. \A n \in 0..N : Turned(after)[n] = IF n = 0 THEN x0 ELSE Turn(after[n - 1])
    OBVIOUS
  <2>2. \A n \in 0..N : after[n] = IF n = 0 THEN x0 ELSE Turn(after[n - 1])
    <3> HIDE DEF Turned
    <3> QED
      BY <1>4, <2>1, Zenon
  <2>3. 0 \in 0..N /\ \A n \in 1..N : n \in 0..N /\ n # 0
    <3> HIDE DEF N
    <3> QED
      BY <1>1
  <2> QED
    BY <2>2, <2>3
<1>7. LoopFollows(after, SearchType, N, x0, step)
  <2> HIDE DEF N, step, x0
  <2> QED
    BY <1>1, <1>a, <1>6 DEF LoopFollows
<1>8. \A n \in 0..N : after[n] \in SearchType
  <2> HIDE DEF step, N, x0
  <2> QED
    BY <1>1, <1>b, <1>7, RecursionStays
<1> QED
  BY <1>5, <1>6, <1>8

\* So does the definition of what is near.
LEMMA WithinRuns ==
    ASSUME NEW f \in SourceFiles, FilesImport
    PROVE  Reach(Within(f, MaxDepth), f)
<1> DEFINE N == MaxDepth
           X == SUBSET SourceFiles
           Near(x) == x \cup UNION {KnownImports(g) : g \in x}
           Turned(s) == [n \in 0..N |-> IF n = 0 THEN {f} ELSE s[n - 1] \cup UNION {KnownImports(g) : g \in s[n - 1]}]
           after == CHOOSE s : s = Turned(s)
           step == [p \in (1..N) \X X |-> Near(p[2])]
<1>1. N \in Nat /\ {f} \in X
  BY ContextAssumption
<1>a. \A n \in 1..N, x \in X : step[<<n, x>>] = Near(x)
  <2> HIDE DEF Near
  <2> QED
    OBVIOUS
<1>b. StaysIn(X, N, step)
  <2> SUFFICES ASSUME NEW n \in 1..N, NEW x \in X
               PROVE  step[<<n, x>>] \in X
    BY DEF StaysIn
  <2>1. step[<<n, x>>] = Near(x)
    BY <1>a
  <2>2. Near(x) \in X
    BY DEF KnownImports, FilesImport
  <2> HIDE DEF step
  <2> QED
    BY <2>1, <2>2
<1>2. PICK g \in [0..N -> X] : LoopRuns(g, N, {f}, step)
  <2> HIDE DEF step, N, X
  <2> QED
    BY <1>1, <1>b, RecursionExists
<1>3. g = Turned(g)
  <2>1. \A n \in 1..N : n - 1 \in 0..N /\ g[n] = Near(g[n - 1])
    <3> SUFFICES ASSUME NEW n \in 1..N
                 PROVE  n - 1 \in 0..N /\ g[n] = Near(g[n - 1])
      OBVIOUS
    <3>1. n - 1 \in 0..N /\ g[n - 1] \in X
      <4>1. n - 1 \in 0..N
        BY <1>1
      <4> HIDE DEF N
      <4> QED
        BY <1>2, <4>1, Zenon
    <3>2. g[n] = step[<<n, g[n - 1]>>]
      BY <1>2 DEF LoopRuns
    <3> HIDE DEF step, Near
    <3> QED
      BY <1>a, <3>1, <3>2
  <2> HIDE DEF step
  <2>2. \A n \in 0..N : g[n] = IF n = 0 THEN {f} ELSE g[n - 1] \cup UNION {KnownImports(h) : h \in g[n - 1]}
    <3> SUFFICES ASSUME NEW n \in 0..N
                 PROVE  g[n] = IF n = 0 THEN {f} ELSE g[n - 1] \cup UNION {KnownImports(h) : h \in g[n - 1]}
      OBVIOUS
    <3>1. CASE n = 0
      BY <1>2, <3>1 DEF LoopRuns
    <3>2. CASE n # 0
      <4>1. n \in 1..N
        BY <1>1, <3>2
      <4> QED
        BY <2>1, <3>2, <4>1
    <3> QED
      BY <3>1, <3>2
  <2> QED
    BY <2>2
<1>4. after = Turned(after)
  <2>1. after = CHOOSE s : s = Turned(s)
    OBVIOUS
  <2> HIDE DEF Turned, after
  <2> QED
    BY <1>3, <2>1, Zenon
<1>5. Within(f, MaxDepth) = after
  BY DEF Within
<1> HIDE DEF after
<1>6. after[0] = {f} /\ (\A n \in 1..N : after[n] = Near(after[n - 1])) /\ DOMAIN after = 0..N /\ after = [n \in 0..N |-> after[n]]
  <2>1. \A n \in 0..N : Turned(after)[n] = IF n = 0 THEN {f} ELSE Near(after[n - 1])
    OBVIOUS
  <2>2. \A n \in 0..N : after[n] = IF n = 0 THEN {f} ELSE Near(after[n - 1])
    <3> HIDE DEF Turned, Near
    <3> QED
      BY <1>4, <2>1, Zenon
  <2>3. 0 \in 0..N /\ \A n \in 1..N : n \in 0..N /\ n # 0
    BY <1>1
  <2>4. DOMAIN after = 0..N /\ after = [n \in 0..N |-> after[n]]
    <3>1. DOMAIN Turned(after) = 0..N /\ Turned(after) = [n \in 0..N |-> Turned(after)[n]]
      OBVIOUS
    <3> HIDE DEF Turned
    <3> QED
      BY <1>4, <3>1, Zenon
  <2> HIDE DEF Near, Turned
  <2> QED
    BY <2>2, <2>3, <2>4
<1>7. LoopFollows(after, X, N, {f}, step)
  <2> HIDE DEF N, step, X, Near
  <2> QED
    BY <1>1, <1>a, <1>6 DEF LoopFollows
<1>8. \A n \in 0..N : after[n] \in X
  <2> HIDE DEF step, N, X
  <2> QED
    BY <1>1, <1>b, <1>7, RecursionStays
<1>9. after \in [0..N -> X]
  <2> HIDE DEF N, X
  <2> QED
    BY <1>6, <1>8
<1> QED
  BY <1>5, <1>6, <1>9 DEF Reach

\* The invariant of a search.
SearchInv(s, n, f, R) == Rising(s) /\ Behind(s) /\ ReachedByImports(s, R) /\ Complete(s, f) /\ TurnsLeft(s, n)

\* What is said of a search holds after every turn of it.
LEMMA SearchKeeps ==
    ASSUME NEW f \in SourceFiles, FilesImport, NEW R, Reach(R, f)
    PROVE  \A n \in 0..Turns : SearchInv(Search(f)[n], n, f, R)
<1> DEFINE S == {n \in Nat : n <= Turns => SearchInv(Search(f)[n], n, f, R)}
<1>1. 0 \in S
  <2> DEFINE s == FirstSearch(f)
  <2>1. s \in SearchType /\ Len(s.queue) = 1 /\ s.queue[1] = [file |-> f, depth |-> 0] /\ s.visited = {}
    BY FirstSearchIs
  <2> HIDE DEF s
  <2>2. s.queue[1].file = f /\ s.queue[1].depth = 0 /\ \A i \in 1..Len(s.queue) : i = 1
    BY <2>1
  <2>3. Rising(s)
    BY <2>2 DEF Rising
  <2>4. Behind(s)
    BY <2>1 DEF Behind
  <2>5. ReachedByImports(s, R)
    BY <2>1, <2>2 DEF ReachedByImports, Reach
  <2>6. Complete(s, f)
    BY <2>1, <2>2 DEF Complete, Awaits
  <2>7. TurnsLeft(s, 0)
    <3>1. Cardinality(s.visited) = 0 /\ FileCount \in Nat
      BY <2>1, FS_EmptySet, FilesAreFinite
    <3> HIDE DEF FileCount
    <3> QED
      BY <2>1, <3>1 DEF TurnsLeft
  <2>8. SearchInv(s, 0, f, R)
    BY <2>3, <2>4, <2>5, <2>6, <2>7 DEF SearchInv
  <2>9. Search(f)[0] = s
    BY SearchRuns DEF s
  <2> QED
    BY <2>8, <2>9
<1>2. ASSUME NEW n \in Nat, n \in S
      PROVE  n + 1 \in S
  <2> SUFFICES ASSUME n + 1 <= Turns
               PROVE  SearchInv(Search(f)[n + 1], n + 1, f, R)
    OBVIOUS
  <2> DEFINE s == Search(f)[n]
             t == Search(f)[n + 1]
  <2>1. n \in 0..Turns /\ n + 1 \in 0..Turns /\ n + 1 \in 1..Turns /\ (n + 1) - 1 = n
    BY TurnsAre
  <2>2. s \in SearchType /\ t \in SearchType /\ t = Turn(s)
    <3>1. s \in SearchType /\ t \in SearchType
      BY <2>1, SearchRuns
    <3>2. t = Turn(Search(f)[(n + 1) - 1])
      BY <2>1, SearchRuns
    <3> QED
      BY <2>1, <3>1, <3>2
  <2>3. SearchInv(s, n, f, R)
    BY <1>2, <2>1
  <2> HIDE DEF s, t
  <2>4. CASE s.queue = <<>>
    <3>1. t = s
      BY <2>2, <2>4, TurnIs
    <3> QED
      BY <2>3, <2>4, <3>1 DEF SearchInv, TurnsLeft, t
  <2>5. CASE s.queue # <<>>
    <3>1. PICK w : SearchMoves(s, t, w)
      BY <2>2, <2>5, TurnMoves
    <3>2. Rising(t) /\ Behind(t)
      BY <2>2, <2>3, <3>1, RisingStays DEF SearchInv
    <3>3. ReachedByImports(t, R)
      BY <2>2, <2>3, <3>1, ReachedStays DEF SearchInv
    <3>4. Complete(t, f)
      BY <2>2, <2>3, <3>1, CompleteStays DEF SearchInv
    <3>5. TurnsLeft(t, n + 1)
      BY <2>2, <2>3, <2>5, <3>1, TurnsGoDown DEF SearchInv
    <3> QED
      BY <3>2, <3>3, <3>4, <3>5 DEF SearchInv, t
  <2> QED
    BY <2>4, <2>5
<1>3. Nat \subseteq S
  <2> HIDE DEF S
  <2> QED
    BY <1>1, <1>2, EveryNumber
<1> QED
  BY <1>3, TurnsAre

\* After its turns a search has nothing left.
LEMMA SearchEnds ==
    ASSUME NEW f \in SourceFiles, FilesImport, NEW R, Reach(R, f)
    PROVE  LET s == Search(f)[Turns] IN s \in SearchType /\ s.queue = <<>> /\ ReachedByImports(s, R) /\ Complete(s, f)
<1> DEFINE s == Search(f)[Turns]
           v == Cardinality(s.visited)
<1>1. Turns \in Nat /\ Turns = FileCount * FileCount + 1 /\ Turns \in 0..Turns
  BY TurnsAre
<1>2. s \in SearchType /\ SearchInv(s, Turns, f, R)
  BY <1>1, SearchRuns, SearchKeeps
<1> HIDE DEF s
<1>3. v \in Nat /\ v <= FileCount /\ FileCount \in Nat
  BY <1>2, FilesAreFinite DEF SearchType
<1>4. s.queue = <<>>
  <2> SUFFICES ASSUME s.queue # <<>>
               PROVE  FALSE
    OBVIOUS
  <2>1. s.queue \in Seq(ItemType) /\ Len(s.queue) + Turns <= 1 + FileCount * v
    BY <1>2 DEF SearchType, SearchInv, TurnsLeft
  <2>2. Len(s.queue) \in Nat \ {0}
    BY <2>1
  <2> HIDE DEF v, FileCount
  <2>3. FileCount * v <= FileCount * FileCount /\ FileCount * v \in Nat /\ FileCount * FileCount \in Nat
    BY <1>3, MoreFiles
  <2> QED
    BY <1>1, <2>1, <2>2, <2>3
<1> QED
  BY <1>2, <1>4 DEF SearchInv, s

\* What is reached in some steps is reached in more.
LEMMA ReachRises ==
    ASSUME NEW f, NEW R, Reach(R, f), NEW j \in 0..MaxDepth, NEW k \in 0..MaxDepth, j <= k
    PROVE  R[j] \subseteq R[k]
<1> DEFINE S == {n \in Nat : j + n <= MaxDepth => R[j] \subseteq R[j + n]}
<1>0. MaxDepth \in Nat /\ j \in Nat /\ k \in Nat
  BY ContextAssumption
<1>1. 0 \in S
  BY <1>0
<1>2. ASSUME NEW n \in Nat, n \in S
      PROVE  n + 1 \in S
  <2> SUFFICES ASSUME j + (n + 1) <= MaxDepth
               PROVE  R[j] \subseteq R[j + (n + 1)]
    OBVIOUS
  <2>1. j + (n + 1) \in 1..MaxDepth /\ (j + (n + 1)) - 1 = j + n /\ j + n <= MaxDepth
    BY <1>0
  <2>2. R[j] \subseteq R[j + n]
    BY <1>2, <2>1
  <2>3. R[j + (n + 1)] = R[(j + (n + 1)) - 1] \cup UNION {KnownImports(g) : g \in R[(j + (n + 1)) - 1]}
    BY <2>1 DEF Reach
  <2> QED
    BY <2>1, <2>2, <2>3
<1>3. Nat \subseteq S
  <2> HIDE DEF S
  <2> QED
    BY <1>1, <1>2, EveryNumber
<1>4. k - j \in Nat /\ j + (k - j) = k
  BY <1>0
<1> QED
  BY <1>0, <1>3, <1>4

\* A search that has nothing left has visited what is near, at its depth or less.
LEMMA SearchFinds ==
    ASSUME NEW f \in SourceFiles, FilesImport, NEW R, Reach(R, f), NEW s \in SearchType, s.queue = <<>>, Complete(s, f)
    PROVE  \A k \in 0..MaxDepth : \A g \in R[k] : g \in s.visited /\ s.depth[g] <= k
<1> DEFINE S == {k \in Nat : k <= MaxDepth => \A g \in R[k] : g \in s.visited /\ s.depth[g] <= k}
<1>0. MaxDepth \in Nat /\ s.depth \in [SourceFiles -> 0..MaxDepth] /\ s.visited \subseteq SourceFiles
  BY ContextAssumption DEF SearchType
<1>1. \A g, k : Awaits(s, g, k) => g \in s.visited /\ s.depth[g] <= k
  BY DEF Awaits
<1>2. 0 \in S
  BY <1>0, <1>1 DEF Complete, Reach
<1>3. ASSUME NEW k \in Nat, k \in S
      PROVE  k + 1 \in S
  <2> SUFFICES ASSUME k + 1 <= MaxDepth, NEW g \in R[k + 1]
               PROVE  g \in s.visited /\ s.depth[g] <= k + 1
    OBVIOUS
  <2>1. k + 1 \in 1..MaxDepth /\ (k + 1) - 1 = k /\ k < MaxDepth
    BY <1>0
  <2>2. R[k + 1] = R[k] \cup UNION {KnownImports(h) : h \in R[k]}
    BY <2>1 DEF Reach
  <2>3. \A h \in R[k] : h \in s.visited /\ s.depth[h] <= k
    BY <1>3, <2>1, <1>0
  <2>4. CASE g \in R[k]
    BY <1>0, <2>3, <2>4
  <2>5. CASE g \notin R[k]
    <3>1. PICK h \in R[k] : g \in KnownImports(h)
      BY <2>2, <2>5
    <3>2. h \in s.visited /\ s.depth[h] <= k /\ s.depth[h] \in Nat /\ s.depth[h] < MaxDepth
      BY <1>0, <2>1, <2>3
    <3>3. Awaits(s, g, s.depth[h] + 1)
      BY <3>1, <3>2 DEF Complete
    <3>4. g \in s.visited /\ s.depth[g] <= s.depth[h] + 1
      BY <1>1, <3>3
    <3>5. s.depth[g] \in Nat
      BY <1>0, <3>4
    <3> QED
      BY <3>2, <3>4, <3>5
  <2> QED
    BY <2>4, <2>5
<1>4. Nat \subseteq S
  <2> HIDE DEF S
  <2> QED
    BY <1>2, <1>3, EveryNumber
<1>5. \A k \in 0..MaxDepth : k \in Nat /\ k <= MaxDepth
  BY <1>0
<1> QED
  BY <1>4, <1>5

\* The dependencies of a file are those that are near, at their distance.
LEMMA DependenciesAre ==
    ASSUME NEW f \in SourceFiles, FilesImport
    PROVE  LET R == Within(f, MaxDepth) IN
           /\ Reach(R, f)
           /\ Dependencies(f) = UNION {{[file |-> g, depth |-> k] : g \in R[k] \ R[k - 1]} : k \in 1..MaxDepth}
<1> DEFINE R == Within(f, MaxDepth)
           s == Search(f)[Turns]
           V == s.visited \ {f}
           D == UNION {{[file |-> g, depth |-> k] : g \in R[k] \ R[k - 1]} : k \in 1..MaxDepth}
<1>1. Reach(R, f)
  BY WithinRuns
<1> HIDE DEF R
<1>2. s \in SearchType /\ s.queue = <<>> /\ ReachedByImports(s, R) /\ Complete(s, f)
  BY <1>1, SearchEnds
<1>3. Dependencies(f) = {[file |-> g, depth |-> s.depth[g]] : g \in V}
  BY DEF Dependencies
<1> HIDE DEF s
<1>4. \A k \in 0..MaxDepth : \A g \in R[k] : g \in s.visited /\ s.depth[g] <= k
  BY <1>1, <1>2, SearchFinds
<1>0. /\ MaxDepth \in Nat /\ s.depth \in [SourceFiles -> 0..MaxDepth] /\ s.visited \subseteq SourceFiles
      /\ R[0] = {f}
  BY <1>1, <1>2, ContextAssumption DEF SearchType, Reach
<1>5. \A g \in V : s.depth[g] \in 1..MaxDepth /\ g \in R[s.depth[g]] \ R[s.depth[g] - 1]
  <2> SUFFICES ASSUME NEW g \in V
               PROVE  s.depth[g] \in 1..MaxDepth /\ g \in R[s.depth[g]] \ R[s.depth[g] - 1]
    OBVIOUS
  <2>1. g \in R[s.depth[g]] /\ s.depth[g] \in 0..MaxDepth
    BY <1>0, <1>2 DEF ReachedByImports
  <2>2. s.depth[g] # 0
    BY <1>0, <2>1
  <2>3. s.depth[g] \in 1..MaxDepth /\ s.depth[g] - 1 \in 0..MaxDepth /\ ~(s.depth[g] <= s.depth[g] - 1)
    BY <1>0, <2>1, <2>2
  <2> QED
    BY <1>4, <2>1, <2>3
<1>6. \A k \in 1..MaxDepth : \A g \in R[k] \ R[k - 1] : g \in V /\ s.depth[g] = k
  <2> SUFFICES ASSUME NEW k \in 1..MaxDepth, NEW g \in R[k] \ R[k - 1]
               PROVE  g \in V /\ s.depth[g] = k
    OBVIOUS
  <2>1. k \in 0..MaxDepth /\ k - 1 \in 0..MaxDepth /\ 0 \in 0..MaxDepth /\ 0 <= k - 1
    BY <1>0
  <2>2. g \in s.visited /\ s.depth[g] <= k
    BY <1>4, <2>1
  <2>3. R[0] \subseteq R[k - 1]
    BY <1>1, <2>1, ReachRises
  <2>4. g # f
    BY <1>0, <2>3
  <2>5. s.depth[g] \in 0..MaxDepth /\ g \in R[s.depth[g]]
    BY <1>0, <1>2, <2>2 DEF ReachedByImports
  <2>6. ~(s.depth[g] <= k - 1)
    <3> SUFFICES ASSUME s.depth[g] <= k - 1
                 PROVE  FALSE
      OBVIOUS
    <3>1. R[s.depth[g]] \subseteq R[k - 1]
      BY <1>1, <2>1, <2>5, ReachRises
    <3> QED
      BY <2>5, <3>1
  <2>7. s.depth[g] = k
    <3>1. s.depth[g] \in Nat /\ k \in Nat
      BY <1>0, <2>5
    <3> QED
      BY <2>2, <2>6, <3>1
  <2> QED
    BY <2>2, <2>4, <2>7
<1> HIDE DEF V
<1>7. {[file |-> g, depth |-> s.depth[g]] : g \in V} \subseteq D
  BY <1>5
<1>8. D \subseteq {[file |-> g, depth |-> s.depth[g]] : g \in V}
  BY <1>6
<1> QED
  BY <1>1, <1>3, <1>7, <1>8 DEF R

\* The tokens of files are summed one after the other.
Sums(t, files, among) ==
    /\ t \in [0..Len(files) -> Nat] /\ t[0] = 0
    /\ \A n \in 1..Len(files) : t[n] = t[n - 1] + (IF files[n] \in among THEN TokensOf[files[n]] ELSE 0)

\* The tokens of some of the files are those sums at the end.
LEMMA TokensAreSummed ==
    ASSUME NEW files \in Seq(SourceFiles), NEW among
    PROVE  \E t : Sums(t, files, among) /\ TokensIn(files, among) = t[Len(files)]
<1> DEFINE N == Len(files)
           More(n) == IF files[n] \in among THEN TokensOf[files[n]] ELSE 0
           Turned(s) == [n \in 0..N |-> IF n = 0 THEN 0 ELSE s[n - 1] + More(n)]
           after == CHOOSE s : s = Turned(s)
           step == [p \in (1..N) \X Nat |-> p[2] + More(p[1])]
<1>1. N \in Nat /\ 0 \in Nat /\ \A n \in 1..N : More(n) \in Nat
  <2>1. \A n \in 1..N : files[n] \in SourceFiles
    OBVIOUS
  <2> QED
    BY <2>1, ContextAssumption
<1> HIDE DEF More
<1>a. \A n \in 1..N, x \in Nat : step[<<n, x>>] = x + More(n)
  OBVIOUS
<1>b. StaysIn(Nat, N, step)
  <2> SUFFICES ASSUME NEW n \in 1..N, NEW x \in Nat
               PROVE  step[<<n, x>>] \in Nat
    BY DEF StaysIn
  <2>1. step[<<n, x>>] = x + More(n) /\ More(n) \in Nat
    BY <1>1, <1>a
  <2> HIDE DEF step
  <2> QED
    BY <2>1
<1>2. PICK g \in [0..N -> Nat] : LoopRuns(g, N, 0, step)
  <2> HIDE DEF step, N
  <2> QED
    BY <1>1, <1>b, RecursionExists
<1>3. g = Turned(g)
  <2>1. \A n \in 1..N : n - 1 \in 0..N /\ g[n] = g[n - 1] + More(n)
    <3> SUFFICES ASSUME NEW n \in 1..N
                 PROVE  n - 1 \in 0..N /\ g[n] = g[n - 1] + More(n)
      OBVIOUS
    <3>1. n - 1 \in 0..N /\ g[n - 1] \in Nat
      <4> HIDE DEF N
      <4> QED
        BY <1>1, <1>2
    <3>2. g[n] = step[<<n, g[n - 1]>>]
      BY <1>2 DEF LoopRuns
    <3> HIDE DEF step
    <3> QED
      BY <1>a, <3>1, <3>2
  <2> HIDE DEF step
  <2>2. \A n \in 0..N : g[n] = IF n = 0 THEN 0 ELSE g[n - 1] + More(n)
    BY <1>1, <1>2, <2>1 DEF LoopRuns
  <2> QED
    BY <2>2
<1>4. after = Turned(after)
  <2>1. after = CHOOSE s : s = Turned(s)
    OBVIOUS
  <2> HIDE DEF Turned, after
  <2> QED
    BY <1>3, <2>1, Zenon
<1>5. TokensIn(files, among) = after[N]
  BY DEF TokensIn, More
<1> HIDE DEF after
<1>6. after[0] = 0 /\ (\A n \in 1..N : after[n] = after[n - 1] + More(n)) /\ after = [n \in 0..N |-> after[n]]
  <2>1. \A n \in 0..N : Turned(after)[n] = IF n = 0 THEN 0 ELSE after[n - 1] + More(n)
    OBVIOUS
  <2>2. \A n \in 0..N : after[n] = IF n = 0 THEN 0 ELSE after[n - 1] + More(n)
    <3> HIDE DEF Turned
    <3> QED
      BY <1>4, <2>1, Zenon
  <2>3. 0 \in 0..N /\ \A n \in 1..N : n \in 0..N /\ n # 0
    BY <1>1
  <2>4. after = [n \in 0..N |-> after[n]]
    <3>1. Turned(after) = [n \in 0..N |-> Turned(after)[n]]
      OBVIOUS
    <3> HIDE DEF Turned
    <3> QED
      BY <1>4, <3>1, Zenon
  <2> HIDE DEF Turned
  <2> QED
    BY <2>2, <2>3, <2>4
<1>7. LoopFollows(after, Nat, N, 0, step)
  <2> HIDE DEF N, step
  <2> QED
    BY <1>1, <1>a, <1>6 DEF LoopFollows
<1>8. \A n \in 0..N : after[n] \in Nat
  <2> HIDE DEF step, N
  <2> QED
    BY <1>1, <1>b, <1>7, RecursionStays
<1>9. after \in [0..N -> Nat]
  <2> HIDE DEF N
  <2> QED
    BY <1>6, <1>8
<1> QED
  BY <1>5, <1>6, <1>9 DEF Sums, More

\* One more file has its tokens more.
LEMMA TokensGrow ==
    ASSUME NEW files \in Seq(SourceFiles), NEW f \in SourceFiles, NEW among
    PROVE  /\ TokensIn(files, among) \in Nat /\ TokensOf[f] \in Nat
           /\ TokensIn(Append(files, f), among) = TokensIn(files, among) + (IF f \in among THEN TokensOf[f] ELSE 0)
<1> DEFINE N == Len(files)
           more == Append(files, f)
<1>1. PICK t : Sums(t, files, among) /\ TokensIn(files, among) = t[N]
  BY TokensAreSummed
<1>2. N \in Nat /\ more \in Seq(SourceFiles) /\ Len(more) = N + 1 /\ more[N + 1] = f /\ \A n \in 1..N : more[n] = files[n]
  OBVIOUS
<1> HIDE DEF more
<1>3. PICK u : Sums(u, more, among) /\ TokensIn(more, among) = u[N + 1]
  BY <1>2, TokensAreSummed
<1> DEFINE S == {n \in Nat : n <= N => u[n] = t[n]}
<1>4. 0 \in S
  BY <1>1, <1>3 DEF Sums
<1>5. ASSUME NEW n \in Nat, n \in S
      PROVE  n + 1 \in S
  <2> SUFFICES ASSUME n + 1 <= N
               PROVE  u[n + 1] = t[n + 1]
    OBVIOUS
  <2>1. n + 1 \in 1..N /\ n + 1 \in 1..(N + 1) /\ (n + 1) - 1 = n /\ n <= N
    BY <1>2
  <2>2. u[n] = t[n] /\ more[n + 1] = files[n + 1]
    BY <1>2, <1>5, <2>1
  <2>3. u[n + 1] = u[(n + 1) - 1] + (IF more[n + 1] \in among THEN TokensOf[more[n + 1]] ELSE 0)
    BY <1>2, <1>3, <2>1 DEF Sums
  <2>4. t[n + 1] = t[(n + 1) - 1] + (IF files[n + 1] \in among THEN TokensOf[files[n + 1]] ELSE 0)
    BY <1>1, <2>1 DEF Sums
  <2>5. u[(n + 1) - 1] = t[(n + 1) - 1]
    BY <2>1, <2>2
  <2>6. (IF more[n + 1] \in among THEN TokensOf[more[n + 1]] ELSE 0) = (IF files[n + 1] \in among THEN TokensOf[files[n + 1]] ELSE 0)
    BY <2>2
  <2> HIDE DEF N
  <2> QED
    BY <2>3, <2>4, <2>5, <2>6
<1>6. Nat \subseteq S
  <2> HIDE DEF S
  <2> QED
    BY <1>4, <1>5, EveryNumber
<1>7. u[N] = t[N]
  BY <1>2, <1>6
<1>8. N + 1 \in 1..(N + 1) /\ (N + 1) - 1 = N /\ N \in 0..N
  BY <1>2
<1>9. u[N + 1] = u[(N + 1) - 1] + (IF more[N + 1] \in among THEN TokensOf[more[N + 1]] ELSE 0)
  BY <1>2, <1>3, <1>8 DEF Sums
<1>10. u[N + 1] = t[N] + (IF f \in among THEN TokensOf[f] ELSE 0)
  BY <1>2, <1>7, <1>8, <1>9, Zenon
<1>11. t[N] \in Nat
  <2>1. t \in [0..N -> Nat]
    BY <1>1 DEF Sums
  <2> HIDE DEF N
  <2> QED
    BY <1>8, <2>1
<1>12. TokensOf[f] \in Nat
  BY ContextAssumption
<1>13. TokensIn(files, among) \in Nat
  BY <1>1, <1>11
<1>14. TokensIn(more, among) = TokensIn(files, among) + (IF f \in among THEN TokensOf[f] ELSE 0)
  BY <1>1, <1>3, <1>10, Zenon
<1> QED
  BY <1>12, <1>13, <1>14 DEF more

\* Of no files there are no tokens.
LEMMA NoTokens == \A among : TokensIn(<<>>, among) = 0
<1> SUFFICES ASSUME NEW among
             PROVE  TokensIn(<<>>, among) = 0
  OBVIOUS
<1>1. <<>> \in Seq(SourceFiles) /\ Len(<<>>) = 0
  OBVIOUS
<1>2. PICK t : Sums(t, <<>>, among) /\ TokensIn(<<>>, among) = t[Len(<<>>)]
  BY <1>1, TokensAreSummed
<1> QED
  BY <1>1, <1>2 DEF Sums

-----------------------------------------------------------------------------

\* A pass takes the files of a score that fit.
LEMMA PassRuns ==
    ASSUME NEW chosen \in Seq(SourceFiles), NEW targets, NEW mentioned, NEW score, context.order \in Seq(SourceFiles)
    PROVE  LET taken == Taken(chosen, targets, mentioned, score) IN
           /\ taken[0] = chosen
           /\ \A n \in 1..Len(context.order) : LET f == context.order[n] IN
                  taken[n] = IF Relevance(targets, mentioned, f) = score /\ HasRoom(f, taken[n - 1])
                             THEN Append(taken[n - 1], f) ELSE taken[n - 1]
           /\ \A n \in 0..Len(context.order) : taken[n] \in Seq(SourceFiles)
<1> DEFINE N == Len(context.order)
           X == Seq(SourceFiles)
           After(n, x) == IF Relevance(targets, mentioned, context.order[n]) = score /\ HasRoom(context.order[n], x)
                          THEN Append(x, context.order[n]) ELSE x
           Turned(s) == [n \in 0..N |-> IF n = 0 THEN chosen ELSE After(n, s[n - 1])]
           after == CHOOSE s : s = Turned(s)
           step == [p \in (1..N) \X X |-> After(p[1], p[2])]
<1>1. N \in Nat /\ chosen \in X /\ \A n \in 1..N : context.order[n] \in SourceFiles
  OBVIOUS
<1>x. \A n \in 1..N, x \in X : After(n, x) \in X
  <2> SUFFICES ASSUME NEW n \in 1..N, NEW x \in X
               PROVE  After(n, x) \in X
    OBVIOUS
  <2>1. Append(x, context.order[n]) \in X
    BY <1>1
  <2> QED
    BY <2>1
<1> HIDE DEF After
<1>a. \A n \in 1..N, x \in X : step[<<n, x>>] = After(n, x)
  <2> HIDE DEF X, N
  <2> QED
    OBVIOUS
<1>b. StaysIn(X, N, step)
  <2> SUFFICES ASSUME NEW n \in 1..N, NEW x \in X
               PROVE  step[<<n, x>>] \in X
    BY DEF StaysIn
  <2>1. step[<<n, x>>] = After(n, x) /\ After(n, x) \in X
    BY <1>x, <1>a
  <2> HIDE DEF step
  <2> QED
    BY <2>1
<1>2. PICK g \in [0..N -> X] : LoopRuns(g, N, chosen, step)
  <2> HIDE DEF step, N, X
  <2> QED
    BY <1>1, <1>b, RecursionExists
<1>3. g = Turned(g)
  <2>1. \A n \in 1..N : n - 1 \in 0..N /\ g[n] = After(n, g[n - 1])
    <3> SUFFICES ASSUME NEW n \in 1..N
                 PROVE  n - 1 \in 0..N /\ g[n] = After(n, g[n - 1])
      OBVIOUS
    <3>1. n - 1 \in 0..N /\ g[n - 1] \in X
      <4>1. n - 1 \in 0..N
        <5> HIDE DEF N
        <5> QED
          BY <1>1
      <4> HIDE DEF N, X
      <4> QED
        BY <1>2, <4>1, Zenon
    <3>2. g[n] = step[<<n, g[n - 1]>>]
      BY <1>2 DEF LoopRuns
    <3> HIDE DEF step, X, N
    <3> QED
      BY <1>a, <3>1, <3>2
  <2> HIDE DEF step, X
  <2>2. \A n \in 0..N : g[n] = IF n = 0 THEN chosen ELSE After(n, g[n - 1])
    <3> HIDE DEF N
    <3> QED
      BY <1>1, <1>2, <2>1 DEF LoopRuns
  <2> QED
    BY <2>2
<1>4. after = Turned(after)
  <2>1. after = CHOOSE s : s = Turned(s)
    OBVIOUS
  <2> HIDE DEF Turned, after
  <2> QED
    BY <1>3, <2>1, Zenon
<1>5. Taken(chosen, targets, mentioned, score) = after
  BY DEF Taken, After
<1> HIDE DEF after
<1>6. after[0] = chosen /\ \A n \in 1..N : after[n] = After(n, after[n - 1])
  <2>1. \A n \in 0..N : Turned(after)[n] = IF n = 0 THEN chosen ELSE After(n, after[n - 1])
    OBVIOUS
  <2>2. \A n \in 0..N : after[n] = IF n = 0 THEN chosen ELSE After(n, after[n - 1])
    <3> HIDE DEF Turned
    <3> QED
      BY <1>4, <2>1, Zenon
  <2>3. 0 \in 0..N /\ \A n \in 1..N : n \in 0..N /\ n # 0
    BY <1>1
  <2> HIDE DEF Turned
  <2> QED
    BY <2>2, <2>3
<1>7. LoopFollows(after, X, N, chosen, step)
  <2> HIDE DEF N, step, X
  <2> QED
    BY <1>1, <1>a, <1>6 DEF LoopFollows
<1>8. \A n \in 0..N : after[n] \in X
  <2> HIDE DEF step, N, X
  <2> QED
    BY <1>1, <1>b, <1>7, RecursionStays
<1> QED
  BY <1>5, <1>6, <1>8 DEF After

\* What a pass leaves: it keeps to the budget, drops nothing, and leaves out only what has no room.
Passed(before, after, targets, mentioned, score, n) ==
    /\ after \in Seq(SourceFiles) /\ TokensIn(after, SourceFiles) <= Budget
    /\ TokensIn(before, SourceFiles) <= TokensIn(after, SourceFiles)
    /\ TokensIn(before, targets) <= TokensIn(after, targets)
    /\ ToSet(before) \subseteq ToSet(after)
    /\ \A j \in 1..n : Relevance(targets, mentioned, context.order[j]) = score =>
           context.order[j] \in ToSet(after) \/ TokensIn(after, SourceFiles) + TokensOf[context.order[j]] > Budget
    /\ score = 10 /\ TokensIn(before, targets) = TokensIn(before, SourceFiles) =>
           TokensIn(after, targets) = TokensIn(after, SourceFiles)

\* A file that is taken adds its tokens.
LEMMA OneMoreFile ==
    ASSUME NEW c \in Seq(SourceFiles), NEW f \in SourceFiles
    PROVE  Append(c, f) \in Seq(SourceFiles) /\ ToSet(c) \subseteq ToSet(Append(c, f)) /\ f \in ToSet(Append(c, f))
<1>1. /\ Append(c, f) \in Seq(SourceFiles) /\ DOMAIN c = 1..Len(c) /\ DOMAIN Append(c, f) = 1..(Len(c) + 1) /\ Len(c) \in Nat
      /\ Append(c, f)[Len(c) + 1] = f /\ \A i \in 1..Len(c) : Append(c, f)[i] = c[i]
  OBVIOUS
<1>2. \A i \in 1..Len(c) : i \in 1..(Len(c) + 1)
  BY <1>1
<1>3. Len(c) + 1 \in 1..(Len(c) + 1)
  BY <1>1
<1> QED
  BY <1>1, <1>2, <1>3 DEF ToSet

\* What a pass over the files took has room, file by file.
LEMMA PassKeeps ==
    ASSUME NEW chosen \in Seq(SourceFiles), TokensIn(chosen, SourceFiles) <= Budget,
           NEW targets, NEW mentioned, NEW score, context.order \in Seq(SourceFiles)
    PROVE  Passed(chosen, Scored(chosen, targets, mentioned, score), targets, mentioned, score, Len(context.order))
<1> DEFINE N == Len(context.order)
           c(n) == Taken(chosen, targets, mentioned, score)[n]
           Good(n) == Passed(chosen, c(n), targets, mentioned, score, n)
           S == {n \in Nat : n <= N => Good(n)}
<1>0. N \in Nat /\ Budget \in Nat
  BY ContextAssumption
<1>1. /\ c(0) = chosen /\ \A n \in 0..N : c(n) \in Seq(SourceFiles)
      /\ \A n \in 1..N : LET f == context.order[n] IN
             c(n) = IF Relevance(targets, mentioned, f) = score /\ HasRoom(f, c(n - 1)) THEN Append(c(n - 1), f) ELSE c(n - 1)
  BY PassRuns
<1> HIDE DEF c
<1>f. ASSUME NEW x \in Seq(SourceFiles), NEW among
      PROVE  TokensIn(x, among) \in Nat
  <2>1. PICK t : Sums(t, x, among) /\ TokensIn(x, among) = t[Len(x)]
    BY TokensAreSummed
  <2>2. t \in [0..Len(x) -> Nat] /\ Len(x) \in 0..Len(x)
    BY <2>1 DEF Sums
  <2> QED
    BY <2>1, <2>2
<1>2. 0 \in S
  <2>1. TokensIn(chosen, SourceFiles) \in Nat /\ TokensIn(chosen, targets) \in Nat
    BY <1>f
  <2>2. 1..0 = {}
    OBVIOUS
  <2>3. Good(0)
    BY <1>1, <2>1, <2>2 DEF Passed
  <2> QED
    BY <2>3
<1>3. ASSUME NEW n \in Nat, n \in S
      PROVE  n + 1 \in S
  <2> SUFFICES ASSUME n + 1 <= N
               PROVE  Good(n + 1)
    OBVIOUS
  <2> DEFINE f == context.order[n + 1]
             x == c(n)
  <2>1. n \in 0..N /\ n + 1 \in 1..N /\ (n + 1) - 1 = n /\ n <= N
    BY <1>0
  <2>2. f \in SourceFiles /\ x \in Seq(SourceFiles)
    BY <1>1, <2>1
  <2>3. Good(n)
    BY <1>3, <2>1
  <2>4. c(n + 1) = IF Relevance(targets, mentioned, f) = score /\ HasRoom(f, x) THEN Append(x, f) ELSE x
    <3>1. c(n + 1) = IF Relevance(targets, mentioned, f) = score /\ HasRoom(f, c((n + 1) - 1))
                     THEN Append(c((n + 1) - 1), f) ELSE c((n + 1) - 1)
      BY <1>1, <2>1
    <3> QED
      BY <2>1, <3>1
  <2>5. \A j \in 1..(n + 1) : j \in 1..n \/ j = n + 1
    OBVIOUS
  <2>n. /\ TokensIn(x, SourceFiles) \in Nat /\ TokensIn(x, targets) \in Nat /\ TokensOf[f] \in Nat
        /\ TokensIn(chosen, SourceFiles) \in Nat /\ TokensIn(chosen, targets) \in Nat
        /\ \A j \in 1..N : TokensOf[context.order[j]] \in Nat
    <3>1. \A j \in 1..N : context.order[j] \in SourceFiles
      OBVIOUS
    <3> QED
      BY <1>f, <2>2, <3>1, ContextAssumption
  <2>6. CASE Relevance(targets, mentioned, f) = score /\ HasRoom(f, x)
    <3> DEFINE y == Append(x, f)
    <3>1. c(n + 1) = y
      BY <2>4, <2>6
    <3>2. y \in Seq(SourceFiles) /\ ToSet(x) \subseteq ToSet(y) /\ f \in ToSet(y)
      BY <2>2, OneMoreFile
    <3>3. TokensIn(y, SourceFiles) = TokensIn(x, SourceFiles) + TokensOf[f]
      <4>1. TokensIn(y, SourceFiles) = TokensIn(x, SourceFiles) + (IF f \in SourceFiles THEN TokensOf[f] ELSE 0)
        <5> HIDE DEF f, x
        <5> QED
          BY <2>2, TokensGrow
      <4> HIDE DEF f, y, x
      <4> QED
        BY <2>2, <4>1
    <3>4. TokensIn(y, targets) = TokensIn(x, targets) + (IF f \in targets THEN TokensOf[f] ELSE 0)
      <4> HIDE DEF f, x
      <4> QED
        BY <2>2, TokensGrow
    <3>5. TokensIn(x, SourceFiles) + TokensOf[f] <= Budget
      BY <2>6 DEF HasRoom
    <3>6. score = 10 => f \in targets
      BY <2>6 DEF Relevance
    <3> HIDE DEF y, f, x, N
    <3>7. TokensIn(y, targets) \in Nat /\ TokensIn(x, targets) <= TokensIn(y, targets)
      BY <2>n, <3>4
    <3>8. ASSUME NEW j \in 1..(n + 1), Relevance(targets, mentioned, context.order[j]) = score
          PROVE  context.order[j] \in ToSet(y) \/ TokensIn(y, SourceFiles) + TokensOf[context.order[j]] > Budget
      <4>1. CASE j = n + 1
        BY <3>2, <4>1 DEF f
      <4>2. CASE j \in 1..n
        <5>1. context.order[j] \in ToSet(x) \/ TokensIn(x, SourceFiles) + TokensOf[context.order[j]] > Budget
          BY <2>3, <3>8, <4>2 DEF Passed, x
        <5>2. TokensOf[context.order[j]] \in Nat
          <6>1. j \in 1..N
            BY <1>0, <2>1, <4>2
          <6> QED
            BY <2>n, <6>1
        <5>3. TokensIn(x, SourceFiles) + TokensOf[context.order[j]] > Budget =>
              TokensIn(y, SourceFiles) + TokensOf[context.order[j]] > Budget
          BY <1>0, <2>n, <3>3, <5>2, SMTT(30)
        <5> QED
          BY <3>2, <5>1, <5>3
      <4> QED
        BY <2>5, <3>8, <4>1, <4>2
    <3>9. /\ TokensIn(y, SourceFiles) <= Budget /\ TokensIn(chosen, SourceFiles) <= TokensIn(y, SourceFiles)
          /\ TokensIn(chosen, targets) <= TokensIn(y, targets) /\ ToSet(chosen) \subseteq ToSet(y)
      <4>1. /\ TokensIn(chosen, SourceFiles) <= TokensIn(x, SourceFiles) /\ TokensIn(chosen, targets) <= TokensIn(x, targets)
            /\ ToSet(chosen) \subseteq ToSet(x)
        BY <2>3 DEF Passed, x
      <4> QED
        BY <1>0, <2>n, <3>2, <3>3, <3>5, <3>7, <4>1
    <3>10. score = 10 /\ TokensIn(chosen, targets) = TokensIn(chosen, SourceFiles) =>
               TokensIn(y, targets) = TokensIn(y, SourceFiles)
      <4> SUFFICES ASSUME score = 10, TokensIn(chosen, targets) = TokensIn(chosen, SourceFiles)
                   PROVE  TokensIn(y, targets) = TokensIn(y, SourceFiles)
        OBVIOUS
      <4>1. TokensIn(x, targets) = TokensIn(x, SourceFiles)
        BY <2>3 DEF Passed, x
      <4> QED
        BY <3>3, <3>4, <3>6, <4>1
    <3>11. Passed(chosen, y, targets, mentioned, score, n + 1)
      BY <3>2, <3>8, <3>9, <3>10 DEF Passed
    <3> QED
      BY <3>1, <3>11
  <2>7. CASE ~(Relevance(targets, mentioned, f) = score /\ HasRoom(f, x))
    <3>1. c(n + 1) = x
      BY <2>4, <2>7
    <3>2. Relevance(targets, mentioned, f) = score => TokensIn(x, SourceFiles) + TokensOf[f] > Budget
      <4> SUFFICES ASSUME Relevance(targets, mentioned, f) = score
                   PROVE  TokensIn(x, SourceFiles) + TokensOf[f] > Budget
        OBVIOUS
      <4>1. ~(TokensIn(x, SourceFiles) + TokensOf[f] <= Budget)
        BY <2>7 DEF HasRoom
      <4> HIDE DEF x, f
      <4> QED
        BY <1>0, <2>n, <4>1
    <3>3. Passed(chosen, x, targets, mentioned, score, n)
      BY <2>3
    <3>4. \A j \in 1..(n + 1) : Relevance(targets, mentioned, context.order[j]) = score =>
           context.order[j] \in ToSet(x) \/ TokensIn(x, SourceFiles) + TokensOf[context.order[j]] > Budget
      <4> HIDE DEF x
      <4> QED
        BY <2>5, <3>2, <3>3 DEF Passed
    <3> HIDE DEF x
    <3>5. Passed(chosen, x, targets, mentioned, score, n + 1)
      BY <3>3, <3>4 DEF Passed
    <3> QED
      BY <3>1, <3>5
  <2> QED
    BY <2>6, <2>7
<1>4. Nat \subseteq S
  <2> HIDE DEF S
  <2> QED
    BY <1>2, <1>3, EveryNumber
<1>5. N \in S
  BY <1>0, <1>4
<1>6. Good(N)
  BY <1>0, <1>5
<1> QED
  BY <1>6 DEF Scored, c

ContextSpec == ContextInit /\ [][ContextNext]_contextVars

ContextTyped == context.imports \in Imports /\ (context.order = <<>> \/ context.order \in SetToSeqs(SourceFiles))

PackWasSelected ==
    pack = NoPack \/
        /\ context.order # <<>> /\ pack.targets \subseteq SourceFiles /\ pack.mentioned \subseteq SourceFiles
        /\ pack.chosen = Selected(pack.targets, pack.mentioned)

ContextInv == ContextTyped /\ PackWasSelected

\* Before the first pack there is none.
LEMMA ContextStart == ContextInit => ContextInv
<1> SUFFICES ASSUME ContextInit
             PROVE  ContextInv
  OBVIOUS
<1>1. context.imports \in Imports /\ context.order = <<>> /\ pack = NoPack
  BY DEF ContextInit
<1> QED
  BY <1>1 DEF ContextInv, ContextTyped, PackWasSelected

\* What would be selected depends on the context alone.
LEMMA SelectedStays ==
    ASSUME context' = context, NEW targets, NEW mentioned
    PROVE  Selected(targets, mentioned)' = Selected(targets, mentioned)
BY DEF Selected, Scored, Taken, Relevance, HasRoom, Dependencies, Search, Turn, Expanded, KnownImports, Place

\* Every step keeps that the pack is what was selected: a new context takes it away.
LEMMA ContextStep == ContextInv /\ [ContextNext]_contextVars => ContextInv'
<1> SUFFICES ASSUME ContextInv, [ContextNext]_contextVars
             PROVE  ContextInv'
  OBVIOUS
<1>s. ASSUME context' = context
      PROVE  \A targets, mentioned : Selected(targets, mentioned)' = Selected(targets, mentioned)
  <2> SUFFICES ASSUME NEW targets, NEW mentioned
               PROVE  Selected(targets, mentioned)' = Selected(targets, mentioned)
    OBVIOUS
  <2> QED
    BY <1>s, SelectedStays
<1>1. CASE UNCHANGED contextVars
  <2>1. context' = context /\ pack' = pack
    BY <1>1 DEF contextVars
  <2>2. Selected(pack.targets, pack.mentioned)' = Selected(pack.targets, pack.mentioned)
    BY <2>1 DEF Selected, Scored, Taken, Relevance, HasRoom, Dependencies, Search, Turn, Expanded, KnownImports, Place
  <2>3. ContextTyped'
    BY <2>1 DEF ContextInv, ContextTyped
  <2>4. PackWasSelected'
    BY <2>1, <2>2 DEF ContextInv, PackWasSelected
  <2> QED
    BY <2>3, <2>4 DEF ContextInv
<1>2. CASE ParseAll
  <2>1. PICK order \in SetToSeqs(SourceFiles) : context' = [context EXCEPT !.order = order]
    BY <1>2 DEF ParseAll
  <2>2. context.order = <<>> /\ pack' = pack
    BY <1>2 DEF ParseAll
  <2>3. pack = NoPack
    BY <2>2 DEF ContextInv, PackWasSelected
  <2> QED
    BY <2>1, <2>2, <2>3 DEF ContextInv, ContextTyped, PackWasSelected
<1>3. ASSUME NEW targets \in SUBSET SourceFiles, NEW mentioned \in SUBSET SourceFiles, Generate(targets, mentioned)
      PROVE  ContextInv'
  <2>1. /\ context' = context /\ context.order # <<>> 
        /\ pack' = [targets |-> targets, mentioned |-> mentioned, chosen |-> Selected(targets, mentioned)]
    BY <1>3 DEF Generate
  <2>2. pack'.targets = targets /\ pack'.mentioned = mentioned /\ pack'.chosen = Selected(targets, mentioned)
    BY <2>1
  <2>0. context' = context
    BY <2>1
  <2>3. Selected(pack.targets, pack.mentioned)' = Selected(pack'.targets, pack'.mentioned)
    BY <2>0 DEF Selected, Scored, Taken, Relevance, HasRoom, Dependencies, Search, Turn, Expanded, KnownImports, Place
  <2>4. ContextTyped'
    BY <2>1 DEF ContextInv, ContextTyped
  <2>5. PackWasSelected'
    BY <2>1, <2>2, <2>3 DEF PackWasSelected
  <2> QED
    BY <2>4, <2>5 DEF ContextInv
<1> QED
  BY <1>1, <1>2, <1>3 DEF ContextNext

\* So it is of every pack.
LEMMA ContextAlways == ContextSpec => []ContextInv
<1>1. ContextInv /\ [ContextNext]_contextVars => ContextInv'
  BY ContextStep
<1> QED
  BY ContextStart, <1>1, PTL DEF ContextSpec

\* Each file has a place in the order of parsing.
LEMMA OrderHasAll ==
    ASSUME NEW order \in SetToSeqs(SourceFiles)
    PROVE  order \in Seq(SourceFiles) /\ \A f \in SourceFiles : \E i \in 1..Len(order) : order[i] = f
<1> DEFINE n == Cardinality(SourceFiles)
<1>1. n \in Nat /\ IsFiniteSet(SourceFiles)
  BY ContextAssumption, FS_CardinalityType
<1>2. order \in [1..n -> SourceFiles] /\ \A i, j \in 1..n : i # j => order[i] # order[j]
  BY Zenon DEF SetToSeqs
<1> HIDE DEF n
<1>3. order \in Injection(1..n, SourceFiles)
  BY <1>2 DEF Injection, IsInjective
<1>4. Cardinality(1..n) = n
  <2>1. Cardinality(1..n) = IF 1 > n THEN 0 ELSE n - 1 + 1
    BY <1>1, FS_Interval
  <2> QED
    BY <1>1, <2>1
<1>5. order \in Surjection(1..n, SourceFiles)
  BY <1>1, <1>3, <1>4, FS_Injection DEF n
<1>6. order \in Seq(SourceFiles) /\ Len(order) = n
  BY <1>1, <1>2
<1> QED
  BY <1>5, <1>6, Zenon DEF Surjection

\* What a pack has been given, the passes after one another.
LEMMA SelectedIs ==
    ASSUME NEW targets, NEW mentioned, context.order \in Seq(SourceFiles)
    PROVE  \E a, b : LET N == Len(context.order)  c == Selected(targets, mentioned) IN
               /\ Passed(<<>>, a, targets, mentioned, 10, N) /\ Passed(a, b, targets, mentioned, 8, N)
               /\ Passed(b, c, targets, mentioned, 4, N)
<1> DEFINE a == Scored(<<>>, targets, mentioned, 10)
           b == Scored(a, targets, mentioned, 8)
           c == Scored(b, targets, mentioned, 4)
           N == Len(context.order)
<1>1. <<>> \in Seq(SourceFiles) /\ TokensIn(<<>>, SourceFiles) <= Budget
  <2>1. TokensIn(<<>>, SourceFiles) = 0 /\ Budget \in Nat
    BY NoTokens, ContextAssumption
  <2> QED
    BY <2>1
<1>2. Passed(<<>>, a, targets, mentioned, 10, N)
  BY <1>1, PassKeeps
<1> HIDE DEF a
<1>3. Passed(a, b, targets, mentioned, 8, N)
  BY <1>2, PassKeeps DEF Passed
<1> HIDE DEF b
<1>4. Passed(b, c, targets, mentioned, 4, N)
  BY <1>3, PassKeeps DEF Passed
<1>5. c = Selected(targets, mentioned)
  BY Zenon DEF Selected, a, b
<1> HIDE DEF c
<1> QED
  BY <1>2, <1>3, <1>4, <1>5

\* A pack keeps to its budget, its targets come first, and their imports next.
LEMMA PackIsRight == ContextInv => DependenciesAreNearest /\ TargetsComeFirst /\ ImportsAreKnown
<1> SUFFICES ASSUME ContextInv
             PROVE  DependenciesAreNearest /\ TargetsComeFirst /\ ImportsAreKnown
  OBVIOUS
<1>1. FilesImport /\ \A f \in SourceFiles : f \notin context.imports[f]
  BY DEF ContextInv, ContextTyped, FilesImport, Imports
<1>2. DependenciesAreNearest
  <2> SUFFICES ASSUME NEW f \in SourceFiles
               PROVE  LET reach == Within(f, MaxDepth) IN
                      Dependencies(f) = UNION {{[file |-> g, depth |-> k] : g \in reach[k] \ reach[k - 1]} : k \in 1..MaxDepth}
    BY DEF DependenciesAreNearest
  <2> QED
    BY <1>1, DependenciesAre
<1>3. CASE pack = NoPack
  <2>1. pack.targets = {} /\ pack.chosen = <<>>
    BY <1>3 DEF NoPack
  <2>2. TokensIn(pack.chosen, SourceFiles) = 0 /\ Budget \in Nat
    BY <2>1, NoTokens, ContextAssumption
  <2> QED
    BY <1>2, <2>1, <2>2 DEF TargetsComeFirst, ImportsAreKnown
<1>4. CASE pack # NoPack
  <2> DEFINE targets == pack.targets
             mentioned == pack.mentioned
             N == Len(context.order)
             c == pack.chosen
  <2>1. targets \subseteq SourceFiles /\ c = Selected(targets, mentioned) /\ context.order \in SetToSeqs(SourceFiles)
    BY <1>4 DEF ContextInv, PackWasSelected, ContextTyped
  <2>2. context.order \in Seq(SourceFiles) /\ \A f \in SourceFiles : \E i \in 1..N : context.order[i] = f
    BY <2>1, OrderHasAll
  <2>3. PICK a, b : Passed(<<>>, a, targets, mentioned, 10, N) /\ Passed(a, b, targets, mentioned, 8, N)
                    /\ Passed(b, c, targets, mentioned, 4, N)
    BY <2>1, <2>2, SelectedIs
  <2> HIDE DEF c, N, targets, mentioned
  <2>4. TokensIn(<<>>, targets) = TokensIn(<<>>, SourceFiles)
    BY NoTokens
  <2>5. /\ TokensIn(a, targets) = TokensIn(a, SourceFiles) /\ a \in Seq(SourceFiles)
        /\ TokensIn(a, targets) <= TokensIn(b, targets) /\ TokensIn(b, targets) <= TokensIn(c, targets)
        /\ TokensIn(a, SourceFiles) <= TokensIn(b, SourceFiles) /\ TokensIn(b, SourceFiles) <= TokensIn(c, SourceFiles)
        /\ b \in Seq(SourceFiles) /\ c \in Seq(SourceFiles) /\ TokensIn(c, SourceFiles) <= Budget
        /\ ToSet(a) \subseteq ToSet(c) /\ ToSet(b) \subseteq ToSet(c)
    BY <2>3, <2>4 DEF Passed
  <2>6. \A x \in {a, b, c} : TokensIn(x, targets) \in Nat /\ TokensIn(x, SourceFiles) \in Nat
    <3> SUFFICES ASSUME NEW x \in {a, b, c}, NEW among
                 PROVE  TokensIn(x, among) \in Nat
      OBVIOUS
    <3>1. PICK t : Sums(t, x, among) /\ TokensIn(x, among) = t[Len(x)]
      BY <2>5, TokensAreSummed
    <3>2. t \in [0..Len(x) -> Nat] /\ Len(x) \in 0..Len(x)
      BY <2>5, <3>1 DEF Sums
    <3> QED
      BY <3>1, <3>2
  <2>7. ASSUME NEW t \in targets, t \notin ToSet(c)
        PROVE  TokensIn(c, targets) + TokensOf[t] > Budget
    <3>1. t \in SourceFiles /\ TokensOf[t] \in Nat /\ Budget \in Nat
      BY <2>1, ContextAssumption
    <3>2. PICK i \in 1..N : context.order[i] = t
      BY <2>2, <3>1
    <3>3. Relevance(targets, mentioned, t) = 10
      BY <2>7 DEF Relevance
    <3>4. t \in ToSet(a) \/ TokensIn(a, SourceFiles) + TokensOf[t] > Budget
      BY <2>3, <3>2, <3>3 DEF Passed
    <3>5. TokensIn(a, targets) + TokensOf[t] > Budget
      BY <2>5, <2>7, <3>4
    <3> QED
      BY <2>5, <2>6, <3>1, <3>5, SMTT(30)
  <2>8. TargetsComeFirst
    BY <2>5, <2>7 DEF TargetsComeFirst, Chosen, c, targets
  <2>9. ASSUME NEW t \in targets, NEW f \in SourceFiles \ ToSet(c), f \in KnownImports(t)
        PROVE  TokensOf[f] > Budget - TokensIn(c, SourceFiles)
    <3>1. TokensOf[f] \in Nat /\ Budget \in Nat /\ t \in SourceFiles
      BY <2>1, ContextAssumption
    <3>2. PICK i \in 1..N : context.order[i] = f
      BY <2>2
    <3>3. f # t
      BY <1>1, <2>9, <3>1 DEF KnownImports
    <3>4. [file |-> f, depth |-> 1] \in Dependencies(t)
      <4> DEFINE R == Within(t, MaxDepth)
      <4>1. Reach(R, t) /\ Dependencies(t) = UNION {{[file |-> g, depth |-> k] : g \in R[k] \ R[k - 1]} : k \in 1..MaxDepth}
        BY <1>1, <3>1, DependenciesAre
      <4> HIDE DEF R
      <4>2. 1 \in 1..MaxDepth /\ 1 - 1 = 0
        BY ContextAssumption
      <4>3. R[0] = {t} /\ R[1] = R[0] \cup UNION {KnownImports(g) : g \in R[0]}
        BY <4>1, <4>2 DEF Reach
      <4>4. f \in R[1] \ R[0]
        BY <2>9, <3>3, <4>3
      <4> QED
        BY <4>1, <4>2, <4>4
    <3>5. Relevance(targets, mentioned, f) \in {10, 8, 4}
      BY <2>9, <3>4 DEF Relevance
    <3>6. \/ TokensIn(a, SourceFiles) + TokensOf[f] > Budget
          \/ TokensIn(b, SourceFiles) + TokensOf[f] > Budget
          \/ TokensIn(c, SourceFiles) + TokensOf[f] > Budget
      <4>1. CASE Relevance(targets, mentioned, f) = 10
        <5>1. f \in ToSet(a) \/ TokensIn(a, SourceFiles) + TokensOf[f] > Budget
          BY <2>3, <3>2, <4>1 DEF Passed
        <5> QED
          BY <2>5, <2>9, <5>1
      <4>2. CASE Relevance(targets, mentioned, f) = 8
        <5>1. f \in ToSet(b) \/ TokensIn(b, SourceFiles) + TokensOf[f] > Budget
          BY <2>3, <3>2, <4>2 DEF Passed
        <5> QED
          BY <2>5, <2>9, <5>1
      <4>3. CASE Relevance(targets, mentioned, f) = 4
        <5>1. f \in ToSet(c) \/ TokensIn(c, SourceFiles) + TokensOf[f] > Budget
          BY <2>3, <3>2, <4>3 DEF Passed
        <5> QED
          BY <2>9, <5>1
      <4> QED
        BY <3>5, <4>1, <4>2, <4>3
    <3> QED
      BY <2>5, <2>6, <3>1, <3>6, SMTT(30)
  <2>10. ImportsAreKnown
    <3> SUFFICES ASSUME NEW t \in targets, NEW f \in SourceFiles \ ToSet(c), f \in context.imports[t], Place(f) <= Place(t)
                 PROVE  TokensOf[f] > Budget - TokensIn(c, SourceFiles)
      BY DEF ImportsAreKnown, Chosen, RoomLeft, c, targets
    <3>1. f \in KnownImports(t)
      BY DEF KnownImports
    <3> QED
      BY <2>9, <3>1
  <2> QED
    BY <1>2, <2>8, <2>10
<1> QED
  BY <1>3, <1>4

-----------------------------------------------------------------------------
(* What the tools tell of the module.                                      *)

\* str.splitlines makes at least one piece of a line, two of a form feed: without one before
\* it a piece has its line's number.
LEMMA PiecesAre ==
    ASSUME NEW S, NEW lines \in Seq(S)
    PROVE  /\ PiecesOf(lines) \in Seq(1..Len(lines)) /\ Len(lines) <= Len(PiecesOf(lines))
           /\ \A l \in 1..Len(lines) : \E i \in 1..Len(PiecesOf(lines)) : PiecesOf(lines)[i] = l
           /\ \A n \in 1..Len(lines) : ~Feeds(lines, n) => n \in 1..Len(PiecesOf(lines)) /\ PiecesOf(lines)[n] = n
           /\ ~Feeds(lines, Len(lines)) => Len(PiecesOf(lines)) = Len(lines)
<1> DEFINE N == Len(lines)
           parts == [i \in DOMAIN lines |-> IF lines[i].sort = "feed" THEN <<i, i>> ELSE <<i>>]
           P == PiecesOf(lines)
<1>1. N \in Nat /\ DOMAIN lines = 1..N
  OBVIOUS
<1>2. \A i \in 1..N : parts[i] = (IF lines[i].sort = "feed" THEN <<i, i>> ELSE <<i>>)
  BY <1>1
<1>3. \A i \in 1..N : <<i, i>> \in Seq(1..N) /\ Len(<<i, i>>) = 2 /\ <<i>> \in Seq(1..N) /\ Len(<<i>>) = 1
                      /\ <<i, i>>[1] = i /\ <<i>>[1] = i
  <2> SUFFICES ASSUME NEW i \in 1..N
               PROVE  <<i, i>> \in Seq(1..N) /\ Len(<<i, i>>) = 2 /\ <<i>> \in Seq(1..N) /\ Len(<<i>>) = 1
                      /\ <<i, i>>[1] = i /\ <<i>>[1] = i
    OBVIOUS
  <2> HIDE DEF N
  <2> QED
    OBVIOUS
<1>4. \A i \in 1..N : /\ parts[i] \in Seq(1..N) /\ Len(parts[i]) \in 1..2 /\ parts[i][1] = i
                      /\ (lines[i].sort # "feed" => Len(parts[i]) = 1)
  <2> SUFFICES ASSUME NEW i \in 1..N
               PROVE  /\ parts[i] \in Seq(1..N) /\ Len(parts[i]) \in 1..2 /\ parts[i][1] = i
                      /\ (lines[i].sort # "feed" => Len(parts[i]) = 1)
    OBVIOUS
  <2> DEFINE two == <<i, i>>
             one == <<i>>
  <2>1. /\ two \in Seq(1..N) /\ Len(two) = 2 /\ one \in Seq(1..N) /\ Len(one) = 1
        /\ two[1] = i /\ one[1] = i
    <3> HIDE DEF N
    <3> QED
      BY <1>3
  <2>2. parts[i] = (IF lines[i].sort = "feed" THEN two ELSE one)
    BY <1>2
  <2>3. 1 \in 1..2 /\ 2 \in 1..2
    OBVIOUS
  <2> HIDE DEF N, parts, one, two
  <2>4. CASE lines[i].sort = "feed"
    <3>1. parts[i] = two
      BY <2>2, <2>4
    <3> QED
      BY <2>1, <2>3, <2>4, <3>1
  <2>5. CASE lines[i].sort # "feed"
    <3>1. parts[i] = one
      BY <2>2, <2>5
    <3> QED
      BY <2>1, <2>3, <2>5, <3>1
  <2> QED
    BY <2>4, <2>5
<1>5. parts \in Seq(Seq(1..N)) /\ Len(parts) = N
  <2>1. parts = [i \in 1..N |-> parts[i]]
    BY <1>1
  <2> HIDE DEF N, parts
  <2> QED
    BY <1>1, <1>4, <2>1, SMTT(30)
<1>6. P = FlattenSeq(parts)
  BY DEF PiecesOf
<1> HIDE DEF parts, P
<1>7. P \in Seq(1..N)
  BY <1>5, <1>6, FlattenIs
<1>8. PICK off : Begins(off, parts) /\ Placed0(P, off, parts) /\ Len(P) = off[N + 1]
  BY <1>5, <1>6, FlattenIs
<1>9. off \in [1..(N + 1) -> Nat] /\ off[1] = 0 /\ \A n \in 1..N : off[n + 1] = off[n] + Len(parts[n])
  BY <1>5, <1>8 DEF Begins
<1>10. \A n \in 1..N : \A k \in 1..Len(parts[n]) : off[n] + k \in 1..Len(P) /\ P[off[n] + k] = parts[n][k]
  BY <1>5, <1>8 DEF Placed0
<1> DEFINE Of(m) == off[m + 1] >= m /\ (~Feeds(lines, m) => off[m + 1] = m)
           Good == {m \in Nat : m <= N => Of(m)}
<1>11. Nat \subseteq Good
  <2>1. 0 \in Good
    BY <1>9
  <2>2. ASSUME NEW m \in Nat, m \in Good
        PROVE  m + 1 \in Good
    <3> SUFFICES ASSUME m + 1 <= N
                 PROVE  Of(m + 1)
      OBVIOUS
    <3>1. m + 1 \in 1..N /\ m <= N /\ m + 1 \in 1..(N + 1)
      BY <1>1
    <3>2. Of(m)
      BY <2>2, <3>1
    <3>3. off[(m + 1) + 1] = off[m + 1] + Len(parts[m + 1]) /\ Len(parts[m + 1]) \in 1..2 /\ off[m + 1] \in Nat
      <4> HIDE DEF N
      <4> QED
        BY <1>4, <1>9, <3>1
    <3>4. ~Feeds(lines, m + 1) => ~Feeds(lines, m) /\ lines[m + 1].sort # "feed"
      <4>1. m + 1 \in 1..(m + 1) /\ \A i \in 1..m : i \in 1..(m + 1)
        OBVIOUS
      <4> QED
        BY <4>1 DEF Feeds
    <3>5. ~Feeds(lines, m + 1) => Len(parts[m + 1]) = 1
      <4> HIDE DEF N
      <4> QED
        BY <1>4, <3>1, <3>4
    <3> HIDE DEF N
    <3>6. off[(m + 1) + 1] >= m + 1
      <4> DEFINE x == Len(parts[m + 1])
                 y == off[m + 1]
                 z == off[(m + 1) + 1]
      <4>0. z = y + x /\ x \in 1..2 /\ y \in Nat
        BY <3>3
      <4>3. y >= m
        BY <3>2
      <4>1. z = y + x /\ x \in Nat /\ x >= 1 /\ y \in Nat /\ y >= m
        <5> HIDE DEF x, y, z
        <5> QED
          BY <4>0, <4>3
      <4> HIDE DEF x, y, z
      <4>2. z >= m + 1
        BY <4>1
      <4> QED
        BY <4>2 DEF z
    <3>7. ASSUME ~Feeds(lines, m + 1)
          PROVE  off[(m + 1) + 1] = m + 1
      <4>1. off[m + 1] = m
        BY <3>2, <3>4, <3>7
      <4> QED
        BY <3>3, <3>5, <3>7, <4>1
    <3> QED
      BY <3>6, <3>7
  <2> HIDE DEF Good
  <2> QED
    BY <2>1, <2>2, EveryNumber
<1>12. \A m \in 0..N : Of(m)
  <2> SUFFICES ASSUME NEW m \in 0..N
               PROVE  Of(m)
    OBVIOUS
  <2>1. m \in Nat /\ m <= N /\ m \in Good
    BY <1>1, <1>11
  <2> HIDE DEF Of, N
  <2> QED
    BY <2>1
<1>13. N <= Len(P) /\ (~Feeds(lines, N) => Len(P) = N)
  <2>1. Of(N)
    <3> HIDE DEF Of, N
    <3> QED
      BY <1>1, <1>12
  <2> HIDE DEF N
  <2> QED
    BY <1>8, <2>1
<1>14. ASSUME NEW l \in 1..N
       PROVE  \E i \in 1..Len(P) : P[i] = l
  <2>1. 1 \in 1..Len(parts[l]) /\ parts[l][1] = l
    <3> HIDE DEF N
    <3> QED
      BY <1>4
  <2> HIDE DEF N
  <2> QED
    BY <1>10, <2>1
<1>15. ASSUME NEW n \in 1..N, ~Feeds(lines, n)
       PROVE  n \in 1..Len(P) /\ P[n] = n
  <2>1. 1 \in 1..Len(parts[n]) /\ parts[n][1] = n
    <3> HIDE DEF N
    <3> QED
      BY <1>4
  <2>2. n - 1 \in 0..N /\ (n - 1) + 1 = n
    BY <1>1
  <2>3. ~Feeds(lines, n - 1)
    <3>1. \A i \in 1..(n - 1) : i \in 1..n
      BY <1>1
    <3> QED
      BY <1>15, <3>1 DEF Feeds
  <2>4. off[n] = n - 1
    <3>1. Of(n - 1)
      <4> HIDE DEF Of, N
      <4> QED
        BY <1>12, <2>2
    <3> HIDE DEF N
    <3> QED
      BY <2>2, <2>3, <3>1
  <2>5. off[n] + 1 = n
    BY <1>1, <2>4
  <2> HIDE DEF N
  <2> QED
    BY <1>10, <2>1, <2>5
<1> QED
  BY <1>7, <1>13, <1>14, <1>15 DEF P

Symbols(lines) == { NamedAs(lines, l, kind) : l \in 1..Len(lines), kind \in {"function", "class", "method"} }

\* A symbol's line is of its sort.
FitsModule(lines, s) ==
    \/ s.kind = "class" /\ lines[s.line].sort = "class"
    \/ s.kind \in {"function", "method"} /\ lines[s.line].sort = "def"

Anchor(lines, s) == IF s.kind = "method" THEN lines[s.line].owner ELSE s.line

Apart(s, t) == s.line # t.line \/ s.kind # t.kind

\* The methods of a class are definitions in it, and none is there twice.
LEMMA MethodsAre ==
    ASSUME NEW S, NEW lines \in Seq(S), NEW i \in 1..Len(lines)
    PROVE  /\ MethodsOf(lines, i) \in Seq(1..Len(lines))
           /\ \A k \in 1..Len(MethodsOf(lines, i)) :
                  lines[MethodsOf(lines, i)[k]].sort = "def" /\ lines[MethodsOf(lines, i)[k]].owner = i
           /\ \A j, k \in 1..Len(MethodsOf(lines, i)) : MethodsOf(lines, i)[j] = MethodsOf(lines, i)[k] => j = k
<1> DEFINE N == Len(lines)
           s == [j \in DOMAIN lines |-> j]
           T == { j \in DOMAIN lines : lines[j].sort = "def" /\ lines[j].owner = i }
           M == MethodsOf(lines, i)
<1>1. N \in Nat /\ DOMAIN lines = 1..N
  OBVIOUS
<1>2. s \in Seq(1..N) /\ IsInjective(s)
  <2>1. s = [j \in 1..N |-> j]
    BY <1>1
  <2>2. s \in [1..N -> 1..N]
    BY <2>1
  <2>3. IsInjective(s)
    BY <1>1, <2>1 DEF IsInjective
  <2> HIDE DEF s, N
  <2> QED
    BY <1>1, <2>2, <2>3, SMTT(30)
<1>3. M = Among(s, T)
  BY DEF MethodsOf
<1> HIDE DEF s, M, N
<1>4. M \in Seq(1..N) /\ (\A k \in 1..Len(M) : M[k] \in T) /\ IsInjective(M)
  <2> HIDE DEF T
  <2> QED
    BY <1>2, <1>3, AmongIs
<1>5. \A k \in 1..Len(M) : lines[M[k]].sort = "def" /\ lines[M[k]].owner = i
  BY <1>4
<1>6. DOMAIN M = 1..Len(M)
  BY <1>4
<1>7. \A j, k \in 1..Len(M) : M[j] = M[k] => j = k
  BY <1>4, <1>6 DEF IsInjective
<1> QED
  BY <1>4, <1>5, <1>7 DEF M, N

\* A symbol has its line and its kind.
LEMMA SymbolIs ==
    ASSUME NEW S, NEW lines \in Seq(S), NEW l \in 1..Len(lines), NEW kind \in {"function", "class", "method"}
    PROVE  NamedAs(lines, l, kind) \in Symbols(lines) /\ NamedAs(lines, l, kind).line = l
           /\ NamedAs(lines, l, kind).kind = kind
BY DEF NamedAs, Symbols

\* What the walk takes at a line: nothing twice, all of it anchored there, and a symbol of a
\* definition or a class.
LEMMA SymbolsAtAre ==
    ASSUME NEW S, NEW lines \in Seq(S), NEW i \in 1..Len(lines)
    PROVE  /\ SymbolsAt(lines, i) \in Seq(Symbols(lines))
           /\ \A k \in 1..Len(SymbolsAt(lines, i)) :
                  FitsModule(lines, SymbolsAt(lines, i)[k]) /\ Anchor(lines, SymbolsAt(lines, i)[k]) = i
           /\ \A j, k \in 1..Len(SymbolsAt(lines, i)) : j # k => Apart(SymbolsAt(lines, i)[j], SymbolsAt(lines, i)[k])
           /\ lines[i].sort \in {"def", "class"} => \E k \in 1..Len(SymbolsAt(lines, i)) : SymbolsAt(lines, i)[k].line = i
<1> DEFINE A == SymbolsAt(lines, i)
           F == NamedAs(lines, i, "function")
           C == NamedAs(lines, i, "class")
           M == MethodsOf(lines, i)
           m == [j \in DOMAIN M |-> NamedAs(lines, M[j], "method")]
           Y == Symbols(lines)
<1>1. F \in Y /\ F.line = i /\ F.kind = "function" /\ C \in Y /\ C.line = i /\ C.kind = "class"
  BY SymbolIs
<1> HIDE DEF F, C
<1>2. M \in Seq(1..Len(lines))
      /\ (\A k \in 1..Len(M) : lines[M[k]].sort = "def" /\ lines[M[k]].owner = i)
      /\ (\A j, k \in 1..Len(M) : M[j] = M[k] => j = k)
  BY MethodsAre
<1> HIDE DEF M
<1>3. Len(M) \in Nat /\ DOMAIN M = 1..Len(M) /\ \A k \in 1..Len(M) : M[k] \in 1..Len(lines)
  BY <1>2
<1>4. \A k \in 1..Len(M) : m[k] \in Y /\ m[k].line = M[k] /\ m[k].kind = "method"
  <2> SUFFICES ASSUME NEW k \in 1..Len(M)
               PROVE  m[k] \in Y /\ m[k].line = M[k] /\ m[k].kind = "method"
    OBVIOUS
  <2>1. m[k] = NamedAs(lines, M[k], "method") /\ M[k] \in 1..Len(lines)
    BY <1>3
  <2> QED
    BY <2>1, SymbolIs
<1>5. m \in Seq(Y) /\ Len(m) = Len(M)
  <2>1. m = [k \in 1..Len(M) |-> m[k]]
    BY <1>3
  <2> HIDE DEF m, Y
  <2> QED
    BY <1>3, <1>4, <2>1
<1> HIDE DEF m, Y
<1>6. CASE lines[i].sort = "def"
  <2>1. A = <<F>>
    BY <1>6 DEF SymbolsAt, F
  <2>2. A \in Seq(Y) /\ Len(A) = 1 /\ A[1] = F
    BY <1>1, <2>1
  <2>3. \A k \in 1..Len(A) : k = 1 /\ A[k] = F
    BY <2>2
  <2>4. FitsModule(lines, F) /\ Anchor(lines, F) = i
    BY <1>1, <1>6 DEF FitsModule, Anchor
  <2>5. 1 \in 1..Len(A) /\ A[1].line = i
    BY <1>1, <2>2
  <2> HIDE DEF A
  <2>6. \A j, k \in 1..Len(A) : j # k => Apart(A[j], A[k])
    BY <2>3
  <2>7. \A k \in 1..Len(A) : FitsModule(lines, A[k]) /\ Anchor(lines, A[k]) = i
    BY <2>3, <2>4
  <2> QED
    BY <2>2, <2>5, <2>6, <2>7 DEF A, Y
<1>7. CASE lines[i].sort = "class"
  <2> DEFINE c == <<C>>
  <2>1. A = c \o m
    <3>1. A = <<C>> \o [j \in DOMAIN M |-> NamedAs(lines, M[j], "method")]
      BY <1>7 DEF SymbolsAt, C, M
    <3> QED
      BY <3>1 DEF m
  <2>2. c \in Seq(Y) /\ Len(c) = 1 /\ c[1] = C
    BY <1>1
  <2> HIDE DEF A, c
  <2>3. /\ A \in Seq(Y) /\ Len(A) = 1 + Len(M)
        /\ \A k \in 1..(1 + Len(M)) : A[k] = IF k <= 1 THEN c[k] ELSE m[k - 1]
    <3>1. /\ A \in Seq(Y) /\ Len(A) = Len(c) + Len(m)
          /\ \A k \in 1..(Len(c) + Len(m)) : A[k] = IF k <= Len(c) THEN c[k] ELSE m[k - Len(c)]
      <4>1. c \in Seq(Y) /\ m \in Seq(Y)
        BY <1>5, <2>2
      <4>2. /\ c \o m \in Seq(Y) /\ Len(c \o m) = Len(c) + Len(m)
            /\ \A k \in 1..(Len(c) + Len(m)) : (c \o m)[k] = IF k <= Len(c) THEN c[k] ELSE m[k - Len(c)]
        BY <4>1, ConcatProperties
      <4> QED
        BY <2>1, <4>2, Zenon
    <3>2. Len(c) = 1 /\ Len(m) = Len(M)
      BY <1>5, <2>2
    <3> QED
      BY <3>1, <3>2, Zenon
  <2>4. A[1] = C /\ 1 \in 1..Len(A)
    BY <1>3, <2>2, <2>3
  <2>5. \A k \in 1..Len(A) : k # 1 => k - 1 \in 1..Len(M) /\ A[k] = m[k - 1]
    BY <1>3, <2>3
  <2>6. FitsModule(lines, C) /\ Anchor(lines, C) = i
    BY <1>1, <1>7 DEF FitsModule, Anchor
  <2>7. \A k \in 1..Len(M) : FitsModule(lines, m[k]) /\ Anchor(lines, m[k]) = i
    BY <1>2, <1>4 DEF FitsModule, Anchor
  <2>8. \A k \in 1..Len(A) : FitsModule(lines, A[k]) /\ Anchor(lines, A[k]) = i
    <3> SUFFICES ASSUME NEW k \in 1..Len(A)
                 PROVE  FitsModule(lines, A[k]) /\ Anchor(lines, A[k]) = i
      OBVIOUS
    <3>1. CASE k = 1
      BY <2>4, <2>6, <3>1
    <3>2. CASE k # 1
      BY <2>5, <2>7, <3>2
    <3> QED
      BY <3>1, <3>2
  <2>9. \A j, k \in 1..Len(A) : j # k => Apart(A[j], A[k])
    <3> SUFFICES ASSUME NEW j \in 1..Len(A), NEW k \in 1..Len(A), j # k
                 PROVE  Apart(A[j], A[k])
      OBVIOUS
    <3>1. CASE j = 1
      <4>1. k # 1 /\ A[k].kind = "method" /\ A[j].kind = "class"
        BY <1>1, <1>4, <2>4, <2>5, <3>1
      <4> QED
        BY <4>1 DEF Apart
    <3>2. CASE k = 1
      <4>1. A[j].kind = "method" /\ A[k].kind = "class"
        BY <1>1, <1>4, <2>4, <2>5, <3>2
      <4> QED
        BY <4>1 DEF Apart
    <3>3. CASE j # 1 /\ k # 1
      <4>1. j - 1 \in 1..Len(M) /\ k - 1 \in 1..Len(M) /\ A[j].line = M[j - 1] /\ A[k].line = M[k - 1] /\ j - 1 # k - 1
        <5>1. j - 1 \in 1..Len(M) /\ k - 1 \in 1..Len(M) /\ A[j] = m[j - 1] /\ A[k] = m[k - 1]
          BY <2>5, <3>3
        <5>2. j - 1 # k - 1
          <6>1. j \in Nat /\ k \in Nat
            BY <2>3
          <6> QED
            BY <6>1
        <5> QED
          BY <1>4, <5>1, <5>2
      <4> QED
        BY <1>2, <4>1 DEF Apart
    <3> QED
      BY <3>1, <3>2, <3>3
  <2>10. 1 \in 1..Len(A) /\ A[1].line = i
    BY <1>1, <2>4
  <2> QED
    BY <2>3, <2>8, <2>9, <2>10 DEF A, Y
<1>8. CASE lines[i].sort \notin {"def", "class"}
  <2>1. A = <<>>
    BY <1>8 DEF SymbolsAt
  <2>2. A \in Seq(Y) /\ Len(A) = 0
    BY <2>1
  <2> QED
    BY <1>8, <2>2 DEF Y
<1> QED
  BY <1>6, <1>7, <1>8

\* Symbols that are anchored apart are apart.
LEMMA AnchoredApart ==
    ASSUME NEW lines, NEW s, NEW t, Anchor(lines, s) # Anchor(lines, t)
    PROVE  Apart(s, t)
<1>1. CASE s.kind = t.kind
  <2>1. s.line # t.line
    BY <1>1 DEF Anchor
  <2> QED
    BY <2>1 DEF Apart
<1> QED
  BY <1>1 DEF Apart

\* A level of the walk: symbols of its lines, nothing twice, each definition and class there.
LEMMA LevelIs ==
    ASSUME NEW S, NEW lines \in Seq(S), NEW at
    PROVE  /\ WalkLevel(lines, at) \in Seq(Symbols(lines))
           /\ \A a \in 1..Len(WalkLevel(lines, at)) :
                  FitsModule(lines, WalkLevel(lines, at)[a]) /\ Anchor(lines, WalkLevel(lines, at)[a]) \in at
           /\ \A a, b \in 1..Len(WalkLevel(lines, at)) : a # b => Apart(WalkLevel(lines, at)[a], WalkLevel(lines, at)[b])
           /\ \A i \in 1..Len(lines) : i \in at /\ lines[i].sort \in {"def", "class"} =>
                  \E a \in 1..Len(WalkLevel(lines, at)) : WalkLevel(lines, at)[a].line = i
<1> DEFINE N == Len(lines)
           Y == Symbols(lines)
           parts == [i \in DOMAIN lines |-> IF i \in at THEN SymbolsAt(lines, i) ELSE <<>>]
           L == WalkLevel(lines, at)
<1>1. N \in Nat /\ DOMAIN lines = 1..N
  OBVIOUS
<1>2. \A i \in 1..N : parts[i] = IF i \in at THEN SymbolsAt(lines, i) ELSE <<>>
  BY <1>1
<1>3. <<>> \in Seq(Y) /\ Len(<<>>) = 0
  OBVIOUS
<1>4. \A i \in 1..N : parts[i] \in Seq(Y)
  <2> SUFFICES ASSUME NEW i \in 1..N
               PROVE  parts[i] \in Seq(Y)
    OBVIOUS
  <2>1. SymbolsAt(lines, i) \in Seq(Y)
    BY SymbolsAtAre
  <2> HIDE DEF parts, Y, N
  <2> QED
    BY <1>2, <1>3, <2>1
<1>5. parts \in Seq(Seq(Y)) /\ Len(parts) = N
  <2>1. parts = [i \in 1..N |-> parts[i]]
    BY <1>1
  <2> HIDE DEF N, parts, Y
  <2> QED
    BY <1>1, <1>4, <2>1
<1>6. L = FlattenSeq(parts)
  BY DEF WalkLevel
<1> HIDE DEF parts, L
<1>7. \A i \in 1..N : \A k \in 1..Len(parts[i]) :
          /\ i \in at /\ FitsModule(lines, parts[i][k]) /\ Anchor(lines, parts[i][k]) = i
          /\ \A j \in 1..Len(parts[i]) : j # k => Apart(parts[i][j], parts[i][k])
  <2> SUFFICES ASSUME NEW i \in 1..N, NEW k \in 1..Len(parts[i])
               PROVE  /\ i \in at /\ FitsModule(lines, parts[i][k]) /\ Anchor(lines, parts[i][k]) = i
                      /\ \A j \in 1..Len(parts[i]) : j # k => Apart(parts[i][j], parts[i][k])
    OBVIOUS
  <2>1. i \in at /\ parts[i] = SymbolsAt(lines, i)
    <3>1. ASSUME i \notin at
          PROVE  FALSE
      <4>1. parts[i] = <<>>
        BY <1>2, <3>1
      <4> QED
        BY <1>3, <4>1
    <3> QED
      BY <1>2, <3>1
  <2>2. /\ \A c \in 1..Len(SymbolsAt(lines, i)) :
               FitsModule(lines, SymbolsAt(lines, i)[c]) /\ Anchor(lines, SymbolsAt(lines, i)[c]) = i
        /\ \A j, c \in 1..Len(SymbolsAt(lines, i)) : j # c => Apart(SymbolsAt(lines, i)[j], SymbolsAt(lines, i)[c])
    BY SymbolsAtAre
  <2> QED
    BY <2>1, <2>2, Zenon
<1>8. L \in Seq(Y)
  BY <1>5, <1>6, FlattenHas
<1>9. ASSUME NEW a \in 1..Len(L)
      PROVE  FitsModule(lines, L[a]) /\ Anchor(lines, L[a]) \in at
  <2>1. PICK n \in 1..Len(parts) : \E k \in 1..Len(parts[n]) : L[a] = parts[n][k]
    <3> HIDE DEF N, Y
    <3> QED
      BY <1>5, <1>6, FlattenHas, ZenonT(30)
  <2>2. PICK k \in 1..Len(parts[n]) : L[a] = parts[n][k]
    BY <2>1
  <2>3. n \in 1..N
    BY <1>5
  <2>4. n \in at /\ FitsModule(lines, parts[n][k]) /\ Anchor(lines, parts[n][k]) = n
    BY <1>7, <2>3, Zenon
  <2> QED
    BY <2>2, <2>4
<1>10. ASSUME NEW a \in 1..Len(L), NEW b \in 1..Len(L), a # b
       PROVE  Apart(L[a], L[b])
  <2> HIDE DEF N, Y
  <2>1. \E m, n \in 1..Len(parts) : \E j \in 1..Len(parts[m]) : \E k \in 1..Len(parts[n]) :
            L[a] = parts[m][j] /\ L[b] = parts[n][k] /\ (m # n \/ j # k)
    <3>1. a \in 1..Len(FlattenSeq(parts)) /\ b \in 1..Len(FlattenSeq(parts)) /\ a # b /\ parts \in Seq(Seq(Y))
      BY <1>5, <1>6, <1>10, Zenon
    <3>2. PlacesOf(FlattenSeq(parts), parts, a, b)
      BY <3>1, FlattenApart
    <3> QED
      BY <1>6, <3>2 DEF PlacesOf
  <2>2. PICK m \in 1..Len(parts), n \in 1..Len(parts) : \E j \in 1..Len(parts[m]) : \E k \in 1..Len(parts[n]) :
            L[a] = parts[m][j] /\ L[b] = parts[n][k] /\ (m # n \/ j # k)
    BY <2>1
  <2>3. PICK j \in 1..Len(parts[m]), k \in 1..Len(parts[n]) :
            L[a] = parts[m][j] /\ L[b] = parts[n][k] /\ (m # n \/ j # k)
    BY <2>2
  <2>4. m \in 1..N /\ n \in 1..N
    BY <1>5
  <2>5. CASE m # n
    <3>1. Anchor(lines, parts[m][j]) = m /\ Anchor(lines, parts[n][k]) = n
      BY <1>7, <2>4, Zenon
    <3>2. Anchor(lines, L[a]) # Anchor(lines, L[b])
      BY <2>3, <2>5, <3>1, Zenon
    <3> QED
      BY <3>2, AnchoredApart
  <2>6. CASE m = n
    <3>1. j \in 1..Len(parts[n]) /\ j # k
      BY <2>3, <2>6
    <3>2. Apart(parts[n][j], parts[n][k])
      BY <1>7, <2>4, <3>1, Zenon
    <3> QED
      BY <2>3, <2>6, <3>2
  <2> QED
    BY <2>5, <2>6
<1>11. ASSUME NEW i \in 1..N, i \in at, lines[i].sort \in {"def", "class"}
       PROVE  \E a \in 1..Len(L) : L[a].line = i
  <2>1. PICK k \in 1..Len(SymbolsAt(lines, i)) : SymbolsAt(lines, i)[k].line = i
    BY <1>11, SymbolsAtAre
  <2>2. parts[i] = SymbolsAt(lines, i)
    BY <1>2, <1>11
  <2>3. i \in 1..Len(parts) /\ k \in 1..Len(parts[i])
    BY <1>5, <2>2
  <2>4. PICK a \in 1..Len(FlattenSeq(parts)) : FlattenSeq(parts)[a] = parts[i][k]
    <3> HIDE DEF N, Y
    <3> QED
      BY <1>5, <2>3, FlattenHas
  <2> QED
    BY <1>6, <2>1, <2>2, <2>4
<1> QED
  BY <1>8, <1>9, <1>10, <1>11 DEF L, N, Y

\* The symbols of a text: each at a line of its sort, none twice as the same, and one of each
\* definition and class.
LEMMA SymbolsAre ==
    ASSUME NEW S, NEW lines \in Seq(S)
    PROVE  /\ PythonSymbols(lines) \in Seq(Symbols(lines))
           /\ \A a \in 1..Len(PythonSymbols(lines)) : FitsModule(lines, PythonSymbols(lines)[a])
           /\ \A a, b \in 1..Len(PythonSymbols(lines)) :
                  a # b => Apart(PythonSymbols(lines)[a], PythonSymbols(lines)[b])
           /\ \A i \in 1..Len(lines) : lines[i].sort \in {"def", "class"} =>
                  \E a \in 1..Len(PythonSymbols(lines)) : PythonSymbols(lines)[a].line = i
<1> DEFINE N == Len(lines)
           Y == Symbols(lines)
           T == Outermost(lines)
           U == DOMAIN lines \ Outermost(lines)
           s == WalkLevel(lines, T)
           t == WalkLevel(lines, U)
           P == PythonSymbols(lines)
<1>1. N \in Nat /\ DOMAIN lines = 1..N
  OBVIOUS
<1>2. /\ s \in Seq(Y) /\ \A a \in 1..Len(s) : FitsModule(lines, s[a]) /\ Anchor(lines, s[a]) \in T
      /\ \A a, b \in 1..Len(s) : a # b => Apart(s[a], s[b])
      /\ \A i \in 1..N : i \in T /\ lines[i].sort \in {"def", "class"} => \E a \in 1..Len(s) : s[a].line = i
  <2> HIDE DEF T
  <2> QED
    BY LevelIs
<1>3. /\ t \in Seq(Y) /\ \A a \in 1..Len(t) : FitsModule(lines, t[a]) /\ Anchor(lines, t[a]) \in U
      /\ \A a, b \in 1..Len(t) : a # b => Apart(t[a], t[b])
      /\ \A i \in 1..N : i \in U /\ lines[i].sort \in {"def", "class"} => \E a \in 1..Len(t) : t[a].line = i
  <2> HIDE DEF U
  <2> QED
    BY LevelIs
<1>4. P = s \o t
  BY DEF PythonSymbols
<1>5. \A i \in 1..N : i \in T \/ i \in U
  BY <1>1
<1>6. T \cap U = {}
  OBVIOUS
<1> HIDE DEF P, s, t, T, U, Y
<1>7. /\ P \in Seq(Y) /\ Len(P) = Len(s) + Len(t)
      /\ \A i \in 1..(Len(s) + Len(t)) : P[i] = IF i <= Len(s) THEN s[i] ELSE t[i - Len(s)]
  <2>1. s \in Seq(Y) /\ t \in Seq(Y)
    BY <1>2, <1>3
  <2> QED
    BY <1>4, <2>1, ConcatProperties
<1>8. Len(s) \in Nat /\ Len(t) \in Nat
  BY <1>2, <1>3
<1>9. \A a \in 1..Len(P) : \/ a \in 1..Len(s) /\ P[a] = s[a]
                           \/ a - Len(s) \in 1..Len(t) /\ P[a] = t[a - Len(s)]
  BY <1>7, <1>8
<1>10. ASSUME NEW a \in 1..Len(P)
       PROVE  FitsModule(lines, P[a])
  <2>1. CASE a \in 1..Len(s) /\ P[a] = s[a]
    BY <1>2, <2>1
  <2>2. CASE a - Len(s) \in 1..Len(t) /\ P[a] = t[a - Len(s)]
    BY <1>3, <2>2
  <2> QED
    BY <1>9, <2>1, <2>2
<1>11. ASSUME NEW a \in 1..Len(P), NEW b \in 1..Len(P), a # b
       PROVE  Apart(P[a], P[b])
  <2>1. CASE a \in 1..Len(s) /\ P[a] = s[a]
    <3>1. CASE b \in 1..Len(s) /\ P[b] = s[b]
      BY <1>2, <1>11, <2>1, <3>1
    <3>2. CASE b - Len(s) \in 1..Len(t) /\ P[b] = t[b - Len(s)]
      <4>1. Anchor(lines, P[a]) \in T /\ Anchor(lines, P[b]) \in U
        BY <1>2, <1>3, <2>1, <3>2
      <4> QED
        BY <1>6, <4>1, AnchoredApart
    <3> QED
      BY <1>9, <3>1, <3>2
  <2>2. CASE a - Len(s) \in 1..Len(t) /\ P[a] = t[a - Len(s)]
    <3>1. CASE b \in 1..Len(s) /\ P[b] = s[b]
      <4>1. Anchor(lines, P[a]) \in U /\ Anchor(lines, P[b]) \in T
        BY <1>2, <1>3, <2>2, <3>1
      <4> QED
        BY <1>6, <4>1, AnchoredApart
    <3>2. CASE b - Len(s) \in 1..Len(t) /\ P[b] = t[b - Len(s)]
      <4>1. a - Len(s) # b - Len(s)
        <5>1. a \in Nat /\ b \in Nat
          BY <1>7, <1>8
        <5> QED
          BY <1>8, <1>11, <5>1
      <4> QED
        BY <1>3, <2>2, <3>2, <4>1
    <3> QED
      BY <1>9, <3>1, <3>2
  <2> QED
    BY <1>9, <2>1, <2>2
<1>12. ASSUME NEW i \in 1..N, lines[i].sort \in {"def", "class"}
       PROVE  \E a \in 1..Len(P) : P[a].line = i
  <2>1. CASE i \in T
    <3>1. PICK a \in 1..Len(s) : s[a].line = i
      BY <1>2, <1>12, <2>1
    <3>2. a \in 1..Len(P) /\ P[a] = s[a]
      BY <1>7, <1>8
    <3> QED
      BY <3>1, <3>2
  <2>2. CASE i \in U
    <3>1. PICK a \in 1..Len(t) : t[a].line = i
      BY <1>3, <1>12, <2>2
    <3> DEFINE b == Len(s) + a
    <3>2. b \in 1..(Len(s) + Len(t)) /\ ~(b <= Len(s)) /\ b - Len(s) = a
      BY <1>8
    <3> HIDE DEF b
    <3>3. P[b] = t[a]
      BY <1>7, <3>2
    <3> QED
      BY <1>7, <3>1, <3>2, <3>3
  <2> QED
    BY <1>5, <2>1, <2>2
<1> QED
  BY <1>7, <1>10, <1>11, <1>12 DEF P, N, Y

ToolsSpec == ToolInit /\ [][ToolNext]_toolVars

\* What a call told of the module that it found.
TellsPieces(e) ==
    e.tool = "read_file" /\ e.result.ok =>
        /\ \A at \in 1..Len(PiecesOf(e.module.lines)) :
               e.asked = <<"module", at, at>> => e.result.value = <<PiecesOf(e.module.lines)[at]>>
        /\ e.asked = <<"module", 0, 0>> => e.result.value = PiecesOf(e.module.lines)

TellsMatches(e) ==
    e.tool = "grep" /\ e.result.ok =>
        /\ \A m \in Range(e.result.value) : m.path = "module" =>
               m.number \in 1..Len(PiecesOf(e.module.lines)) /\ m.line = PiecesOf(e.module.lines)[m.number]
        /\ \/ Len(e.result.value) = e.asked.max
           \/ "module" \notin Range(e.asked.paths)
           \/ \A l \in DOMAIN e.module.lines :
                  e.module.lines[l].sort # "feed" /\ e.module.lines[l].name = e.asked.name =>
                      \E m \in Range(e.result.value) : m.path = "module" /\ m.line = l

TellsSymbols(e) ==
    e.tool = "find_symbol" /\ e.result.ok =>
        /\ \A s \in Range(e.result.value) : s.line \in 1..Len(e.module.lines)
        /\ \A l \in DOMAIN e.module.lines :
               \/ e.module.lines[l].name # e.asked.name \/ e.module.lines[l].sort \notin {"def", "async", "class"}
               \/ e.module.lines[l].sort = "async" \/ e.module.state # "valid"
               \/ \E s \in Range(e.result.value) : s.line = l

TellsAll(e) ==
    e.tool = "extract_symbols" /\ e.result.ok =>
        \A a, b \in DOMAIN e.result.value :
            a # b /\ e.result.value[a].line = e.result.value[b].line =>
                {e.result.value[a].kind, e.result.value[b].kind} = {"method", "function"}

TellsCount(e) ==
    /\ e.tool = "get_file_info" /\ e.result.ok => e.result.value = Len(e.module.lines)
    /\ e.tool = "parse_ast" /\ e.result.ok /\ e.asked = "module" =>
           e.result.value.count = Len(PiecesOf(e.module.lines)) \/ ~e.module.ended \/ e.module.state = "syntax"

TellsFiles(e) ==
    e.tool = "list_files" /\ e.result.ok =>
        e.result.value = RepoFiles \/ Cardinality(e.result.value) = Max({e.asked, 1})

Tells(e) == TellsPieces(e) /\ TellsMatches(e) /\ TellsSymbols(e) /\ TellsAll(e) /\ TellsCount(e) /\ TellsFiles(e)

Called(tool, asked, result) ==
    [tool |-> tool, asked |-> asked, module |-> moduleText, refused |-> FALSE, result |-> result]

ModuleTyped ==
    /\ moduleText \in [lines : Texts, ended : BOOLEAN, state : {"valid", "syntax", "bytes"}]
    /\ moduleText.lines \in Seq(Range(moduleText.lines))

\* The lesser of two numbers.
LEMMA LesserOf ==
    ASSUME NEW a \in Nat, NEW b \in Nat
    PROVE  Min({a, b}) = IF a <= b THEN a ELSE b
<1> DEFINE m == IF a <= b THEN a ELSE b
<1>1. m \in {a, b} /\ \A y \in {a, b} : m =< y
  OBVIOUS
<1>2. \A x \in {a, b} : (\A y \in {a, b} : x =< y) => x = m
  OBVIOUS
<1> HIDE DEF m
<1>3. Min({a, b}) = CHOOSE x \in {a, b} : \A y \in {a, b} : x =< y
  BY DEF Min
<1>4. Min({a, b}) = m
  BY <1>1, <1>2, <1>3
<1> QED
  BY <1>4 DEF m

\* The greater of two numbers.
LEMMA GreaterOf ==
    ASSUME NEW a \in Nat, NEW b \in Nat
    PROVE  Max({a, b}) = IF a >= b THEN a ELSE b
<1> DEFINE m == IF a >= b THEN a ELSE b
<1>1. m \in {a, b} /\ \A y \in {a, b} : m >= y
  OBVIOUS
<1>2. \A x \in {a, b} : (\A y \in {a, b} : x >= y) => x = m
  OBVIOUS
<1> HIDE DEF m
<1>3. Max({a, b}) = CHOOSE x \in {a, b} : \A y \in {a, b} : x >= y
  BY DEF Max
<1>4. Max({a, b}) = m
  BY <1>1, <1>2, <1>3
<1> QED
  BY <1>4 DEF m

\* list_files: all the files there are, or as many as the limit lets it tell.
LEMMA FilesAreTold ==
    ASSUME NEW max \in 0..2, NEW files \in ListFiles(max)
    PROVE  TellsFiles(Called("list_files", max, Returns(files)))
<1> DEFINE top == Max({max, 1})
<1>1. top \in Nat /\ top >= 1
  BY GreaterOf
<1>2. IsFiniteSet(RepoFiles) /\ Cardinality(RepoFiles) = 2
  <2>1. IsFiniteSet({"module"}) /\ Cardinality({"module"}) = 1
    BY FS_Singleton
  <2>2. RepoFiles = {"module"} \cup {"notes"} /\ "notes" \notin {"module"}
    BY DEF RepoFiles
  <2> QED
    BY <2>1, <2>2, FS_AddElement
<1>3. files \subseteq RepoFiles /\ Cardinality(files) = ListedCount(max)
  BY DEF ListFiles, kSubset
<1> HIDE DEF top
<1>4. ListedCount(max) = IF top <= 2 THEN top ELSE 2
  <2>1. ListedCount(max) = Min({top, 2})
    BY <1>2 DEF ListedCount, top
  <2> QED
    BY <1>1, <2>1, LesserOf
<1>5. files = RepoFiles \/ Cardinality(files) = top
  <2>1. CASE ListedCount(max) = 2
    BY <1>2, <1>3, <2>1, FS_Subset
  <2>2. CASE ListedCount(max) = top
    BY <1>3, <2>2
  <2> QED
    BY <1>4, <2>1, <2>2
<1>6. Called("list_files", max, Returns(files)).result.value = files /\ Called("list_files", max, Returns(files)).asked = max
  BY DEF Called, Returns
<1> QED
  BY <1>5, <1>6 DEF TellsFiles, top

\* read_file: the piece that was asked for, or all of them.
LEMMA PiecesAreTold ==
    ASSUME ModuleTyped, NEW p \in {"module", "missing"}, NEW from \in Nat, NEW upto \in {0, from}
    PROVE  TellsPieces(Called("read_file", <<p, from, upto>>, ReadText(p, from, upto)))
<1> DEFINE P == PiecesOf(moduleText.lines)
           e == Called("read_file", <<p, from, upto>>, ReadText(p, from, upto))
<1>1. e.module = moduleText /\ e.asked = <<p, from, upto>> /\ e.result = ReadText(p, from, upto)
  BY DEF Called
<1>2. P \in Seq(1..Len(moduleText.lines)) /\ Len(P) \in Nat
  BY PiecesAre DEF ModuleTyped
<1> HIDE DEF P, e
<1>3. p = "module" => ReadText(p, from, upto) =
          Returns(LineRange(P, Max({from, 1}), IF upto = 0 THEN Len(P) ELSE Min({upto, Len(P)})))
  BY DEF ReadText, IsFile, RepoFiles, TextAt, P
<1>4. Max({from, 1}) = IF from >= 1 THEN from ELSE 1
  BY GreaterOf
<1>5. upto \in Nat /\ Min({upto, Len(P)}) = IF upto <= Len(P) THEN upto ELSE Len(P)
  <2>1. upto \in Nat
    OBVIOUS
  <2> QED
    BY <1>2, <2>1, LesserOf
<1>6. ASSUME NEW at \in 1..Len(P), e.asked = <<"module", at, at>>
      PROVE  e.result.value = <<P[at]>>
  <2>1. p = "module" /\ from = at /\ upto = at
    BY <1>1, <1>6
  <2>2. e.result = Returns(LineRange(P, at, at))
    <3>1. at \in Nat /\ at >= 1 /\ at # 0 /\ at <= Len(P)
      BY <1>2
    <3> QED
      BY <1>1, <1>3, <1>4, <1>5, <2>1, <3>1
  <2>3. SubSeq(P, at, at) = <<P[at]>>
    <3> DEFINE X == 1..Len(moduleText.lines)
    <3>1. P \in Seq(X) /\ at \in at..Len(P) /\ at + 1 > at /\ at \in Int /\ P[at] \in X
      BY <1>2
    <3> HIDE DEF X
    <3>2. SubSeq(P, at, at) = <<P[at]>> \o SubSeq(P, at + 1, at)
      BY <3>1, SubSeqRecursiveFirst
    <3>3. SubSeq(P, at + 1, at) = <<>>
      BY <3>1, SubSeqEmpty
    <3>4. <<P[at]>> \in Seq(X)
      BY <3>1
    <3>5. <<P[at]>> \o <<>> = <<P[at]>>
      BY <3>4, ConcatEmptySeq
    <3> QED
      BY <3>2, <3>3, <3>5
  <2> QED
    BY <2>2, <2>3 DEF Returns, LineRange
<1>7. ASSUME e.asked = <<"module", 0, 0>>
      PROVE  e.result.value = P
  <2>1. p = "module" /\ from = 0 /\ upto = 0
    BY <1>1, <1>7
  <2>2. e.result = Returns(LineRange(P, 1, Len(P)))
    BY <1>1, <1>3, <1>4, <2>1
  <2>3. SubSeq(P, 1, Len(P)) = P
    BY <1>2, SubSeqFull
  <2> QED
    BY <2>2, <2>3 DEF Returns, LineRange
<1>8. PiecesOf(e.module.lines) = P
  BY <1>1 DEF P
<1> QED
  BY <1>6, <1>7, <1>8, Zenon DEF TellsPieces, e

\* get_file_info and parse_ast: the lines there are, and the pieces.
LEMMA CountsAreTold ==
    ASSUME ModuleTyped, NEW p \in {"module", "missing", "notes"}
    PROVE  /\ p # "notes" => TellsCount(Called("get_file_info", p, FileInfo(p)))
           /\ p # "missing" => TellsCount(Called("parse_ast", p, ParseAst(p)))
<1>1. ASSUME p # "notes"
      PROVE  TellsCount(Called("get_file_info", p, FileInfo(p)))
  <2> DEFINE e == Called("get_file_info", p, FileInfo(p))
  <2>1. e.tool = "get_file_info" /\ e.module = moduleText /\ e.result = FileInfo(p)
    BY DEF Called
  <2>2. e.result.ok => p = "module"
    BY <1>1, <2>1 DEF FileInfo, IsFile, RepoFiles, Raises
  <2>3. p = "module" => FileInfo(p).value = Len(moduleText.lines)
    BY DEF FileInfo, IsFile, RepoFiles, Returns, InfoCount, TextAt
  <2> HIDE DEF e
  <2> QED
    BY <2>1, <2>2, <2>3 DEF TellsCount, e
<1>2. ASSUME p # "missing"
      PROVE  TellsCount(Called("parse_ast", p, ParseAst(p)))
  <2> DEFINE e == Called("parse_ast", p, ParseAst(p))
  <2>1. e.tool = "parse_ast" /\ e.module = moduleText /\ e.result = ParseAst(p) /\ e.asked = p
    BY DEF Called
  <2> HIDE DEF e
  <2>2. ASSUME e.result.ok, e.asked = "module", e.module.ended, e.module.state # "syntax"
        PROVE  e.result.value.count = Len(PiecesOf(e.module.lines))
    <3>1. ~Unparsed(p)
      BY <2>1, <2>2 DEF ParseAst, Raises
    <3>2. e.result = Returns([count |-> ParsedCount, imports |-> ImportsOf(moduleText.lines)])
      BY <2>1, <2>2, <3>1 DEF ParseAst, ParsedModule
    <3>3. e.result.value.count = ParsedCount
      BY <3>2 DEF Returns
    <3>4. Len(PiecesOf(moduleText.lines)) \in Nat
      BY PiecesAre DEF ModuleTyped
    <3> QED
      BY <2>1, <2>2, <3>3, <3>4 DEF ParsedCount
  <2> QED
    BY <2>1, <2>2 DEF TellsCount, e
<1> QED
  BY <1>1, <1>2

\* The symbols of a path are those of the module, or none.
LEMMA SymbolsOfPath ==
    ASSUME ModuleTyped, NEW p
    PROVE  /\ SymbolsOf(p) \in Seq(Symbols(moduleText.lines))
           /\ SymbolsOf(p) = <<>> \/ SymbolsOf(p) = PythonSymbols(moduleText.lines)
           /\ p = "module" /\ moduleText.state = "valid" => SymbolsOf(p) = PythonSymbols(moduleText.lines)
<1>1. SymbolsOf(p) = <<>> \/ SymbolsOf(p) = PythonSymbols(moduleText.lines)
  BY DEF SymbolsOf
<1>2. PythonSymbols(moduleText.lines) \in Seq(Symbols(moduleText.lines)) /\ <<>> \in Seq(Symbols(moduleText.lines))
  <2>1. PythonSymbols(moduleText.lines) \in Seq(Symbols(moduleText.lines))
    BY SymbolsAre DEF ModuleTyped
  <2> QED
    BY <2>1
<1>3. p = "module" /\ moduleText.state = "valid" => SymbolsOf(p) = PythonSymbols(moduleText.lines)
  BY DEF SymbolsOf, Unparsed, IsFile, RepoFiles
<1> QED
  BY <1>1, <1>2, <1>3

\* A symbol is of its line.
LEMMA SymbolHasLine ==
    ASSUME NEW lines, NEW s \in Symbols(lines)
    PROVE  s.line \in 1..Len(lines) /\ s.name = lines[s.line].name /\ s.kind \in {"function", "class", "method"}
<1>1. PICK l \in 1..Len(lines), kind \in {"function", "class", "method"} : s = NamedAs(lines, l, kind)
  BY DEF Symbols
<1> QED
  BY <1>1 DEF NamedAs

\* extract_symbols: two symbols of a line are those of a method.
LEMMA AllAreTold ==
    ASSUME ModuleTyped, NEW p
    PROVE  TellsAll(Called("extract_symbols", p, ExtractSymbols(p)))
<1> DEFINE e == Called("extract_symbols", p, ExtractSymbols(p))
           P == PythonSymbols(moduleText.lines)
<1>1. e.result = ExtractSymbols(p)
  BY DEF Called
<1>2. e.result.ok => e.result.value = SymbolsOf(p)
  BY <1>1 DEF ExtractSymbols, Raises, Returns
<1>3. /\ P \in Seq(Symbols(moduleText.lines))
      /\ \A a \in 1..Len(P) : FitsModule(moduleText.lines, P[a])
      /\ \A a, b \in 1..Len(P) : a # b => Apart(P[a], P[b])
  BY SymbolsAre DEF ModuleTyped
<1> HIDE DEF e, P
<1>4. ASSUME NEW a \in 1..Len(P), NEW b \in 1..Len(P), a # b, P[a].line = P[b].line
      PROVE  {P[a].kind, P[b].kind} = {"method", "function"}
  <2>1. P[a].kind # P[b].kind
    BY <1>3, <1>4 DEF Apart
  <2>2. FitsModule(moduleText.lines, P[a]) /\ FitsModule(moduleText.lines, P[b])
    BY <1>3
  <2> QED
    BY <1>4, <2>1, <2>2 DEF FitsModule
<1>5. SymbolsOf(p) = <<>> \/ SymbolsOf(p) = P
  BY SymbolsOfPath DEF P
<1>6. DOMAIN P = 1..Len(P)
  BY <1>3
<1>7. ASSUME e.result.ok
      PROVE  \A a, b \in DOMAIN e.result.value :
                 a # b /\ e.result.value[a].line = e.result.value[b].line =>
                     {e.result.value[a].kind, e.result.value[b].kind} = {"method", "function"}
  <2>1. CASE e.result.value = <<>>
    BY <2>1
  <2>2. CASE e.result.value = P
    BY <1>4, <1>6, <2>2
  <2> QED
    BY <1>2, <1>5, <1>7, <2>1, <2>2
<1> QED
  BY <1>7 DEF TellsAll, e

\* What a path has of a name.
LEMMA NamedAre ==
    ASSUME ModuleTyped, NEW p, NEW name
    PROVE  /\ NamedIn(p, name) \in Seq(Symbols(moduleText.lines))
           /\ p = "module" /\ moduleText.state = "valid" =>
                  \A l \in 1..Len(moduleText.lines) :
                      moduleText.lines[l].name = name /\ moduleText.lines[l].sort \in {"def", "class"} =>
                          \E k \in 1..Len(NamedIn(p, name)) : NamedIn(p, name)[k].line = l
<1> DEFINE s == SymbolsOf(p)
           T == { x \in Range(s) : x.name = name }
           P == PythonSymbols(moduleText.lines)
<1>1. s \in Seq(Symbols(moduleText.lines))
  BY SymbolsOfPath
<1>2. NamedIn(p, name) = Among(s, T)
  BY DEF NamedIn
<1> HIDE DEF s
<1>3. NamedIn(p, name) \in Seq(Symbols(moduleText.lines))
  <2> HIDE DEF T
  <2> QED
    BY <1>1, <1>2, AmongIs
<1>4. \A i \in 1..Len(s) : s[i] \in T => \E k \in 1..Len(Among(s, T)) : Among(s, T)[k] = s[i]
  <2> HIDE DEF T
  <2> QED
    BY <1>1, AmongIs
<1>5. ASSUME p = "module", moduleText.state = "valid", NEW l \in 1..Len(moduleText.lines),
             moduleText.lines[l].name = name, moduleText.lines[l].sort \in {"def", "class"}
      PROVE  \E k \in 1..Len(NamedIn(p, name)) : NamedIn(p, name)[k].line = l
  <2>1. s = P
    BY <1>5, SymbolsOfPath DEF s
  <2>2. PICK a \in 1..Len(P) : P[a].line = l
    BY <1>5, SymbolsAre DEF ModuleTyped
  <2>3. a \in 1..Len(s) /\ s[a].line = l /\ s[a] \in Symbols(moduleText.lines)
    BY <1>1, <2>1, <2>2
  <2>4. s[a].name = name
    BY <1>5, <2>3, SymbolHasLine
  <2>5. s[a] \in T
    <3>1. a \in DOMAIN s
      BY <1>1, <2>3
    <3> QED
      BY <2>4, <3>1 DEF Range
  <2>6. PICK k \in 1..Len(Among(s, T)) : Among(s, T)[k] = s[a]
    <3> HIDE DEF T
    <3> QED
      BY <1>4, <2>3, <2>5
  <2> HIDE DEF T
  <2> QED
    BY <1>2, <2>3, <2>6
<1> QED
  BY <1>3, <1>5

\* find_symbol: each symbol at a line of the module, and every definition and class of the
\* name where the module can be parsed.
LEMMA SymbolsAreTold ==
    ASSUME ModuleTyped, NEW k, NEW paths \in {<<"module">>, <<"missing", "module">>}
    PROVE  TellsSymbols(Called("find_symbol", [name |-> k, paths |-> paths], Returns(FindSymbol(k, paths))))
<1> DEFINE e == Called("find_symbol", [name |-> k, paths |-> paths], Returns(FindSymbol(k, paths)))
           Y == Symbols(moduleText.lines)
           parts == [i \in DOMAIN paths |-> NamedIn(paths[i], k)]
           F == FindSymbol(k, paths)
           lines == moduleText.lines
<1>1. e.result.value = F /\ e.asked.name = k /\ e.module = moduleText
  BY DEF Called, Returns
<1>2. Len(paths) \in Nat /\ DOMAIN paths = 1..Len(paths) /\ \E i \in 1..Len(paths) : paths[i] = "module"
  <2>1. CASE paths = <<"module">>
    BY <2>1
  <2>2. CASE paths = <<"missing", "module">>
    <3>1. 2 \in 1..Len(paths) /\ paths[2] = "module"
      BY <2>2
    <3> QED
      BY <2>2, <3>1
  <2> QED
    BY <2>1, <2>2
<1>3. \A i \in 1..Len(paths) : parts[i] = NamedIn(paths[i], k)
  BY <1>2
<1>4. parts \in Seq(Seq(Y)) /\ Len(parts) = Len(paths)
  <2>1. \A i \in 1..Len(paths) : NamedIn(paths[i], k) \in Seq(Y)
    BY NamedAre
  <2>2. parts = [i \in 1..Len(paths) |-> parts[i]]
    BY <1>2
  <2> HIDE DEF parts, Y
  <2> QED
    BY <1>2, <1>3, <2>1, <2>2
<1>5. F = FlattenSeq(parts)
  BY DEF FindSymbol
<1> HIDE DEF F, parts, e, Y
<1>6. F \in Seq(Y)
  BY <1>4, <1>5, FlattenHas
<1>7. \A s \in Range(F) : s.line \in 1..Len(lines)
  <2> SUFFICES ASSUME NEW i \in DOMAIN F
               PROVE  F[i].line \in 1..Len(lines)
    BY DEF Range
  <2>1. F[i] \in Symbols(lines)
    BY <1>6 DEF Y
  <2> QED
    BY <2>1, SymbolHasLine
<1>8. ASSUME NEW l \in DOMAIN lines, lines[l].name = k, lines[l].sort \in {"def", "async", "class"},
             lines[l].sort # "async", moduleText.state = "valid"
      PROVE  \E s \in Range(F) : s.line = l
  <2>1. PICK i \in 1..Len(paths) : paths[i] = "module"
    BY <1>2
  <2>2. l \in 1..Len(lines)
    BY DEF ModuleTyped
  <2>3. PICK c \in 1..Len(NamedIn("module", k)) : NamedIn("module", k)[c].line = l
    BY <1>8, <2>2, NamedAre, SMTT(30)
  <2>4. parts[i] = NamedIn("module", k)
    BY <1>3, <2>1
  <2>5. i \in 1..Len(parts) /\ c \in 1..Len(parts[i]) /\ parts[i][c].line = l
    BY <1>4, <2>3, <2>4
  <2>6. PICK a \in 1..Len(FlattenSeq(parts)) : FlattenSeq(parts)[a] = parts[i][c]
    BY <1>4, <2>5, FlattenHas
  <2>7. a \in DOMAIN F /\ F[a].line = l
    BY <1>5, <1>6, <2>5, <2>6
  <2> QED
    BY <2>7 DEF Range
<1> QED
  BY <1>1, <1>7, <1>8 DEF TellsSymbols, e

MatchesOf == [path : {"module", "notes"}, number : Nat, line : Nat]

\* A text of a file is a sequence.
LEMMA TextIsSeq ==
    ASSUME ModuleTyped, NEW p
    PROVE  \E S : TextAt(p) \in Seq(S)
<1>1. moduleText.lines \in Seq(Range(moduleText.lines))
  BY DEF ModuleTyped
<1>2. NotesText \in Seq(Range(NotesText))
  <2> DEFINE n == [sort |-> "text", name |-> CHOOSE k \in SoughtNames : TRUE, owner |-> 0]
  <2>1. NotesText = <<n>>
    BY DEF NotesText
  <2> HIDE DEF n
  <2>2. <<n>> \in Seq({n}) /\ DOMAIN <<n>> = {1} /\ <<n>>[1] = n
    OBVIOUS
  <2>3. Range(<<n>>) = {n}
    BY <2>2 DEF Range
  <2> QED
    BY <2>1, <2>2, <2>3
<1> QED
  BY <1>1, <1>2 DEF TextAt

\* What grep finds in a file: the pieces' own numbers and lines, and each line of the module
\* that is of the name.
LEMMA MatchesAre ==
    ASSUME ModuleTyped, NEW p \in {"module", "notes"}, NEW name
    PROVE  /\ Matches(p, name) \in Seq(MatchesOf)
           /\ \A k \in 1..Len(Matches(p, name)) : LET m == Matches(p, name)[k] IN
                  m.path = "module" =>
                      m.number \in 1..Len(PiecesOf(moduleText.lines)) /\ m.line = PiecesOf(moduleText.lines)[m.number]
           /\ p = "module" =>
                  \A l \in 1..Len(moduleText.lines) :
                      moduleText.lines[l].sort # "feed" /\ moduleText.lines[l].name = name =>
                          \E k \in 1..Len(Matches(p, name)) : LET m == Matches(p, name)[k] IN
                              m.path = "module" /\ m.line = l
<1> DEFINE P == PiecesOf(TextAt(p))
           s == NumberedLines(p)
           T == { m \in Range(NumberedLines(p)) : TextAt(p)[m.line].sort # "feed" /\ TextAt(p)[m.line].name = name }
           M == Matches(p, name)
<1>1. PICK S : TextAt(p) \in Seq(S)
  BY TextIsSeq
<1>2. P \in Seq(1..Len(TextAt(p))) /\ Len(P) \in Nat /\ DOMAIN P = 1..Len(P)
  <2>1. P \in Seq(1..Len(TextAt(p)))
    BY <1>1, PiecesAre
  <2> HIDE DEF P
  <2> QED
    BY <2>1
<1>3. Len(TextAt(p)) \in Nat
  BY <1>1
<1>4. s = [i \in 1..Len(P) |-> [path |-> p, number |-> i, line |-> P[i]]]
  BY <1>2 DEF NumberedLines
<1>5. M = Among(s, T)
  BY DEF Matches
<1>6. p = "module" => P = PiecesOf(moduleText.lines) /\ TextAt(p) = moduleText.lines
  BY DEF TextAt
<1>7. \A l \in 1..Len(TextAt(p)) : \E i \in 1..Len(P) : P[i] = l
  BY <1>1, PiecesAre
<1> HIDE DEF P, s, M
<1>8. \A i \in 1..Len(P) : s[i] \in MatchesOf /\ s[i].path = p /\ s[i].number = i /\ s[i].line = P[i]
  <2> SUFFICES ASSUME NEW i \in 1..Len(P)
               PROVE  s[i] \in MatchesOf /\ s[i].path = p /\ s[i].number = i /\ s[i].line = P[i]
    OBVIOUS
  <2>1. P[i] \in Nat /\ i \in Nat
    BY <1>2, <1>3
  <2>2. s[i] = [path |-> p, number |-> i, line |-> P[i]]
    BY <1>4
  <2> QED
    BY <2>1, <2>2 DEF MatchesOf
<1>9. s \in Seq(MatchesOf) /\ Len(s) = Len(P)
  <2>1. s = [i \in 1..Len(P) |-> s[i]]
    BY <1>4
  <2> QED
    BY <1>2, <1>8, <2>1
<1>10. /\ M \in Seq(MatchesOf)
       /\ \A k \in 1..Len(M) : \E i \in 1..Len(s) : M[k] = s[i]
       /\ \A i \in 1..Len(s) : s[i] \in T => \E k \in 1..Len(M) : M[k] = s[i]
  <2> HIDE DEF T
  <2>1. s \in Seq(MatchesOf)
    BY <1>9
  <2>2. Among(s, T) \in Seq(MatchesOf)
    BY <2>1, AmongIs
  <2>3. \A k \in 1..Len(Among(s, T)) : \E i \in 1..Len(s) : Among(s, T)[k] = s[i]
    BY <2>1, AmongIs
  <2>4. \A i \in 1..Len(s) : s[i] \in T => \E k \in 1..Len(Among(s, T)) : Among(s, T)[k] = s[i]
    BY <2>1, AmongIs
  <2> QED
    BY <1>5, <2>2, <2>3, <2>4
<1>11. ASSUME NEW k \in 1..Len(M), M[k].path = "module"
       PROVE  M[k].number \in 1..Len(PiecesOf(moduleText.lines)) /\ M[k].line = PiecesOf(moduleText.lines)[M[k].number]
  <2>1. PICK i \in 1..Len(P) : M[k] = s[i]
    BY <1>9, <1>10
  <2>2. p = "module"
    BY <1>8, <1>11, <2>1
  <2> QED
    BY <1>6, <1>8, <2>1, <2>2
<1>12. ASSUME p = "module", NEW l \in 1..Len(moduleText.lines), moduleText.lines[l].sort # "feed",
              moduleText.lines[l].name = name
       PROVE  \E k \in 1..Len(M) : M[k].path = "module" /\ M[k].line = l
  <2>1. PICK i \in 1..Len(P) : P[i] = l
    BY <1>6, <1>7, <1>12
  <2>2. i \in 1..Len(s) /\ s[i].line = l /\ s[i].path = "module"
    BY <1>8, <1>9, <1>12, <2>1
  <2>3. s[i] \in Range(s)
    <3>1. i \in DOMAIN s
      BY <1>9, <2>2
    <3> QED
      BY <3>1 DEF Range
  <2>4. s[i] \in T
    BY <1>6, <1>12, <2>2, <2>3 DEF s
  <2> HIDE DEF T
  <2> QED
    BY <1>10, <2>2, <2>4
<1> QED
  BY <1>10, <1>11, <1>12 DEF M

\* grep: each match is read at its number, and one that is not told is past the limit.
LEMMA MatchesAreTold ==
    ASSUME ModuleTyped, NEW k, NEW paths \in {<<"module">>, <<"module", ".">>, <<"missing", "outside">>},
           NEW max \in 1..2
    PROVE  TellsMatches(Called("grep", [name |-> k, paths |-> paths, max |-> max], Grep(k, paths, max)))
<1> DEFINE e == Called("grep", [name |-> k, paths |-> paths, max |-> max], Grep(k, paths, max))
           parts == [i \in DOMAIN paths |->
                        IF paths[i] = "." THEN Matches("module", k) \o Matches("notes", k)
                        ELSE IF IsFile(paths[i]) THEN Matches(paths[i], k) ELSE <<>>]
           lines == moduleText.lines
           P == PiecesOf(lines)
           Right(m) == m.path = "module" => m.number \in 1..Len(P) /\ m.line = P[m.number]
           Y == { m \in MatchesOf : Right(m) }
           found == FlattenSeq(parts)
           told == FirstMatches(found, max)
<1>1. e.result = Grep(k, paths, max) /\ e.asked.name = k /\ e.asked.max = max /\ e.module = moduleText
  BY DEF Called
<1>2. ASSUME NEW p \in {"module", "notes"}
      PROVE  Matches(p, k) \in Seq(Y)
  <2> DEFINE M == Matches(p, k)
  <2>1. M \in Seq(MatchesOf) /\ \A c \in 1..Len(M) : Right(M[c])
    BY MatchesAre
  <2> HIDE DEF M, Right
  <2>2. \A c \in 1..Len(M) : M[c] \in Y
    BY <2>1
  <2>3. M = [c \in 1..Len(M) |-> M[c]] /\ Len(M) \in Nat
    BY <2>1
  <2> HIDE DEF Y
  <2>4. M \in Seq(Y)
    BY <2>2, <2>3
  <2> QED
    BY <2>4 DEF M
<1> DEFINE Filled == \A l \in DOMAIN lines : lines[l].sort # "feed" /\ lines[l].name = k =>
                       \E m \in Range(told) : m.path = "module" /\ m.line = l
<1>3. ASSUME paths[1] = "module", paths \in {<<"module">>, <<"module", ".">>}
      PROVE  /\ e.result = Returns(told)
             /\ \A m \in Range(told) : Right(m)
             /\ Len(told) = max \/ Filled
  <2>1. Len(paths) \in Nat /\ DOMAIN paths = 1..Len(paths) /\ 1 \in 1..Len(paths)
        /\ \A i \in 1..Len(paths) : paths[i] \in {"module", "."}
    <3>1. CASE paths = <<"module">>
      BY <3>1
    <3>2. CASE paths = <<"module", ".">>
      BY <3>2
    <3> QED
      BY <1>3, <3>1, <3>2
  <2>2. "outside" \notin Range(paths)
    BY <2>1 DEF Range
  <2>3. e.result = Returns(told)
    BY <1>1, <2>2 DEF Grep
  <2>4. Matches("module", k) \in Seq(Y) /\ Matches("notes", k) \in Seq(Y)
    <3> HIDE DEF Y
    <3> QED
      BY <1>2
  <2>5. Matches("module", k) \o Matches("notes", k) \in Seq(Y)
    <3> HIDE DEF Y
    <3> QED
      BY <2>4, ConcatProperties
  <2>6. \A i \in 1..Len(paths) : parts[i] \in Seq(Y)
    <3> SUFFICES ASSUME NEW i \in 1..Len(paths)
                 PROVE  parts[i] \in Seq(Y)
      OBVIOUS
    <3>1. CASE paths[i] = "."
      <4>1. parts[i] = Matches("module", k) \o Matches("notes", k)
        BY <2>1, <3>1
      <4> HIDE DEF Y, parts
      <4> QED
        BY <2>5, <4>1
    <3>2. CASE paths[i] = "module"
      <4>1. parts[i] = Matches("module", k)
        BY <2>1, <3>2 DEF IsFile, RepoFiles
      <4> HIDE DEF Y, parts
      <4> QED
        BY <2>4, <4>1
    <3> HIDE DEF parts, Y
    <3> QED
      BY <2>1, <3>1, <3>2
  <2>7. parts \in Seq(Seq(Y)) /\ Len(parts) = Len(paths)
    <3>1. parts = [i \in 1..Len(paths) |-> parts[i]]
      BY <2>1
    <3> HIDE DEF parts, Y
    <3> QED
      BY <2>1, <2>6, <3>1
  <2>8. parts[1] = Matches("module", k)
    BY <1>3, <2>1 DEF IsFile, RepoFiles
  <2> HIDE DEF parts
  <2>9. found \in Seq(Y) /\ \A i \in 1..Len(parts) : \A c \in 1..Len(parts[i]) : \E a \in 1..Len(found) : found[a] = parts[i][c]
    <3> HIDE DEF Y
    <3> QED
      BY <2>7, FlattenHas
  <2> HIDE DEF found, Y
  <2>10. Len(found) \in Nat /\ \A a \in 1..Len(found) : found[a] \in Y
    BY <2>9
  <2> DEFINE n == Min({max, Len(found)})
  <2>11. n = (IF max <= Len(found) THEN max ELSE Len(found)) /\ n \in Nat /\ n <= Len(found)
    <3>1. n = IF max <= Len(found) THEN max ELSE Len(found)
      BY <2>10, LesserOf
    <3> HIDE DEF n
    <3> QED
      BY <2>10, <3>1
  <2>12. told = SubSeq(found, 1, n)
    BY DEF FirstMatches
  <2> HIDE DEF n, told
  <2>13. told \in Seq(Y) /\ Len(told) = n
    <3>1. \A i \in 1..n : found[i] \in Y
      BY <2>10, <2>11
    <3>2. told \in Seq(Y) /\ Len(told) = IF 1 <= n THEN n - 1 + 1 ELSE 0
      <4>1. n \in Int /\ 1 \in Int
        BY <2>11
      <4> QED
        BY <2>12, <3>1, <4>1, SubSeqProperties
    <3> QED
      BY <2>11, <3>2
  <2>14. \A m \in Range(told) : Right(m)
    <3> SUFFICES ASSUME NEW i \in DOMAIN told
                 PROVE  Right(told[i])
      BY DEF Range
    <3>1. told[i] \in Y
      BY <2>13
    <3> HIDE DEF Right
    <3> QED
      BY <3>1 DEF Y
  <2>15. ASSUME Len(told) # max
         PROVE  Filled
    <3>1. n = Len(found)
      BY <2>11, <2>13, <2>15
    <3>2. told = found
      BY <2>9, <2>12, <3>1, SubSeqFull
    <3> SUFFICES ASSUME NEW l \in DOMAIN lines, lines[l].sort # "feed", lines[l].name = k
                 PROVE  \E m \in Range(told) : m.path = "module" /\ m.line = l
      OBVIOUS
    <3>3. l \in 1..Len(lines)
      BY DEF ModuleTyped
    <3>4. PICK c \in 1..Len(Matches("module", k)) :
              Matches("module", k)[c].path = "module" /\ Matches("module", k)[c].line = l
      BY <3>3, MatchesAre
    <3>5. 1 \in 1..Len(parts) /\ c \in 1..Len(parts[1]) /\ parts[1][c].path = "module" /\ parts[1][c].line = l
      BY <2>1, <2>7, <2>8, <3>4
    <3>6. PICK a \in 1..Len(found) : found[a] = parts[1][c]
      BY <2>9, <3>5
    <3>7. a \in DOMAIN told /\ told[a].path = "module" /\ told[a].line = l
      BY <2>9, <3>2, <3>5, <3>6
    <3> QED
      BY <3>7 DEF Range
  <2> HIDE DEF Filled, Right
  <2> QED
    BY <2>3, <2>14, <2>15
<1>4. CASE paths = <<"missing", "outside">>
  <2>1. "outside" \in Range(paths)
    <3>1. 2 \in DOMAIN paths /\ paths[2] = "outside"
      BY <1>4
    <3> QED
      BY <3>1 DEF Range
  <2>2. e.result = Raises
    BY <1>1, <2>1 DEF Grep
  <2>3. ~e.result.ok
    BY <2>2 DEF Raises
  <2> HIDE DEF e
  <2> QED
    BY <2>3 DEF TellsMatches, e
<1>5. CASE paths \in {<<"module">>, <<"module", ".">>}
  <2>1. paths[1] = "module"
    BY <1>5
  <2>2. e.result.value = told /\ (\A m \in Range(told) : Right(m)) /\ (Len(told) = max \/ Filled)
    <3> HIDE DEF e, told, Right, Filled
    <3> QED
      BY <1>3, <1>5, <2>1 DEF Returns
  <2> HIDE DEF e, told
  <2> QED
    BY <1>1, <2>2 DEF TellsMatches, e
<1> QED
  BY <1>4, <1>5

IsText(lines) == lines \in Seq(Range(lines))

IsSequence(s) == \E S : s \in Seq(S)

ToolInv ==
    /\ ModuleTyped
    /\ IsSequence(executed) /\ toolLog \in Seq(BOOLEAN)
    /\ \A i \in DOMAIN executed : IsText(executed[i].module.lines) /\ Tells(executed[i])
    /\ FailuresAreTold

Entered(tool, asked, result) ==
    [tool |-> tool, asked |-> asked, module |-> moduleText,
     refused |-> NotInvoked(tool), result |-> IF NotInvoked(tool) THEN Raises ELSE result]

\* Of a tool that tells nothing else there is nothing to be told wrongly.
Plain == {"file_exists", "find_symbols_by_kind", "get_function_signature", "get_imports", "write_file"}

\* A call that is refused tells nothing; one that is not tells its result.
LEMMA ToldOrRefused ==
    ASSUME NEW tool, NEW asked, NEW result, Tells(Called(tool, asked, result))
    PROVE  Tells(Entered(tool, asked, result))
<1>1. CASE NotInvoked(tool)
  <2> DEFINE e == Entered(tool, asked, result)
  <2>1. ~e.result.ok
    BY <1>1 DEF Entered, Raises
  <2> HIDE DEF e
  <2> QED
    BY <2>1 DEF e, Tells, TellsPieces, TellsMatches, TellsSymbols, TellsAll, TellsCount, TellsFiles
<1>2. CASE ~NotInvoked(tool)
  <2>1. Entered(tool, asked, result) = Called(tool, asked, result)
    <3>1. NotInvoked(tool) = FALSE
      BY <1>2, Zenon DEF NotInvoked
    <3>2. (IF NotInvoked(tool) THEN Raises ELSE result) = result
      BY <1>2
    <3> QED
      BY <3>1, <3>2, Zenon DEF Entered, Called
  <2> QED
    BY <2>1
<1> QED
  BY <1>1, <1>2

\* A failure is in the log and told, or neither.
LEMMA CallKeeps ==
    ASSUME ToolInv, NEW tool, NEW asked, NEW result, Invoke(tool, asked, result),
           Tells(Called(tool, asked, result)), result.ok \in BOOLEAN
    PROVE  ToolInv'
<1> DEFINE e == Entered(tool, asked, result)
           F == { i \in DOMAIN executed : ~executed[i].refused /\ ~executed[i].result.ok }
           G == { i \in DOMAIN toolLog : ~toolLog[i] }
           n == Len(executed)
           k == Len(toolLog)
<1>1. executed' = Append(executed, e) /\ moduleText' = moduleText /\ raised' = raised /\ ~raised
  BY DEF Invoke, Entered
<1>2. PICK S : executed \in Seq(S)
  BY DEF ToolInv, IsSequence
<1>3. /\ toolLog \in Seq(BOOLEAN) /\ ModuleTyped
      /\ \A i \in DOMAIN executed : IsText(executed[i].module.lines) /\ Tells(executed[i])
  BY DEF ToolInv
<1>4. n \in Nat /\ k \in Nat /\ DOMAIN executed = 1..n /\ DOMAIN toolLog = 1..k
  BY <1>2, <1>3
<1>5. Tells(e)
  BY ToldOrRefused
<1>e. IsText(e.module.lines)
  <2>1. e.module = moduleText
    BY DEF Entered
  <2> HIDE DEF e
  <2> QED
    BY <1>3, <2>1 DEF ModuleTyped, IsText
<1>6. e.refused = NotInvoked(tool) /\ e.result = IF NotInvoked(tool) THEN Raises ELSE result
  BY DEF Entered
<1> HIDE DEF e
<1>7. /\ executed' \in Seq(S \cup {e}) /\ DOMAIN executed' = 1..(n + 1) /\ executed'[n + 1] = e
      /\ \A i \in 1..n : executed'[i] = executed[i]
  <2>1. executed \in Seq(S \cup {e})
    BY <1>2
  <2> QED
    BY <1>1, <1>4, <2>1
<1>8. \A i \in DOMAIN executed' : IsText(executed'[i].module.lines) /\ Tells(executed'[i])
  <2> SUFFICES ASSUME NEW i \in DOMAIN executed'
               PROVE  IsText(executed'[i].module.lines) /\ Tells(executed'[i])
    OBVIOUS
  <2>1. CASE i = n + 1
    BY <1>5, <1>e, <1>7, <2>1
  <2>2. CASE i \in 1..n
    BY <1>3, <1>4, <1>7, <2>2
  <2> QED
    BY <1>4, <1>7, <2>1, <2>2
<1>9. toolLog' \in Seq(BOOLEAN)
  <2>1. CASE NotInvoked(tool)
    BY <1>3, <2>1 DEF Invoke
  <2>2. CASE ~NotInvoked(tool)
    <3>1. toolLog' = Append(toolLog, result.ok)
      BY <2>2 DEF Invoke, Recorded
    <3> QED
      BY <1>3, <3>1
  <2> QED
    BY <2>1, <2>2
<1>10. IsFiniteSet(F) /\ IsFiniteSet(G) /\ F \subseteq 1..n /\ G \subseteq 1..k /\ Cardinality(F) = Cardinality(G)
  <2>1. IsFiniteSet(1..n) /\ IsFiniteSet(1..k)
    BY <1>4, FS_Interval
  <2>2. F \subseteq 1..n /\ G \subseteq 1..k
    BY <1>4
  <2>3. Cardinality(F) = Cardinality(G)
    BY <1>1 DEF ToolInv, FailuresAreTold
  <2> HIDE DEF F, G
  <2> QED
    BY <2>1, <2>2, <2>3, FS_Subset
<1> DEFINE F1 == { i \in DOMAIN executed' : ~executed'[i].refused /\ ~executed'[i].result.ok }
           G1 == { i \in DOMAIN toolLog' : ~toolLog'[i] }
<1>11. F1 = F \cup (IF ~e.refused /\ ~e.result.ok THEN {n + 1} ELSE {})
  <2>1. \A i : i \in 1..(n + 1) <=> i \in 1..n \/ i = n + 1
    BY <1>4
  <2>2. \A i \in 1..n : executed'[i] = executed[i]
    BY <1>7
  <2>3. \A i : i \in F <=> i \in 1..n /\ ~executed[i].refused /\ ~executed[i].result.ok
    BY <1>4
  <2>4. \A i : i \in F1 <=> i \in 1..(n + 1) /\ ~executed'[i].refused /\ ~executed'[i].result.ok
    BY <1>7
  <2> HIDE DEF F, F1, n
  <2>5. \A i : i \in F1 <=> i \in F \/ (i = n + 1 /\ ~e.refused /\ ~e.result.ok)
    BY <1>7, <2>1, <2>2, <2>3, <2>4
  <2> QED
    BY <2>5
<1>12. Cardinality(F1) = Cardinality(G1)
  <2>1. CASE NotInvoked(tool)
    <3>1. toolLog' = toolLog
      BY <2>1 DEF Invoke
    <3>2. e.refused
      BY <1>6, <2>1
    <3>3. F1 = F /\ G1 = G
      <4>1. G1 = G
        BY <3>1
      <4> HIDE DEF F, F1, G, G1
      <4> QED
        BY <1>11, <3>2, <4>1
    <3> QED
      BY <1>10, <3>3
  <2>2. CASE ~NotInvoked(tool)
    <3>1. toolLog' = Append(toolLog, result.ok)
      BY <2>2 DEF Invoke, Recorded
    <3>2. ~e.refused /\ e.result = result
      BY <1>6, <2>2
    <3>3. DOMAIN toolLog' = 1..(k + 1) /\ toolLog'[k + 1] = result.ok /\ \A i \in 1..k : toolLog'[i] = toolLog[i]
      BY <1>3, <1>4, <3>1
    <3>4. CASE result.ok
      <4>1. F1 = F
        <5> HIDE DEF F, F1
        <5> QED
          BY <1>11, <3>2, <3>4
      <4>2. G1 = G
        <5>1. \A i : i \in 1..(k + 1) <=> i \in 1..k \/ i = k + 1
          BY <1>4
        <5>2. \A i : i \in G <=> i \in 1..k /\ ~toolLog[i]
          BY <1>4
        <5>3. \A i : i \in G1 <=> i \in 1..(k + 1) /\ ~toolLog'[i]
          BY <3>3
        <5> HIDE DEF G, G1, k
        <5> QED
          BY <3>3, <3>4, <5>1, <5>2, <5>3
      <4> QED
        BY <1>10, <4>1, <4>2
    <3>5. CASE ~result.ok
      <4>1. F1 = F \cup {n + 1}
        <5> HIDE DEF F, F1
        <5> QED
          BY <1>11, <3>2, <3>5
      <4>2. G1 = G \cup {k + 1}
        <5>1. \A i : i \in 1..(k + 1) <=> i \in 1..k \/ i = k + 1
          BY <1>4
        <5>2. \A i : i \in G <=> i \in 1..k /\ ~toolLog[i]
          BY <1>4
        <5>3. \A i : i \in G1 <=> i \in 1..(k + 1) /\ ~toolLog'[i]
          BY <3>3
        <5> HIDE DEF G, G1, k
        <5> QED
          BY <3>3, <3>5, <5>1, <5>2, <5>3
      <4>3. n + 1 \notin F /\ k + 1 \notin G
        BY <1>4, <1>10
      <4> HIDE DEF F, F1, G, G1
      <4>4. Cardinality(F1) = Cardinality(F) + 1
        BY <1>10, <4>1, <4>3, FS_AddElement
      <4>5. Cardinality(G1) = Cardinality(G) + 1
        BY <1>10, <4>2, <4>3, FS_AddElement
      <4> QED
        BY <1>10, <4>4, <4>5
    <3> QED
      BY <3>4, <3>5
  <2> QED
    BY <2>1, <2>2
<1>13. ModuleTyped'
  BY <1>1, <1>3 DEF ModuleTyped
<1>14. IsSequence(executed)'
  BY <1>7 DEF IsSequence
<1>15. FailuresAreTold'
  BY <1>12, SMTT(30) DEF FailuresAreTold
<1>16. (\A i \in DOMAIN executed : IsText(executed[i].module.lines) /\ Tells(executed[i]))'
  BY <1>8 DEF IsText, Tells, TellsPieces, TellsMatches, TellsSymbols, TellsAll, TellsCount, TellsFiles
<1> QED
  BY <1>9, <1>13, <1>14, <1>15, <1>16 DEF ToolInv

\* A tool that tells nothing of the module tells nothing wrong of it.
LEMMA PlainTells ==
    ASSUME NEW tool \in Plain, NEW asked, NEW result
    PROVE  Tells(Called(tool, asked, result))
<1> DEFINE e == Called(tool, asked, result)
<1>1. e.tool = tool
  BY DEF Called
<1>2. e.tool \notin {"read_file", "grep", "find_symbol", "extract_symbols", "get_file_info", "parse_ast", "list_files"}
  BY <1>1 DEF Plain
<1> HIDE DEF e
<1> QED
  BY <1>2 DEF e, Tells, TellsPieces, TellsMatches, TellsSymbols, TellsAll, TellsCount, TellsFiles

\* What one of the tools tells is all that its call is to tell.
LEMMA OneTells ==
    ASSUME NEW e,
           \/ e.tool = "read_file" /\ TellsPieces(e)
           \/ e.tool = "grep" /\ TellsMatches(e)
           \/ e.tool = "find_symbol" /\ TellsSymbols(e)
           \/ e.tool = "extract_symbols" /\ TellsAll(e)
           \/ e.tool \in {"get_file_info", "parse_ast"} /\ TellsCount(e)
           \/ e.tool = "list_files" /\ TellsFiles(e)
    PROVE  Tells(e)
<1>1. e.tool # "read_file" => TellsPieces(e)
  BY DEF TellsPieces
<1>2. e.tool # "grep" => TellsMatches(e)
  BY DEF TellsMatches
<1>3. e.tool # "find_symbol" => TellsSymbols(e)
  BY DEF TellsSymbols
<1>4. e.tool # "extract_symbols" => TellsAll(e)
  BY DEF TellsAll
<1>5. e.tool \notin {"get_file_info", "parse_ast"} => TellsCount(e)
  BY DEF TellsCount
<1>6. e.tool # "list_files" => TellsFiles(e)
  BY DEF TellsFiles
<1> QED
  BY <1>1, <1>2, <1>3, <1>4, <1>5, <1>6 DEF Tells

\* Before the first call nothing was told.
LEMMA ToolStart == ToolInit => ToolInv
<1> SUFFICES ASSUME ToolInit
             PROVE  ToolInv
  OBVIOUS
<1>1. executed = <<>> /\ toolLog = <<>> /\ moduleText \in ModuleTexts
  BY DEF ToolInit
<1>2. ModuleTyped
  <2>1. moduleText \in [lines : Texts, ended : BOOLEAN, state : {"valid", "syntax", "bytes"}]
    BY <1>1 DEF ModuleTexts
  <2>2. moduleText.lines \in Texts
    BY <2>1
  <2> QED
    BY <2>1, <2>2, ToolsAssumption DEF ModuleTyped
<1>3. executed \in Seq({}) /\ toolLog \in Seq(BOOLEAN) /\ DOMAIN executed = {}
  BY <1>1
<1>4. FailuresAreTold
  <2>1. { i \in DOMAIN executed : ~executed[i].refused /\ ~executed[i].result.ok } = {}
    BY <1>3
  <2>2. { i \in DOMAIN toolLog : ~toolLog[i] } = {}
    BY <1>1
  <2> QED
    BY <2>1, <2>2 DEF FailuresAreTold
<1> QED
  BY <1>2, <1>3, <1>4 DEF ToolInv, IsSequence

\* A call of a file tool is told rightly, and its failure is in the log.
LEMMA FileToolKeeps == ToolInv /\ CallFileTool => ToolInv'
<1> SUFFICES ASSUME ToolInv, CallFileTool
             PROVE  ToolInv'
  OBVIOUS
<1>0. ModuleTyped
  BY DEF ToolInv
<1>1. ASSUME NEW max \in 0..2, NEW files \in ListFiles(max), Invoke("list_files", max, Returns(files))
      PROVE  ToolInv'
  <2>1. Called("list_files", max, Returns(files)).tool = "list_files" /\ Returns(files).ok \in BOOLEAN
    BY DEF Called, Returns
  <2>2. Tells(Called("list_files", max, Returns(files)))
    BY <2>1, FilesAreTold, OneTells
  <2> QED
    BY <1>1, <2>1, <2>2, CallKeeps
<1>2. ASSUME NEW p \in {"module", "missing"}, NEW from \in 0..3, NEW upto \in {0, from},
             Invoke("read_file", <<p, from, upto>>, ReadText(p, from, upto))
      PROVE  ToolInv'
  <2>1. Called("read_file", <<p, from, upto>>, ReadText(p, from, upto)).tool = "read_file"
    BY DEF Called
  <2>2. ReadText(p, from, upto).ok \in BOOLEAN
    BY DEF ReadText, Raises, Returns
  <2>3. Tells(Called("read_file", <<p, from, upto>>, ReadText(p, from, upto)))
    <3>1. from \in Nat
      OBVIOUS
    <3>2. TellsPieces(Called("read_file", <<p, from, upto>>, ReadText(p, from, upto)))
      BY <1>0, <3>1, PiecesAreTold
    <3> QED
      BY <2>1, <3>2, OneTells
  <2> QED
    BY <1>2, <2>2, <2>3, CallKeeps
<1>3. ASSUME NEW k \in SoughtNames, NEW paths \in {<<"module">>, <<"module", ".">>, <<"missing", "outside">>},
             NEW max \in 1..2, Invoke("grep", [name |-> k, paths |-> paths, max |-> max], Grep(k, paths, max))
      PROVE  ToolInv'
  <2> DEFINE asked == [name |-> k, paths |-> paths, max |-> max]
  <2>1. Called("grep", asked, Grep(k, paths, max)).tool = "grep"
    BY DEF Called
  <2>2. Grep(k, paths, max).ok \in BOOLEAN
    BY DEF Grep, Raises, Returns
  <2>3. Tells(Called("grep", asked, Grep(k, paths, max)))
    <3>1. TellsMatches(Called("grep", asked, Grep(k, paths, max)))
      BY <1>0, MatchesAreTold
    <3> HIDE DEF asked
    <3> QED
      BY <2>1, <3>1, OneTells
  <2> QED
    BY <1>3, <2>2, <2>3, CallKeeps
<1>4. ASSUME NEW p \in ToolPaths, Invoke("file_exists", p, FileExists(p))
      PROVE  ToolInv'
  <2>1. FileExists(p).ok \in BOOLEAN /\ "file_exists" \in Plain
    BY DEF FileExists, Returns, Plain
  <2> QED
    BY <1>4, <2>1, PlainTells, CallKeeps
<1>5. ASSUME NEW p \in {"module", "missing"}, Invoke("get_file_info", p, FileInfo(p))
      PROVE  ToolInv'
  <2>1. Called("get_file_info", p, FileInfo(p)).tool = "get_file_info"
    BY DEF Called
  <2>2. FileInfo(p).ok \in BOOLEAN
    BY DEF FileInfo, Raises, Returns
  <2>3. Tells(Called("get_file_info", p, FileInfo(p)))
    <3>1. TellsCount(Called("get_file_info", p, FileInfo(p)))
      BY <1>0, CountsAreTold
    <3> QED
      BY <2>1, <3>1, OneTells
  <2> QED
    BY <1>5, <2>2, <2>3, CallKeeps
<1> QED
  BY <1>1, <1>2, <1>3, <1>4, <1>5 DEF CallFileTool

\* So is a call of a symbol tool.
LEMMA SymbolToolKeeps == ToolInv /\ CallSymbolTool => ToolInv'
<1> SUFFICES ASSUME ToolInv, CallSymbolTool
             PROVE  ToolInv'
  OBVIOUS
<1>0. ModuleTyped
  BY DEF ToolInv
<1>1. ASSUME NEW p \in ToolPaths, Invoke("extract_symbols", p, ExtractSymbols(p))
      PROVE  ToolInv'
  <2>1. Called("extract_symbols", p, ExtractSymbols(p)).tool = "extract_symbols"
    BY DEF Called
  <2>2. ExtractSymbols(p).ok \in BOOLEAN
    BY DEF ExtractSymbols, Raises, Returns
  <2>3. Tells(Called("extract_symbols", p, ExtractSymbols(p)))
    <3>1. TellsAll(Called("extract_symbols", p, ExtractSymbols(p)))
      BY <1>0, AllAreTold
    <3> QED
      BY <2>1, <3>1, OneTells
  <2> QED
    BY <1>1, <2>2, <2>3, CallKeeps
<1>2. ASSUME NEW p \in {"module", "notes"}, Invoke("parse_ast", p, ParseAst(p))
      PROVE  ToolInv'
  <2>1. Called("parse_ast", p, ParseAst(p)).tool = "parse_ast"
    BY DEF Called
  <2>2. ParseAst(p).ok \in BOOLEAN
    BY DEF ParseAst, Raises, Returns
  <2>3. Tells(Called("parse_ast", p, ParseAst(p)))
    <3>1. TellsCount(Called("parse_ast", p, ParseAst(p)))
      BY <1>0, CountsAreTold
    <3> QED
      BY <2>1, <3>1, OneTells
  <2> QED
    BY <1>2, <2>2, <2>3, CallKeeps
<1>3. ASSUME NEW k \in SoughtNames, NEW paths \in {<<"module">>, <<"missing", "module">>},
             Invoke("find_symbol", [name |-> k, paths |-> paths], Returns(FindSymbol(k, paths)))
      PROVE  ToolInv'
  <2> DEFINE asked == [name |-> k, paths |-> paths]
  <2>1. Called("find_symbol", asked, Returns(FindSymbol(k, paths))).tool = "find_symbol"
    BY DEF Called
  <2>2. Returns(FindSymbol(k, paths)).ok \in BOOLEAN
    BY DEF Returns
  <2>3. Tells(Called("find_symbol", asked, Returns(FindSymbol(k, paths))))
    <3>1. TellsSymbols(Called("find_symbol", asked, Returns(FindSymbol(k, paths))))
      BY <1>0, SymbolsAreTold
    <3> HIDE DEF asked
    <3> QED
      BY <2>1, <3>1, OneTells
  <2> QED
    BY <1>3, <2>2, <2>3, CallKeeps
<1>4. ASSUME NEW tool \in Plain, NEW asked, NEW result, result.ok \in BOOLEAN, Invoke(tool, asked, result)
      PROVE  ToolInv'
  BY <1>4, PlainTells, CallKeeps
<1>5. \A what : Returns(what).ok \in BOOLEAN /\ Raises.ok \in BOOLEAN
  BY DEF Returns, Raises
<1>6. /\ "find_symbols_by_kind" \in Plain /\ "get_function_signature" \in Plain /\ "get_imports" \in Plain
      /\ "write_file" \in Plain
  BY DEF Plain
<1>7. ASSUME NEW kind \in {"function", "method"},
             Invoke("find_symbols_by_kind", kind, Returns(FindByKind("module", kind)))
      PROVE  ToolInv'
  BY <1>4, <1>5, <1>6, <1>7
<1>8. ASSUME NEW k \in SoughtNames, Invoke("get_function_signature", k, Returns(FunctionSignature("module", k)))
      PROVE  ToolInv'
  BY <1>4, <1>5, <1>6, <1>8
<1>9. Invoke("get_imports", "module", Returns(GetImports("module"))) => ToolInv'
  BY <1>4, <1>5, <1>6
<1>10. Invoke("write_file", "module", Raises) => ToolInv'
  BY <1>4, <1>5, <1>6, SMTT(30)
<1> QED
  BY <1>1, <1>2, <1>3, <1>7, <1>8, <1>9, <1>10 DEF CallSymbolTool

\* What was told stays told.
LEMMA TellingStays ==
    ASSUME executed' = executed, \A i \in DOMAIN executed : IsText(executed[i].module.lines) /\ Tells(executed[i])
    PROVE  (\A i \in DOMAIN executed : IsText(executed[i].module.lines) /\ Tells(executed[i]))'
<1>1. \A i \in DOMAIN executed' : IsText(executed'[i].module.lines) /\ Tells(executed'[i])
  OBVIOUS
<1> QED
  BY <1>1 DEF IsText, Tells, TellsPieces, TellsMatches, TellsSymbols, TellsAll, TellsCount, TellsFiles

\* Calls, malformed ones, and edits of the module keep what was told.
LEMMA ToolStep == ToolInv /\ [ToolNext]_toolVars => ToolInv'
<1> SUFFICES ASSUME ToolInv, [ToolNext]_toolVars
             PROVE  ToolInv'
  OBVIOUS
<1>1. CASE UNCHANGED toolVars
  <2>1. /\ executed' = executed /\ toolLog' = toolLog /\ raised' = raised /\ moduleText' = moduleText
    BY <1>1 DEF toolVars
  <2>2. (\A i \in DOMAIN executed : IsText(executed[i].module.lines) /\ Tells(executed[i]))'
    BY <2>1, TellingStays DEF ToolInv
  <2> QED
    BY <2>1, <2>2 DEF ToolInv, ModuleTyped, IsSequence, FailuresAreTold
<1>2. CASE CallFileTool
  BY <1>2, FileToolKeeps
<1>3. CASE CallSymbolTool
  BY <1>3, SymbolToolKeeps
<1>4. CASE MalformedCall
  <2>1. raised' /\ executed' = <<>> /\ moduleText' = moduleText /\ toolLog' = toolLog
    BY <1>4 DEF MalformedCall
  <2>2. executed' \in Seq({}) /\ DOMAIN executed' = {}
    BY <2>1
  <2>3. IsSequence(executed)'
    BY <2>2 DEF IsSequence
  <2>4. (\A i \in DOMAIN executed : IsText(executed[i].module.lines) /\ Tells(executed[i]))'
    BY <2>2
  <2>5. FailuresAreTold'
    BY <2>1 DEF FailuresAreTold
  <2>6. ModuleTyped' /\ (toolLog \in Seq(BOOLEAN))'
    BY <2>1 DEF ToolInv, ModuleTyped
  <2> QED
    BY <2>3, <2>4, <2>5, <2>6 DEF ToolInv
<1>5. CASE EditModule
  <2>1. executed' = executed /\ toolLog' = toolLog /\ raised' = raised
    BY <1>5 DEF EditModule
  <2>2. PICK l \in Texts : moduleText' = [moduleText EXCEPT !.lines = l, !.ended = TRUE]
    BY <1>5 DEF EditModule
  <2>3. ModuleTyped'
    <3>1. moduleText' \in [lines : Texts, ended : BOOLEAN, state : {"valid", "syntax", "bytes"}]
      BY <2>2 DEF ToolInv, ModuleTyped
    <3>2. moduleText'.lines \in Texts
      BY <3>1
    <3> QED
      BY <3>1, <3>2, ToolsAssumption DEF ModuleTyped
  <2>4. IsSequence(executed)' /\ (toolLog \in Seq(BOOLEAN))'
    BY <2>1 DEF ToolInv, IsSequence
  <2>5. (\A i \in DOMAIN executed : IsText(executed[i].module.lines) /\ Tells(executed[i]))'
    BY <2>1, TellingStays DEF ToolInv
  <2>6. FailuresAreTold'
    BY <2>1 DEF ToolInv, FailuresAreTold
  <2> QED
    BY <2>3, <2>4, <2>5, <2>6 DEF ToolInv
<1> QED
  BY <1>1, <1>2, <1>3, <1>4, <1>5 DEF ToolNext

\* So it is of every iteration.
LEMMA ToolsAlways == ToolsSpec => []ToolInv
<1>1. ToolInit => ToolInv
  BY ToolStart
<1>2. ToolInv /\ [ToolNext]_toolVars => ToolInv'
  BY ToolStep
<1> QED
  BY <1>1, <1>2, PTL DEF ToolsSpec

\* Each call told what it was to tell.
LEMMA EntriesTell ==
    ASSUME ToolInv, NEW i \in DOMAIN executed
    PROVE  IsText(executed[i].module.lines) /\ Tells(executed[i])
BY DEF ToolInv

\* What the calls told is what the properties of the tools ask for, one by one or two
\* together.
LEMMA ToolsAreRight ==
    ToolInv =>
        /\ NamedLineIsRead /\ CountedLinesAreThere /\ AbsenceHasACause /\ TwiceIsAMethod
        /\ UntoldIsPastTheLimit /\ UnlistedIsPastTheLimit /\ FailuresAreTold
<1> SUFFICES ASSUME ToolInv
             PROVE  /\ NamedLineIsRead /\ CountedLinesAreThere /\ AbsenceHasACause /\ TwiceIsAMethod
                    /\ UntoldIsPastTheLimit /\ UnlistedIsPastTheLimit /\ FailuresAreTold
  OBVIOUS
<1>1. FailuresAreTold
  BY DEF ToolInv
<1>2. \A i \in DOMAIN executed :
          /\ TellsPieces(executed[i]) /\ TellsMatches(executed[i]) /\ TellsSymbols(executed[i])
          /\ TellsAll(executed[i]) /\ TellsCount(executed[i]) /\ TellsFiles(executed[i])
  BY EntriesTell DEF Tells
<1>3. UnlistedIsPastTheLimit
  BY <1>2 DEF UnlistedIsPastTheLimit, ToldBy, TellsFiles
<1>4. TwiceIsAMethod
  BY <1>2 DEF TwiceIsAMethod, ToldBy, TellsAll
<1>5. AbsenceHasACause
  BY <1>2 DEF AbsenceHasACause, ToldBy, TellsSymbols
<1>6. UntoldIsPastTheLimit
  BY <1>2 DEF UntoldIsPastTheLimit, ToldBy, TellsMatches
<1>7. ASSUME NEW i \in DOMAIN executed
      PROVE  \E S : executed[i].module.lines \in Seq(S)
  BY EntriesTell DEF IsText
<1>8. NamedLineIsRead
  <2> SUFFICES ASSUME NEW i \in DOMAIN executed, NEW j \in DOMAIN executed, ToldBy(j, "read_file"),
                      executed[i].module = executed[j].module,
                      executed[j].asked = <<"module", executed[j].asked[2], executed[j].asked[2]>>
               PROVE  LET at == executed[j].asked[2] IN
                      /\ ToldBy(i, "grep") => \A m \in Range(executed[i].result.value) :
                             m.path = "module" /\ m.number = at => executed[j].result.value = <<m.line>>
                      /\ ToldBy(i, "find_symbol") => \A s \in Range(executed[i].result.value) :
                             s.line = at => executed[j].result.value = <<at>> \/ Feeds(executed[i].module.lines, at)
    BY DEF NamedLineIsRead
  <2> DEFINE at == executed[j].asked[2]
             lines == executed[i].module.lines
             P == PiecesOf(lines)
  <2>1. at \in 1..Len(P) => executed[j].result.value = <<P[at]>>
    BY <1>2 DEF TellsPieces, ToldBy
  <2>2. ASSUME ToldBy(i, "grep"), NEW m \in Range(executed[i].result.value), m.path = "module", m.number = at
        PROVE  executed[j].result.value = <<m.line>>
    <3>1. m.number \in 1..Len(P) /\ m.line = P[m.number]
      BY <1>2, <2>2 DEF TellsMatches, ToldBy
    <3> HIDE DEF P, at
    <3> QED
      BY <2>1, <2>2, <3>1
  <2>3. ASSUME ToldBy(i, "find_symbol"), NEW s \in Range(executed[i].result.value), s.line = at,
               ~Feeds(lines, at)
        PROVE  executed[j].result.value = <<at>>
    <3>1. at \in 1..Len(lines)
      BY <1>2, <2>3 DEF TellsSymbols, ToldBy
    <3>2. at \in 1..Len(P) /\ P[at] = at
      <4>1. PICK S : lines \in Seq(S)
        BY <1>7
      <4> HIDE DEF lines, at
      <4> QED
        BY <2>3, <3>1, <4>1, PiecesAre DEF P
    <3> HIDE DEF P, at
    <3> QED
      BY <2>1, <3>2
  <2> QED
    BY <2>2, <2>3
<1>9. CountedLinesAreThere
  <2> SUFFICES ASSUME NEW i \in DOMAIN executed, NEW j \in DOMAIN executed, ToldBy(j, "read_file"),
                      executed[j].asked = <<"module", 0, 0>>, executed[j].module = executed[i].module
               PROVE  LET m == executed[j].module read == Len(executed[j].result.value) told == executed[i].result.value IN
                      /\ ToldBy(i, "get_file_info") => told <= read /\ (told = read \/ Feeds(m.lines, Len(m.lines)))
                      /\ ToldBy(i, "parse_ast") /\ executed[i].asked = "module" =>
                             told.count = read \/ ~m.ended \/ m.state = "syntax"
    BY DEF CountedLinesAreThere
  <2> DEFINE lines == executed[i].module.lines
             P == PiecesOf(lines)
  <2>1. executed[j].result.value = P
    BY <1>2 DEF TellsPieces, ToldBy
  <2>2. Len(lines) <= Len(P) /\ (~Feeds(lines, Len(lines)) => Len(P) = Len(lines))
    <3>1. PICK S : lines \in Seq(S)
      BY <1>7
    <3> HIDE DEF lines
    <3> QED
      BY <3>1, PiecesAre DEF P
  <2>3. ToldBy(i, "get_file_info") => executed[i].result.value = Len(lines)
    BY <1>2 DEF TellsCount, ToldBy
  <2>4. ToldBy(i, "parse_ast") /\ executed[i].asked = "module" =>
            executed[i].result.value.count = Len(P) \/ ~executed[i].module.ended \/ executed[i].module.state = "syntax"
    BY <1>2 DEF TellsCount, ToldBy
  <2> QED
    BY <2>1, <2>2, <2>3, <2>4
<1> QED
  BY <1>1, <1>3, <1>4, <1>5, <1>6, <1>8, <1>9

-----------------------------------------------------------------------------
(* The questions, their cache and its counters.                            *)

QueriesSpec == QueriesInit /\ [][QueriesNext]_rlmQueryVars

StatsType == [queries : Nat, cached : Nat, requests : Nat, hits : Nat, misses : Nat, refused : Nat, evictions : Nat]

\* A query that is under way is about a question, and has tries left.
QueriesTyped ==
    /\ paid \in Nat /\ paidNow \in Nat /\ spentByQueries \in Nat /\ stats \in StatsType
    /\ cacheEntries \in Seq(Questions) /\ answers \in [Questions -> Nat] /\ evicted \in [Questions -> Nat]
    /\ retrying = NoQuestion \/ retrying \in [of : Questions, failed : Nat, retries : {0, QueryRetries}]
    /\ retrying.failed <= retrying.retries

\* Each answer is in the cache at most once.
Distinct(s) == \A i, j \in 1..Len(s) : s[i] = s[j] => i = j

KeptOnce == Distinct(cacheEntries)

QueriesInv == QueriesTyped /\ KeptOnce /\ CountersAgree /\ AttemptsArePaid /\ PaidOnceWhileKept

\* Before the first question nothing is counted.
LEMMA QueriesStart == QueriesInit => QueriesInv
<1> SUFFICES ASSUME QueriesInit
             PROVE  QueriesInv
  OBVIOUS
<1> USE QueriesAssumption
<1>1. QueriesTyped
  BY DEF QueriesInit, QueriesTyped, StatsType, NoQuestion
<1>2. KeptOnce
  BY DEF QueriesInit, KeptOnce, Distinct
<1>3. CountersAgree
  BY DEF QueriesInit, CountersAgree
<1>4. AttemptsArePaid
  BY DEF QueriesInit, AttemptsArePaid, NothingEnded, NoQuestion
<1>5. PaidOnceWhileKept
  BY DEF QueriesInit, PaidOnceWhileKept, ToSet
<1> QED
  BY <1>1, <1>2, <1>3, <1>4, <1>5 DEF QueriesInv

\* The cache with one more answer, and without its oldest where it is full.
LEMMA CacheGoesOn ==
    ASSUME NEW entries \in Seq(Questions), NEW q \in Questions, q \notin ToSet(entries),
           Distinct(entries)
    PROVE  /\ Append(entries, q) \in Seq(Questions) /\ Len(Append(entries, q)) = Len(entries) + 1
           /\ ToSet(Append(entries, q)) = ToSet(entries) \cup {q}
           /\ Distinct(Append(entries, q))
<1> DEFINE n == Len(entries)
           more == Append(entries, q)
<1>1. /\ n \in Nat /\ Len(more) = n + 1 /\ more \in Seq(Questions) /\ more[n + 1] = q
      /\ \A i \in 1..n : more[i] = entries[i] /\ entries[i] # q
  BY DEF ToSet
<1>2. DOMAIN more = 1..(n + 1) /\ DOMAIN entries = 1..n
  BY <1>1
<1> HIDE DEF more
<1>3. ToSet(more) = ToSet(entries) \cup {q}
  <2>1. ASSUME NEW x \in ToSet(more) PROVE x \in ToSet(entries) \cup {q}
    BY <1>1, <1>2, <2>1 DEF ToSet
  <2>2. ASSUME NEW x \in ToSet(entries) \cup {q} PROVE x \in ToSet(more)
    <3>1. CASE x = q
      BY <1>1, <1>2, <3>1 DEF ToSet
    <3>2. CASE x \in ToSet(entries)
      <4>1. PICK i \in 1..n : x = entries[i]
        BY <1>2, <3>2 DEF ToSet
      <4>2. i \in 1..(n + 1) /\ more[i] = x
        BY <1>1, <4>1
      <4> QED
        BY <1>2, <4>2 DEF ToSet
    <3> QED
      BY <2>2, <3>1, <3>2
  <2> QED
    BY <2>1, <2>2
<1>4. \A i, j \in 1..(n + 1) : more[i] = more[j] => i = j
  <2> SUFFICES ASSUME NEW i \in 1..(n + 1), NEW j \in 1..(n + 1), more[i] = more[j]
               PROVE  i = j
    OBVIOUS
  <2> QED
    BY <1>1 DEF Distinct
<1> QED
  BY <1>1, <1>3, <1>4 DEF more, Distinct

\* A full cache loses its oldest entry.
LEMMA CacheLosesOldest ==
    ASSUME NEW entries \in Seq(Questions), entries # <<>>,
           Distinct(entries)
    PROVE  /\ Tail(entries) \in Seq(Questions) /\ Len(Tail(entries)) = Len(entries) - 1 /\ Head(entries) \in Questions
           /\ ToSet(Tail(entries)) = ToSet(entries) \ {Head(entries)} /\ Head(entries) \in ToSet(entries)
           /\ Distinct(Tail(entries))
<1> DEFINE n == Len(entries)
           rest == Tail(entries)
<1>1. /\ n \in Nat \ {0} /\ Len(rest) = n - 1 /\ rest \in Seq(Questions) /\ Head(entries) = entries[1]
      /\ \A i \in 1..(n - 1) : rest[i] = entries[i + 1]
  OBVIOUS
<1>2. DOMAIN rest = 1..(n - 1) /\ DOMAIN entries = 1..n
  BY <1>1
<1> HIDE DEF rest
<1>3. \A i \in 1..(n - 1) : i + 1 \in 1..n /\ i + 1 # 1
  BY <1>1
<1>4. \A i \in 1..n : i # 1 => i - 1 \in 1..(n - 1) /\ (i - 1) + 1 = i
  BY <1>1
<1>5. ToSet(rest) = ToSet(entries) \ {entries[1]}
  <2>1. ASSUME NEW x \in ToSet(rest) PROVE x \in ToSet(entries) \ {entries[1]}
    <3>1. PICK i \in 1..(n - 1) : x = rest[i]
      BY <1>2, <2>1 DEF ToSet
    <3>2. x = entries[i + 1] /\ i + 1 \in 1..n /\ i + 1 # 1
      BY <1>1, <1>3, <3>1
    <3>3. 1 \in 1..n
      BY <1>1
    <3> QED
      BY <1>2, <3>2, <3>3 DEF ToSet, Distinct
  <2>2. ASSUME NEW x \in ToSet(entries) \ {entries[1]} PROVE x \in ToSet(rest)
    <3>1. PICK i \in 1..n : x = entries[i]
      BY <1>2, <2>2 DEF ToSet
    <3>2. i # 1
      BY <3>1
    <3>3. i - 1 \in 1..(n - 1) /\ rest[i - 1] = x
      BY <1>1, <1>4, <3>1, <3>2
    <3> QED
      BY <1>2, <3>3 DEF ToSet
  <2> QED
    BY <2>1, <2>2
<1>6. \A i, j \in 1..(n - 1) : rest[i] = rest[j] => i = j
  <2> SUFFICES ASSUME NEW i \in 1..(n - 1), NEW j \in 1..(n - 1), rest[i] = rest[j]
               PROVE  i = j
    OBVIOUS
  <2>1. entries[i + 1] = entries[j + 1] /\ i + 1 \in 1..n /\ j + 1 \in 1..n
    BY <1>1, <1>3
  <2>2. i + 1 = j + 1
    BY <2>1 DEF Distinct
  <2> QED
    BY <2>2
<1>7. entries[1] \in ToSet(entries) /\ entries[1] \in Questions
  BY <1>1, <1>2 DEF ToSet
<1> QED
  BY <1>1, <1>5, <1>6, <1>7 DEF rest, Distinct

\* What an answer of the cache, a miss, a refusal and an entry that is given up count.
LEMMA HitCounts ==
    ASSUME NEW s \in StatsType, NEW t, t = [s EXCEPT !.queries = @ + 1, !.cached = @ + 1, !.requests = @ + 1, !.hits = @ + 1]
    PROVE  /\ t \in StatsType
           /\ t.queries = s.queries + 1 /\ t.cached = s.cached + 1 /\ t.requests = s.requests + 1 /\ t.hits = s.hits + 1
           /\ t.misses = s.misses /\ t.refused = s.refused /\ t.evictions = s.evictions
<1>1. [s EXCEPT !.queries = @ + 1] \in StatsType
  BY DEF StatsType
<1>2. PICK u \in StatsType : u = [s EXCEPT !.queries = @ + 1]
  BY <1>1
<1>3. u.cached = s.cached /\ u.requests = s.requests /\ u.hits = s.hits
  BY <1>2 DEF StatsType
<1>4. [u EXCEPT !.cached = @ + 1] \in StatsType
  BY DEF StatsType
<1>5. PICK v \in StatsType : v = [u EXCEPT !.cached = @ + 1]
  BY <1>4
<1>6. v.requests = s.requests /\ v.hits = s.hits
  BY <1>3, <1>5 DEF StatsType
<1>7. [v EXCEPT !.requests = @ + 1] \in StatsType
  BY DEF StatsType
<1>8. PICK w \in StatsType : w = [v EXCEPT !.requests = @ + 1]
  BY <1>7
<1>9. w.hits = s.hits
  BY <1>6, <1>8 DEF StatsType
<1>10. t = [w EXCEPT !.hits = @ + 1]
  BY <1>2, <1>3, <1>5, <1>6, <1>8, <1>9
<1>11. t \in StatsType
  BY <1>10 DEF StatsType
<1> QED
  BY <1>2, <1>3, <1>5, <1>6, <1>8, <1>9, <1>10, <1>11 DEF StatsType

\* A question that is not in the cache is a miss.
LEMMA MissCounts ==
    ASSUME NEW s \in StatsType, NEW t, t = [s EXCEPT !.queries = @ + 1, !.requests = @ + 1, !.misses = @ + 1]
    PROVE  /\ t \in StatsType
           /\ t.queries = s.queries + 1 /\ t.cached = s.cached /\ t.requests = s.requests + 1 /\ t.hits = s.hits
           /\ t.misses = s.misses + 1 /\ t.refused = s.refused /\ t.evictions = s.evictions
<1>1. [s EXCEPT !.queries = @ + 1] \in StatsType
  BY DEF StatsType
<1>2. PICK u \in StatsType : u = [s EXCEPT !.queries = @ + 1]
  BY <1>1
<1>3. u.requests = s.requests /\ u.misses = s.misses
  BY <1>2 DEF StatsType
<1>4. [u EXCEPT !.requests = @ + 1] \in StatsType
  BY DEF StatsType
<1>5. PICK v \in StatsType : v = [u EXCEPT !.requests = @ + 1]
  BY <1>4
<1>6. v.misses = s.misses
  BY <1>3, <1>5 DEF StatsType
<1>7. t = [v EXCEPT !.misses = @ + 1]
  BY <1>2, <1>3, <1>5, <1>6
<1>8. t \in StatsType
  BY <1>7 DEF StatsType
<1> QED
  BY <1>2, <1>3, <1>5, <1>6, <1>7, <1>8 DEF StatsType

\* A question beyond the budget is refused.
LEMMA RefusalCounts ==
    ASSUME NEW s \in StatsType, NEW t, t = [s EXCEPT !.queries = @ + 1, !.refused = @ + 1]
    PROVE  /\ t \in StatsType
           /\ t.queries = s.queries + 1 /\ t.cached = s.cached /\ t.requests = s.requests /\ t.hits = s.hits
           /\ t.misses = s.misses /\ t.refused = s.refused + 1 /\ t.evictions = s.evictions
<1>1. [s EXCEPT !.queries = @ + 1] \in StatsType
  BY DEF StatsType
<1>2. PICK u \in StatsType : u = [s EXCEPT !.queries = @ + 1]
  BY <1>1
<1>3. u.refused = s.refused
  BY <1>2 DEF StatsType
<1>4. t = [u EXCEPT !.refused = @ + 1]
  BY <1>2, <1>3 DEF StatsType
<1>5. t \in StatsType
  BY <1>4 DEF StatsType
<1> QED
  BY <1>2, <1>3, <1>4, <1>5 DEF StatsType

\* What goes from the cache is counted.
LEMMA EvictionCounts ==
    ASSUME NEW s \in StatsType, NEW t, t = [s EXCEPT !.evictions = @ + 1]
    PROVE  /\ t \in StatsType
           /\ t.queries = s.queries /\ t.cached = s.cached /\ t.requests = s.requests /\ t.hits = s.hits
           /\ t.misses = s.misses /\ t.refused = s.refused /\ t.evictions = s.evictions + 1
BY DEF StatsType

\* The counters are numbers.
LEMMA StatsAreNumbers ==
    ASSUME NEW s \in StatsType
    PROVE  /\ s.queries \in Nat /\ s.cached \in Nat /\ s.requests \in Nat /\ s.hits \in Nat /\ s.misses \in Nat
           /\ s.refused \in Nat /\ s.evictions \in Nat
BY DEF StatsType

\* Every step of the executor keeps the counters together.
LEMMA QueriesStep == QueriesInv /\ [QueriesNext]_rlmQueryVars => QueriesInv'
<1> SUFFICES ASSUME QueriesInv, [QueriesNext]_rlmQueryVars
             PROVE  QueriesInv'
  OBVIOUS
<1>0. QueriesTyped /\ KeptOnce /\ CountersAgree /\ AttemptsArePaid /\ PaidOnceWhileKept
  BY DEF QueriesInv
<1> USE QueriesAssumption
<1>a. /\ paid \in Nat /\ paidNow \in Nat /\ spentByQueries \in Nat /\ stats \in StatsType /\ QueryRetries \in Nat
      /\ retrying.failed \in Nat /\ retrying.retries \in {0, QueryRetries} /\ retrying.failed <= retrying.retries
      /\ retrying # NoQuestion => retrying \in [of : Questions, failed : Nat, retries : {0, QueryRetries}]
  BY <1>0 DEF QueriesTyped, NoQuestion
<1>n. /\ stats.queries \in Nat /\ stats.cached \in Nat /\ stats.requests \in Nat /\ stats.hits \in Nat
      /\ stats.misses \in Nat /\ stats.refused \in Nat /\ stats.evictions \in Nat
  BY <1>a, StatsAreNumbers
<1>l. cacheEntries \in Seq(Questions) /\ Len(cacheEntries) \in Nat
  BY <1>0 DEF QueriesTyped
<1>c. /\ stats.misses = paid /\ stats.requests = stats.hits + stats.misses
      /\ stats.queries = stats.requests + stats.refused /\ stats.cached = stats.hits
      /\ Len(cacheEntries) + stats.evictions <= paid
  BY <1>0 DEF CountersAgree
<1>d. stats.queries = stats.requests + stats.refused
  BY <1>c
<1>e. Len(cacheEntries) + stats.evictions <= paid
  BY <1>c
<1>f. stats.misses = paid /\ stats.requests = stats.hits + stats.misses /\ stats.cached = stats.hits
  BY <1>c
<1>m. /\ Miss \in StatsType
      /\ Miss.queries = stats.queries + 1 /\ Miss.cached = stats.cached /\ Miss.requests = stats.requests + 1
      /\ Miss.hits = stats.hits /\ Miss.misses = stats.misses + 1 /\ Miss.refused = stats.refused
      /\ Miss.evictions = stats.evictions
  BY <1>a, MissCounts DEF Miss
<1>b. ASSUME UNCHANGED cacheEntries, UNCHANGED answers, UNCHANGED evicted
      PROVE  KeptOnce' /\ PaidOnceWhileKept'
  BY <1>0, <1>b DEF KeptOnce, PaidOnceWhileKept
<1>1. ASSUME NEW q \in Questions, NEW retries \in {0, QueryRetries}, AskQuestion(q, retries)
      PROVE  QueriesInv'
  <2>1. QueriesTyped' /\ CountersAgree'
    BY <1>0, <1>a, <1>1 DEF QueriesTyped, CountersAgree, AskQuestion
  <2>2. AttemptsArePaid'
    BY <1>0, <1>a, <1>1 DEF AttemptsArePaid, AskQuestion, NothingEnded, NoQuestion
  <2> QED
    BY <1>b, <1>1, <2>1, <2>2 DEF QueriesInv, AskQuestion
<1>2. CASE BudgetRefuses
  <2>a. stats' = [stats EXCEPT !.queries = @ + 1, !.refused = @ + 1] /\ UNCHANGED <<paid, paidNow, cacheEntries, answers, evicted>>
        /\ spentByQueries' = spentByQueries + retrying.failed /\ retrying' = NoQuestion
    BY <1>2 DEF BudgetRefuses, QueryEnds
  <2>b. /\ stats' \in StatsType
        /\ stats'.queries = stats.queries + 1 /\ stats'.cached = stats.cached /\ stats'.requests = stats.requests
        /\ stats'.hits = stats.hits /\ stats'.misses = stats.misses /\ stats'.refused = stats.refused + 1
        /\ stats'.evictions = stats.evictions
    BY <1>a, <2>a, RefusalCounts
  <2>c. QueriesTyped'
    BY <1>0, <1>a, <2>a, <2>b DEF QueriesTyped, NoQuestion
  <2>1. CountersAgree'
    <3>1. paid' = paid /\ Len(cacheEntries') = Len(cacheEntries)
      BY <2>a
    <3>2. stats'.misses = paid' /\ stats'.requests = stats'.hits + stats'.misses /\ stats'.cached = stats'.hits
      BY <1>n, <1>c, <2>b, <3>1
    <3>3. stats'.queries = stats'.requests + stats'.refused
      BY <1>n, <1>d, <2>b
    <3>4. Len(cacheEntries') + stats'.evictions <= paid'
      BY <1>n, <1>c, <2>b, <3>1
    <3> QED
      BY <3>2, <3>3, <3>4 DEF CountersAgree
  <2>2. AttemptsArePaid'
    BY <1>0, <1>a, <1>2 DEF AttemptsArePaid, BudgetRefuses, QueryEnds, NoQuestion
  <2> QED
    BY <1>b, <1>2, <2>1, <2>c, <2>2 DEF QueriesInv, BudgetRefuses
<1>3. CASE CacheAnswers
  <2>a. stats' = Hit /\ UNCHANGED <<paid, paidNow, cacheEntries, answers, evicted>>
        /\ spentByQueries' = spentByQueries + retrying.failed /\ retrying' = NoQuestion
    BY <1>3 DEF CacheAnswers, QueryEnds
  <2>b. /\ stats' \in StatsType
        /\ stats'.queries = stats.queries + 1 /\ stats'.cached = stats.cached + 1 /\ stats'.requests = stats.requests + 1
        /\ stats'.hits = stats.hits + 1 /\ stats'.misses = stats.misses /\ stats'.refused = stats.refused
        /\ stats'.evictions = stats.evictions
    BY <1>a, <2>a, HitCounts DEF Hit
  <2>c. QueriesTyped'
    BY <1>0, <1>a, <2>a, <2>b, SMTT(30) DEF QueriesTyped, NoQuestion
  <2>1. CountersAgree'
    <3>1. paid' = paid /\ Len(cacheEntries') = Len(cacheEntries)
      BY <2>a
    <3>2. stats'.misses = paid' /\ stats'.requests = stats'.hits + stats'.misses /\ stats'.cached = stats'.hits
      BY <1>n, <1>c, <2>b, <3>1, SMTT(30)
    <3>3. stats'.queries = stats'.requests + stats'.refused
      BY <1>n, <1>d, <2>b
    <3>4. Len(cacheEntries') + stats'.evictions <= paid'
      BY <1>n, <1>c, <2>b, <3>1
    <3> QED
      BY <3>2, <3>3, <3>4 DEF CountersAgree
  <2>2. AttemptsArePaid'
    BY <1>0, <1>a, <1>3 DEF AttemptsArePaid, CacheAnswers, QueryEnds, NoQuestion
  <2> QED
    BY <1>b, <1>3, <2>1, <2>c, <2>2 DEF QueriesInv, CacheAnswers
<1>4. CASE ModelReplies
  <2> DEFINE q == retrying.of
             rest == IF Full THEN Tail(cacheEntries) ELSE cacheEntries
  <2>1. q \in Questions /\ q \notin ToSet(cacheEntries) /\ cacheEntries \in Seq(Questions)
    BY <1>0, <1>a, <1>4 DEF ModelReplies, GoesOut, QueriesTyped
  <2>2. Full => cacheEntries # <<>> /\ Len(cacheEntries) \in Nat
    BY <2>1 DEF Full
  <2>3. /\ rest \in Seq(Questions) /\ q \notin ToSet(rest) /\ Distinct(rest)
        /\ Full => /\ Len(rest) = Len(cacheEntries) - 1 /\ Head(cacheEntries) \in Questions
                   /\ Head(cacheEntries) \in ToSet(cacheEntries) /\ ToSet(rest) = ToSet(cacheEntries) \ {Head(cacheEntries)}
        /\ ~Full => rest = cacheEntries
    <3>1. CASE Full
      BY <1>0, <2>1, <2>2, <3>1, CacheLosesOldest DEF KeptOnce
    <3>2. CASE ~Full
      BY <1>0, <2>1, <3>2 DEF KeptOnce
    <3> QED
      BY <3>1, <3>2
  <2>4. cacheEntries' = Append(rest, q)
    BY <1>4 DEF ModelReplies, Evict
  <2> HIDE DEF rest
  <2>5. /\ cacheEntries' \in Seq(Questions) /\ Len(cacheEntries') = Len(rest) + 1 /\ ToSet(cacheEntries') = ToSet(rest) \cup {q}
        /\ Distinct(cacheEntries')
    BY <2>1, <2>3, <2>4, CacheGoesOn
  <2>6. KeptOnce'
    BY <2>5 DEF KeptOnce, Distinct
  <2>7. /\ answers' = [answers EXCEPT ![q] = @ + 1]
        /\ evicted' = IF Full THEN [evicted EXCEPT ![Head(cacheEntries)] = @ + 1] ELSE evicted
        /\ answers \in [Questions -> Nat] /\ evicted \in [Questions -> Nat]
    BY <1>0, <1>4 DEF ModelReplies, QueriesTyped
  <2>8. PaidOnceWhileKept'
    <3> SUFFICES ASSUME NEW p \in Questions
                 PROVE  answers'[p] = evicted'[p] + (IF p \in ToSet(cacheEntries') THEN 1 ELSE 0)
      BY DEF PaidOnceWhileKept, ToSet
    <3>1. answers[p] = evicted[p] + (IF p \in ToSet(cacheEntries) THEN 1 ELSE 0)
      BY <1>0 DEF PaidOnceWhileKept
    <3>2. answers'[p] = answers[p] + (IF p = q THEN 1 ELSE 0) /\ answers[p] \in Nat /\ evicted[p] \in Nat
      BY <2>1, <2>7, SMTT(30)
    <3>3. p \in ToSet(cacheEntries') <=> p \in ToSet(rest) \/ p = q
      BY <2>5
    <3>4. CASE Full
      <4>1. evicted' = [evicted EXCEPT ![Head(cacheEntries)] = @ + 1]
        BY <2>7, <3>4
      <4>2. evicted'[p] = evicted[p] + (IF p = Head(cacheEntries) THEN 1 ELSE 0)
        BY <2>3, <2>7, <3>4, <4>1
      <4>3. /\ p \in ToSet(rest) <=> p \in ToSet(cacheEntries) /\ p # Head(cacheEntries)
            /\ Head(cacheEntries) \in ToSet(cacheEntries) /\ q \notin ToSet(cacheEntries)
        BY <2>1, <2>3, <3>4
      <4> QED
        BY <3>1, <3>2, <3>3, <4>2, <4>3
    <3>5. CASE ~Full
      <4>1. evicted'[p] = evicted[p] /\ rest = cacheEntries
        BY <2>3, <2>7, <3>5
      <4> QED
        BY <2>1, <3>1, <3>2, <3>3, <4>1
    <3> QED
      BY <3>4, <3>5
  <2>9. Len(rest) \in Nat /\ Len(cacheEntries) \in Nat
    BY <2>1, <2>3
  <2>10. /\ stats' = IF Full THEN [Miss EXCEPT !.evictions = @ + 1] ELSE Miss
         /\ paid' = paid + 1 /\ paidNow' = paidNow + 1
         /\ spentByQueries' = spentByQueries + (retrying.failed + 1) /\ retrying' = NoQuestion
         /\ queryOutcome' = [of |-> retrying.of, is |-> "answered", paid |-> retrying.failed + 1]
    BY <1>4 DEF ModelReplies, Pay, QueryEnds
  <2>11. CountersAgree'
    <3>1. /\ stats'.queries = stats.queries + 1 /\ stats'.cached = stats.cached /\ stats'.requests = stats.requests + 1
          /\ stats'.hits = stats.hits /\ stats'.misses = stats.misses + 1 /\ stats'.refused = stats.refused
          /\ stats'.evictions = stats.evictions + (IF Full THEN 1 ELSE 0)
      <4>1. CASE Full
        <5>1. stats' = [Miss EXCEPT !.evictions = @ + 1]
          BY <2>10, <4>1
        <5>2. /\ stats'.queries = Miss.queries /\ stats'.cached = Miss.cached /\ stats'.requests = Miss.requests
              /\ stats'.hits = Miss.hits /\ stats'.misses = Miss.misses /\ stats'.refused = Miss.refused
              /\ stats'.evictions = Miss.evictions + 1
          BY <1>m, <5>1, EvictionCounts
        <5> QED
          BY <1>m, <4>1, <5>2
      <4>2. CASE ~Full
        <5>1. stats' = Miss
          BY <2>10, <4>2
        <5> QED
          BY <1>m, <1>n, <4>2, <5>1
      <4> QED
        BY <4>1, <4>2
    <3>2. stats'.misses = paid' /\ stats'.requests = stats'.hits + stats'.misses /\ stats'.cached = stats'.hits
      BY <1>n, <1>f, <2>10, <3>1
    <3>3. stats'.queries = stats'.requests + stats'.refused
      BY <1>n, <1>d, <3>1
    <3>4. Len(cacheEntries') = Len(cacheEntries) + (IF Full THEN 0 ELSE 1)
      BY <2>3, <2>5, <2>9
    <3>5. Len(cacheEntries') + stats'.evictions <= paid'
      BY <1>a, <1>n, <1>e, <1>l, <2>10, <3>1, <3>4, SMTT(30)
    <3> QED
      BY <3>2, <3>3, <3>5 DEF CountersAgree
  <2>12. QueriesTyped'
    <3>1. stats' \in StatsType
      <4>1. CASE Full
        BY <1>m, <2>10, <4>1, EvictionCounts
      <4>2. CASE ~Full
        BY <1>m, <2>10, <4>2
      <4> QED
        BY <4>1, <4>2
    <3>2. answers' \in [Questions -> Nat] /\ evicted' \in [Questions -> Nat]
      <4>1. answers' \in [Questions -> Nat]
        BY <2>1, <2>7, SMTT(30)
      <4>2. CASE Full
        <5>1. evicted' = [evicted EXCEPT ![Head(cacheEntries)] = @ + 1]
          BY <2>7, <4>2
        <5> QED
          BY <2>3, <2>7, <4>1, <4>2, <5>1, SMTT(30)
      <4>3. CASE ~Full
        BY <2>7, <4>1, <4>3
      <4> QED
        BY <4>2, <4>3
    <3>3. paid' \in Nat /\ paidNow' \in Nat /\ spentByQueries' \in Nat
      BY <1>a, <2>10
    <3>4. retrying'.failed <= retrying'.retries
      BY <2>10 DEF NoQuestion
    <3> QED
      BY <2>5, <2>10, <3>1, <3>2, <3>3, <3>4 DEF QueriesTyped
  <2>13. AttemptsArePaid'
    BY <1>0, <1>a, <2>10 DEF AttemptsArePaid, NoQuestion
  <2> QED
    BY <2>6, <2>8, <2>11, <2>12, <2>13 DEF QueriesInv
<1>5. CASE ModelFails
  <2>1. /\ paid' = paid + 1 /\ paidNow' = paidNow + 1 /\ stats' = Miss /\ UNCHANGED <<cacheEntries, answers, evicted>>
        /\ retrying \in [of : Questions, failed : Nat, retries : {0, QueryRetries}]
    BY <1>a, <1>5 DEF ModelFails, GoesOut, Pay
  <2>2. CASE MayRetry
    <3>1. retrying' = [retrying EXCEPT !.failed = @ + 1] /\ UNCHANGED <<queryOutcome, spentByQueries>>
      BY <1>5, <2>2 DEF ModelFails
    <3>2. retrying' \in [of : Questions, failed : Nat, retries : {0, QueryRetries}] /\ retrying'.failed = retrying.failed + 1
          /\ retrying'.retries = retrying.retries
      BY <2>1, <3>1
    <3>3. QueriesTyped'
      <4>1. paid' \in Nat /\ paidNow' \in Nat /\ spentByQueries' \in Nat /\ stats' \in StatsType
        BY <1>a, <1>m, <2>1, <3>1
      <4>2. retrying'.failed <= retrying'.retries
        BY <1>a, <2>1, <2>2, <3>2 DEF MayRetry
      <4>3. cacheEntries' \in Seq(Questions) /\ answers' \in [Questions -> Nat] /\ evicted' \in [Questions -> Nat]
        BY <1>0, <2>1 DEF QueriesTyped
      <4> QED
        BY <3>2, <4>1, <4>2, <4>3 DEF QueriesTyped
    <3>4. CountersAgree'
      <4>1. stats'.misses = paid' /\ stats'.requests = stats'.hits + stats'.misses /\ stats'.cached = stats'.hits
        BY <1>m, <1>n, <1>f, <2>1
      <4>2. stats'.queries = stats'.requests + stats'.refused
        BY <1>m, <1>n, <1>d, <2>1
      <4>3. Len(cacheEntries') + stats'.evictions <= paid'
        <5>1. stats'.evictions = stats.evictions /\ Len(cacheEntries') = Len(cacheEntries) /\ paid' = paid + 1
          BY <1>m, <2>1
        <5>2. paid \in Nat /\ Len(cacheEntries) \in Nat /\ stats.evictions \in Nat
          BY <1>a, <1>n, <1>l
        <5> QED
          BY <1>e, <5>1, <5>2
      <4> QED
        BY <4>1, <4>2, <4>3 DEF CountersAgree
    <3>5. AttemptsArePaid'
      BY <1>0, <1>a, <2>1, <3>1, <3>2 DEF AttemptsArePaid
    <3> QED
      BY <1>b, <2>1, <3>3, <3>4, <3>5 DEF QueriesInv
  <2>3. CASE ~MayRetry
    <3>1. /\ spentByQueries' = spentByQueries + (retrying.failed + 1) /\ retrying' = NoQuestion
          /\ queryOutcome' = [of |-> retrying.of, is |-> "failed", paid |-> retrying.failed + 1]
      BY <1>5, <2>3 DEF ModelFails, QueryEnds
    <3>2. retrying.failed = retrying.retries
      BY <1>a, <2>3 DEF MayRetry
    <3>3. QueriesTyped'
      <4>1. paid' \in Nat /\ paidNow' \in Nat /\ spentByQueries' \in Nat /\ stats' \in StatsType
        BY <1>a, <1>m, <2>1, <3>1
      <4>2. retrying'.failed <= retrying'.retries
        BY <3>1 DEF NoQuestion
      <4>3. cacheEntries' \in Seq(Questions) /\ answers' \in [Questions -> Nat] /\ evicted' \in [Questions -> Nat]
        BY <1>0, <2>1 DEF QueriesTyped
      <4> QED
        BY <3>1, <4>1, <4>2, <4>3 DEF QueriesTyped
    <3>4. CountersAgree'
      <4>1. stats'.misses = paid' /\ stats'.requests = stats'.hits + stats'.misses /\ stats'.cached = stats'.hits
        BY <1>m, <1>n, <1>f, <2>1
      <4>2. stats'.queries = stats'.requests + stats'.refused
        BY <1>m, <1>n, <1>d, <2>1
      <4>3. Len(cacheEntries') + stats'.evictions <= paid'
        <5>1. stats'.evictions = stats.evictions /\ Len(cacheEntries') = Len(cacheEntries) /\ paid' = paid + 1
          BY <1>m, <2>1
        <5>2. paid \in Nat /\ Len(cacheEntries) \in Nat /\ stats.evictions \in Nat
          BY <1>a, <1>n, <1>l
        <5> QED
          BY <1>e, <5>1, <5>2
      <4> QED
        BY <4>1, <4>2, <4>3 DEF CountersAgree
    <3>5. AttemptsArePaid'
      BY <1>0, <1>a, <2>1, <3>1, <3>2 DEF AttemptsArePaid, NoQuestion
    <3> QED
      BY <1>b, <2>1, <3>3, <3>4, <3>5 DEF QueriesInv
  <2> QED
    BY <2>2, <2>3
<1>6. CASE NextIteration
  <2>1. QueriesTyped' /\ CountersAgree' /\ AttemptsArePaid'
    BY <1>0, <1>a, <1>6 DEF QueriesTyped, CountersAgree, AttemptsArePaid, NextIteration
  <2> QED
    BY <1>b, <1>6, <2>1 DEF QueriesInv, NextIteration
<1>7. CASE UNCHANGED rlmQueryVars
  <2>1. QueriesTyped' /\ CountersAgree' /\ AttemptsArePaid'
    BY <1>0, <1>7 DEF QueriesTyped, CountersAgree, AttemptsArePaid, rlmQueryVars
  <2> QED
    BY <1>b, <1>7, <2>1 DEF QueriesInv, rlmQueryVars
<1> QED
  BY <1>1, <1>2, <1>3, <1>4, <1>5, <1>6, <1>7 DEF QueriesNext

\* So it is always.
LEMMA QueriesAlways == QueriesSpec => []QueriesInv
BY QueriesStart, QueriesStep, PTL DEF QueriesSpec

-----------------------------------------------------------------------------
(* The audits of a task and their index.                                   *)

\* Numbers with a bound have a greatest one.
LEMMA Greatest ==
    ASSUME NEW n \in Nat, NEW S, S \subseteq 1..n, S # {}
    PROVE  \E x \in S : \A y \in S : y <= x
<1> DEFINE T == {n - x : x \in S}
<1>1. T \subseteq Nat /\ T # {}
  <2>1. \A x \in S : x \in 1..n /\ n - x \in Nat
    OBVIOUS
  <2> QED
    BY <2>1
<1>2. PICK t \in T : \A u \in T : t <= u
  <2> HIDE DEF T
  <2> QED
    BY <1>1, LeastNumber
<1>3. PICK x \in S : t = n - x
  BY <1>2
<1>4. ASSUME NEW y \in S PROVE y <= x
  <2>1. n - y \in T
    OBVIOUS
  <2>2. n - x <= n - y /\ x \in 1..n /\ y \in 1..n
    BY <1>2, <1>3, <2>1
  <2> QED
    BY <2>2
<1> QED
  BY <1>4

\* The first of the entries of a task, and the last.
LEMMA FirstOfTask ==
    ASSUME NEW T, NEW s \in Seq(T), NEW task
    PROVE  /\ FirstOf(s, task) = 0 => \A i \in 1..Len(s) : s[i].task # task
           /\ FirstOf(s, task) # 0 => /\ FirstOf(s, task) \in 1..Len(s) /\ s[FirstOf(s, task)].task = task
                                      /\ \A j \in 1..Len(s) : s[j].task = task => FirstOf(s, task) <= j
<1> DEFINE S == {i \in 1..Len(s) : s[i].task = task}
<1>1. FirstOf(s, task) = IF S # {} THEN Min(S) ELSE 0
  BY DEF FirstOf, SelectInSeq
<1>2. CASE S = {}
  BY <1>1, <1>2
<1>3. CASE S # {}
  <2>1. S \subseteq Nat
    OBVIOUS
  <2>2. \E x \in S : \A y \in S : x <= y
    <3> HIDE DEF S
    <3> QED
      BY <1>3, <2>1, LeastNumber
  <2>3. Min(S) \in S /\ \A y \in S : Min(S) <= y
    BY <2>2 DEF Min
  <2>4. FirstOf(s, task) = Min(S)
    BY <1>1, <1>3
  <2>5. FirstOf(s, task) \in S /\ \A y \in S : FirstOf(s, task) <= y
    BY <2>3, <2>4
  <2> QED
    BY <2>5
<1> QED
  BY <1>2, <1>3

LastOf(s, task) == SelectLastInSeq(s, LAMBDA e : e.task = task)

\* Of the audits of a task one is the last.
LEMMA LastOfTask ==
    ASSUME NEW T, NEW s \in Seq(T), NEW task
    PROVE  /\ LastOf(s, task) = 0 => \A i \in 1..Len(s) : s[i].task # task
           /\ LastOf(s, task) # 0 => /\ LastOf(s, task) \in 1..Len(s) /\ s[LastOf(s, task)].task = task
                                     /\ \A j \in 1..Len(s) : s[j].task = task => j <= LastOf(s, task)
<1> DEFINE S == {i \in 1..Len(s) : s[i].task = task}
<1>1. LastOf(s, task) = IF S # {} THEN Max(S) ELSE 0
  BY DEF LastOf, SelectLastInSeq
<1>2. CASE S = {}
  BY <1>1, <1>2
<1>3. CASE S # {}
  <2>1. Len(s) \in Nat /\ S \subseteq 1..Len(s)
    OBVIOUS
  <2>2. \E x \in S : \A y \in S : y <= x
    <3> HIDE DEF S
    <3> QED
      BY <1>3, <2>1, Greatest
  <2>3. Max(S) \in S /\ \A y \in S : y <= Max(S)
    <3>1. \E x \in S : \A y \in S : x >= y
      BY <2>2
    <3> QED
      BY <3>1 DEF Max
  <2>4. LastOf(s, task) = Max(S)
    BY <1>1, <1>3
  <2>5. LastOf(s, task) \in S /\ \A y \in S : y <= LastOf(s, task)
    BY <2>3, <2>4
  <2> QED
    BY <2>5
<1> QED
  BY <1>2, <1>3

\* A list of entries in the order of their results.
Ordered(s, T) == s \in Seq(T) /\ \A i, j \in 1..Len(s) : i < j => s[i].result < s[j].result

\* What is of a sequence has a place there.
LEMMA MembersHavePlaces ==
    ASSUME NEW T, NEW s \in Seq(T)
    PROVE  \A e : e \in ToSet(s) <=> \E i \in 1..Len(s) : s[i] = e
BY DEF ToSet

\* What is left without the member at a place.
LEMMA WithoutPlace ==
    ASSUME NEW T, NEW s \in Seq(T), NEW k \in 1..Len(s)
    PROVE  /\ RemoveAt(s, k) \in Seq(T) /\ Len(RemoveAt(s, k)) = Len(s) - 1
           /\ \A i \in 1..(Len(s) - 1) : RemoveAt(s, k)[i] = IF i < k THEN s[i] ELSE s[i + 1]
<1> DEFINE n == Len(s)
           r == RemoveAt(s, k)
<1>0. s \in Seq(T) /\ n \in Nat /\ k \in 1..n
  OBVIOUS
<1> DEFINE p == SubSeq(s, 1, k - 1)
           q == SubSeq(s, k + 1, n)
<1>1. /\ p \in Seq(T) /\ Len(p) = k - 1 /\ \A i \in 1..(k - 1) : p[i] = s[i]
      /\ q \in Seq(T) /\ Len(q) = n - k /\ \A i \in 1..(n - k) : q[i] = s[k + i]
  BY <1>0
<1>2. r = p \o q
  BY DEF RemoveAt
<1> HIDE DEF p, q, r, n
<1>3. Len(p) + Len(q) = n - 1
  BY <1>0, <1>1
<1>4. r \in Seq(T) /\ Len(r) = n - 1
  <2>1. r \in Seq(T) /\ Len(r) = Len(p) + Len(q)
    BY <1>1, <1>2, ConcatProperties
  <2> QED
    BY <1>3, <2>1
<1>5. ASSUME NEW i \in 1..(n - 1)
      PROVE  r[i] = IF i < k THEN s[i] ELSE s[i + 1]
  <2>1. i \in 1..(Len(p) + Len(q))
    BY <1>3, <1>5
  <2>2. r[i] = IF i <= Len(p) THEN p[i] ELSE q[i - Len(p)]
    BY <1>1, <1>2, <2>1
  <2>3. CASE i < k
    BY <1>0, <1>1, <2>2, <2>3
  <2>4. CASE ~(i < k)
    <3>1. ~(i <= k - 1) /\ i - (k - 1) \in 1..(n - k) /\ k + (i - (k - 1)) = i + 1
      BY <1>0, <2>4
    <3>2. r[i] = q[i - (k - 1)]
      BY <1>1, <2>2, <3>1
    <3>3. q[i - (k - 1)] = s[i + 1]
      BY <1>1, <3>1
    <3> QED
      BY <2>4, <3>2, <3>3
  <2> QED
    BY <2>3, <2>4
<1> QED
  BY <1>4, <1>5 DEF n, r

\* What is left without the entry at a place.
LEMMA RemovedAt ==
    ASSUME NEW T, NEW s, Ordered(s, T), NEW k \in 1..Len(s)
    PROVE  /\ Ordered(RemoveAt(s, k), T) /\ ToSet(RemoveAt(s, k)) \subseteq ToSet(s)
           /\ \A e \in ToSet(s) : e # s[k] => e \in ToSet(RemoveAt(s, k))
<1> DEFINE n == Len(s)
           r == RemoveAt(s, k)
<1>1. s \in Seq(T) /\ n \in Nat /\ k \in 1..n
  BY DEF Ordered
<1>2. /\ r \in Seq(T) /\ Len(r) = n - 1
      /\ \A i \in 1..(n - 1) : r[i] = IF i < k THEN s[i] ELSE s[i + 1]
  BY <1>1, WithoutPlace
<1> HIDE DEF r
<1>3. \A i, j \in 1..(n - 1) : i < j => r[i].result < r[j].result
  <2> SUFFICES ASSUME NEW i \in 1..(n - 1), NEW j \in 1..(n - 1), i < j
               PROVE  r[i].result < r[j].result
    OBVIOUS
  <2>1. PICK a \in 1..n : r[i] = s[a] /\ a = IF i < k THEN i ELSE i + 1
    BY <1>1, <1>2
  <2>2. PICK b \in 1..n : r[j] = s[b] /\ b = IF j < k THEN j ELSE j + 1
    BY <1>1, <1>2
  <2>3. a < b
    BY <1>1, <2>1, <2>2
  <2> QED
    BY <2>1, <2>2, <2>3 DEF Ordered
<1>4. ToSet(r) \subseteq ToSet(s)
  <2> SUFFICES ASSUME NEW e \in ToSet(r)
               PROVE  e \in ToSet(s)
    OBVIOUS
  <2>1. PICK i \in 1..(n - 1) : r[i] = e
    BY <1>2, MembersHavePlaces
  <2>2. PICK a \in 1..n : r[i] = s[a]
    BY <1>1, <1>2
  <2> QED
    BY <1>1, <2>1, <2>2, MembersHavePlaces
<1>5. ASSUME NEW e \in ToSet(s), e # s[k]
      PROVE  e \in ToSet(r)
  <2>1. PICK i \in 1..n : s[i] = e
    BY <1>1, MembersHavePlaces
  <2>2. CASE i < k
    <3>1. i \in 1..(n - 1) /\ r[i] = e
      BY <1>1, <1>2, <2>1, <2>2
    <3> QED
      BY <1>2, <3>1, MembersHavePlaces
  <2>3. CASE i > k
    <3>1. i - 1 \in 1..(n - 1) /\ ~(i - 1 < k) /\ (i - 1) + 1 = i
      BY <1>1, <2>3
    <3>2. r[i - 1] = e
      BY <1>2, <2>1, <3>1
    <3> QED
      BY <1>2, <3>1, <3>2, MembersHavePlaces
  <2>4. i # k
    BY <1>5, <2>1
  <2> QED
    BY <1>1, <2>2, <2>3, <2>4
<1> QED
  BY <1>2, <1>3, <1>4, <1>5 DEF r, Ordered

\* And with one more, of a result greater than all.
LEMMA OneMoreAtEnd ==
    ASSUME NEW T, NEW s, Ordered(s, T), NEW e \in T, \A f \in ToSet(s) : f.result < e.result
    PROVE  Ordered(Append(s, e), T) /\ ToSet(Append(s, e)) = ToSet(s) \cup {e}
<1> DEFINE n == Len(s)
           r == Append(s, e)
<1>1. s \in Seq(T) /\ n \in Nat
  BY DEF Ordered
<1>2. r \in Seq(T) /\ Len(r) = n + 1 /\ r[n + 1] = e /\ \A i \in 1..n : r[i] = s[i]
  BY <1>1
<1> HIDE DEF r
<1>3. \A i, j \in 1..(n + 1) : i < j => r[i].result < r[j].result
  <2> SUFFICES ASSUME NEW i \in 1..(n + 1), NEW j \in 1..(n + 1), i < j
               PROVE  r[i].result < r[j].result
    OBVIOUS
  <2>1. i \in 1..n /\ r[i] = s[i] /\ s[i] \in ToSet(s)
    BY <1>1, <1>2, MembersHavePlaces
  <2>2. CASE j = n + 1
    BY <1>2, <2>1, <2>2
  <2>3. CASE j \in 1..n
    BY <1>2, <2>1, <2>3 DEF Ordered
  <2> QED
    BY <1>1, <2>2, <2>3
<1>4. \A x : x \in ToSet(r) <=> x \in ToSet(s) \cup {e}
  <2>1. ASSUME NEW x \in ToSet(r) PROVE x \in ToSet(s) \cup {e}
    <3>1. PICK i \in 1..(n + 1) : r[i] = x
      BY <1>2, <2>1, MembersHavePlaces
    <3>2. CASE i \in 1..n
      BY <1>1, <1>2, <3>1, <3>2, MembersHavePlaces
    <3> QED
      BY <1>1, <1>2, <3>1, <3>2
  <2>2. ASSUME NEW x \in ToSet(s) PROVE x \in ToSet(r)
    <3>1. PICK i \in 1..n : s[i] = x
      BY <1>1, <2>2, MembersHavePlaces
    <3>2. i \in 1..(n + 1) /\ r[i] = x
      BY <1>1, <1>2, <3>1
    <3> QED
      BY <1>2, <3>2, MembersHavePlaces
  <2>3. e \in ToSet(r)
    <3>1. n + 1 \in 1..(n + 1)
      BY <1>1
    <3> QED
      BY <1>2, <3>1, MembersHavePlaces
  <2> QED
    BY <2>1, <2>2, <2>3
<1> QED
  BY <1>2, <1>3, <1>4 DEF r, Ordered

-----------------------------------------------------------------------------

AuditSpec == AuditInit /\ [][AuditNext]_auditVars

EntryType == [task : AuditTasks, result : Nat \ {0}, name : Names]

SavingType == [at : {"index"}, task : AuditTasks, result : Nat \ {0}, name : Names]

Savers == {a \in Auditors : saving[a].at # "idle"}

\* The results that have a number: saved, or being saved.
Given == saved \cup {Entry(a) : a \in Savers}

Live(e) == e.result \notin deleted

AuditTyped ==
    /\ second \in 1..MaxSeconds /\ disk \in [Names -> Nat]
    /\ index \in [entries : Seq(EntryType), torn : BOOLEAN]
    /\ memory \in [Auditors -> [loaded : BOOLEAN, entries : Seq(EntryType)]]
    /\ saving \in [Auditors -> {NotSaving} \cup SavingType]
    /\ saved \subseteq EntryType /\ IsFiniteSet(saved) /\ stale \in BOOLEAN
    /\ failures \in [some : BOOLEAN, torn : BOOLEAN]

\* Numbers are given once, in the order of the clock.
AuditsNumbered ==
    /\ \A e \in Given : e.result < NextResult /\ e.name[1] = e.task /\ e.name[2] <= second
    /\ \A e, f \in Given : /\ e.result = f.result => e = f
                           /\ e.result < f.result => e.name[2] <= f.name[2]
    /\ \A a \in Savers : Entry(a) \notin saved /\ \A b \in Savers : Entry(a) = Entry(b) => a = b

\* The index and its copies are in the order of the numbers, and what is being saved comes after them.
ListsOrdered ==
    /\ Ordered(index.entries, saved)
    /\ \A a \in Auditors : Ordered(memory[a].entries, saved)
    /\ \A a \in Savers : memory[a].loaded /\ \A e \in ToSet(memory[a].entries) : e.result < saving[a].result

\* A file holds a result of its name, and that of each that is neither deleted nor replaced.
DiskHolds ==
    /\ \A n \in Names : disk[n] # 0 => \E e \in Given : e.name = n /\ e.result = disk[n]
    /\ \A e \in Given : Live(e) => disk[e.name] = e.result

TornIsTold == (index.torn => failures.torn) /\ (failures.torn => failures.some)

LiveIsListed == ~stale /\ ~failures.torn => \A e \in saved : Live(e) => e \in ToSet(index.entries)

\* The lists there are, and those that are to be written.
Lists == {index.entries} \cup {memory[a].entries : a \in Auditors}
             \cup {Append(memory[a].entries, Entry(a)) : a \in Savers}

\* What comes a second or more after a result that is still there has a file.
NoGaps == ~stale /\ ~failures.some =>
    \A s \in Lists : \A e, f \in ToSet(s) :
        Live(e) /\ e.task = f.task /\ e.name[2] < f.name[2] => disk[f.name] # 0

AuditInv == AuditTyped /\ AuditsNumbered /\ ListsOrdered /\ DiskHolds /\ TornIsTold /\ LiveIsListed /\ NoGaps

\* Before the first save there are no audits.
LEMMA AuditStart == AuditInit => AuditInv
<1> SUFFICES ASSUME AuditInit
             PROVE  AuditInv
  OBVIOUS
<1>1. /\ second = 1 /\ disk = [n \in Names |-> 0] /\ index = [entries |-> <<>>, torn |-> FALSE]
      /\ memory = [a \in Auditors |-> [loaded |-> FALSE, entries |-> <<>>]]
      /\ saving = [a \in Auditors |-> NotSaving]
      /\ saved = {} /\ deleted = {} /\ stale = FALSE /\ failures = [some |-> FALSE, torn |-> FALSE]
  BY DEF AuditInit
<1>2. \A a \in Auditors : memory[a].entries = <<>> /\ saving[a].at = "idle"
  BY <1>1 DEF NotSaving
<1>3. Savers = {}
  BY <1>2 DEF Savers
<1>4. Given = {}
  BY <1>1, <1>3 DEF Given
<1>5. AuditTyped
  <2>1. 1 \in 1..MaxSeconds
    BY AuditAssumption
  <2>2. IsFiniteSet({})
    BY FS_EmptySet
  <2>3. second \in 1..MaxSeconds /\ disk \in [Names -> Nat] /\ index \in [entries : Seq(EntryType), torn : BOOLEAN]
    BY <1>1, <2>1
  <2>4. memory \in [Auditors -> [loaded : BOOLEAN, entries : Seq(EntryType)]]
    <3>1. [loaded |-> FALSE, entries |-> <<>>] \in [loaded : BOOLEAN, entries : Seq(EntryType)]
      OBVIOUS
    <3> QED
      BY <1>1, <3>1
  <2>5. saving \in [Auditors -> {NotSaving} \cup SavingType]
    BY <1>1
  <2>6. failures \in [some : BOOLEAN, torn : BOOLEAN]
    BY <1>1
  <2> QED
    BY <1>1, <2>2, <2>3, <2>4, <2>5, <2>6 DEF AuditTyped
<1>6. \A T : Ordered(<<>>, T) /\ ToSet(<<>>) = {}
  BY DEF Ordered, ToSet
<1>7. ListsOrdered
  BY <1>1, <1>2, <1>3, <1>6 DEF ListsOrdered
<1>8. AuditsNumbered /\ DiskHolds /\ TornIsTold /\ LiveIsListed
  BY <1>1, <1>3, <1>4 DEF AuditsNumbered, DiskHolds, TornIsTold, LiveIsListed
<1>9. NoGaps
  <2>1. \A s \in Lists : s = <<>>
    BY <1>1, <1>2, <1>3 DEF Lists
  <2> QED
    BY <1>6, <2>1 DEF NoGaps
<1> QED
  BY <1>5, <1>7, <1>8, <1>9 DEF AuditInv

\* A saver is a saver.
LEMMA SaverIsTyped ==
    ASSUME AuditTyped, NEW a \in Savers
    PROVE  a \in Auditors /\ saving[a] \in SavingType /\ Entry(a) \in EntryType /\ saving[a].at = "index"
           /\ Entry(a).result = saving[a].result /\ Entry(a).name = saving[a].name /\ Entry(a).task = saving[a].task
<1>1. a \in Auditors /\ saving[a] \in {NotSaving} \cup SavingType /\ saving[a].at # "idle"
  BY DEF AuditTyped, Savers
<1>2. saving[a] \in SavingType
  BY <1>1 DEF NotSaving
<1> QED
  BY <1>1, <1>2 DEF SavingType, EntryType, Entry

\* There are so many audits in a second.
LEMMA SaversAreFinite == IsFiniteSet(Savers)
BY AuditAssumption, FS_Subset DEF Savers

\* How many numbers are given.
LEMMA NumbersGiven ==
    ASSUME AuditTyped
    PROVE  NextResult = 1 + Cardinality(saved) + Cardinality(Savers) /\ NextResult \in Nat \ {0}
<1>1. Cardinality(saved) \in Nat /\ Cardinality(Savers) \in Nat
  BY SaversAreFinite, FS_CardinalityType DEF AuditTyped
<1>2. NextResult = 1 + Cardinality(saved) + Cardinality(Savers)
  BY DEF NextResult, Savers
<1> QED
  BY <1>1, <1>2

\* A longer set of entries has the lists of a shorter one.
LEMMA OrderedOfMore ==
    ASSUME NEW T, NEW U, T \subseteq U, NEW s, Ordered(s, T)
    PROVE  Ordered(s, U)
<1>1. s \in Seq(U)
  BY DEF Ordered
<1> QED
  BY <1>1 DEF Ordered

\* What an auditor goes on from is a list there is, or none at all.
LEMMA LoadedIsListed ==
    ASSUME AuditInv, NEW a \in Auditors
    PROVE  /\ Ordered(Loaded(a), saved) /\ Loaded(a) \in Seq(EntryType)
           /\ Loaded(a) \in Lists \/ Loaded(a) = <<>>
           /\ a \in Savers => Loaded(a) = memory[a].entries
<1>1. AuditTyped /\ ListsOrdered
  BY DEF AuditInv
<1>2. Loaded(a) = memory[a].entries \/ Loaded(a) = index.entries \/ Loaded(a) = <<>>
  BY DEF Loaded, ReadIndex
<1>3. Ordered(<<>>, saved)
  BY DEF Ordered
<1>4. Ordered(Loaded(a), saved)
  BY <1>1, <1>2, <1>3 DEF ListsOrdered
<1>5. Loaded(a) \in Seq(EntryType)
  BY <1>1, <1>4 DEF Ordered, AuditTyped
<1>6. memory[a].entries \in Lists /\ index.entries \in Lists
  BY DEF Lists
<1> QED
  BY <1>1, <1>2, <1>4, <1>5, <1>6 DEF ListsOrdered, Loaded

\* The members of a list were saved.
LEMMA MembersAreSaved ==
    ASSUME NEW s, Ordered(s, saved), NEW e \in ToSet(s)
    PROVE  e \in saved /\ e \in Given
BY MembersHavePlaces DEF Ordered, Given

\* A saving that ends leaves the results that have a number.
LEMMA SavingEnds ==
    ASSUME AuditInv, NEW a \in Savers, saving' = [saving EXCEPT ![a] = NotSaving], saved' = saved \cup {Entry(a)},
           second' = second
    PROVE  Given' = Given /\ AuditsNumbered' /\ Savers' = Savers \ {a} /\ \A b \in Savers' : Entry(b)' = Entry(b)
<1>1. AuditTyped /\ AuditsNumbered /\ a \in Auditors
  BY DEF AuditInv, Savers
<1>2. \A b \in Auditors : saving'[b] = IF b = a THEN NotSaving ELSE saving[b]
  BY <1>1 DEF AuditTyped
<1>3. Savers' = Savers \ {a}
  BY <1>1, <1>2 DEF Savers, NotSaving
<1>4. \A b \in Savers' : Entry(b)' = Entry(b)
  BY <1>2, <1>3 DEF Entry, Savers
<1>5. Given' = Given
  <2>1. Given' = saved \cup {Entry(a)} \cup {Entry(b)' : b \in Savers \ {a}}
    BY <1>3 DEF Given
  <2>2. {Entry(b)' : b \in Savers \ {a}} = {Entry(b) : b \in Savers \ {a}}
    BY <1>3, <1>4
  <2> QED
    BY <2>1, <2>2 DEF Given
<1>6. NextResult' = NextResult
  <2>1. Cardinality(saved') = Cardinality(saved) + 1
    BY <1>1, FS_AddElement DEF AuditsNumbered, AuditTyped
  <2>2. Cardinality(Savers') = Cardinality(Savers) - 1
    BY <1>3, SaversAreFinite, FS_RemoveElement
  <2>3. NextResult' = 1 + Cardinality(saved') + Cardinality(Savers')
    BY DEF NextResult, Savers
  <2>4. Cardinality(saved) \in Nat /\ Cardinality(Savers) \in Nat
    BY <1>1, SaversAreFinite, FS_CardinalityType DEF AuditTyped
  <2> QED
    BY <1>1, <2>1, <2>2, <2>3, <2>4, NumbersGiven
<1>7. \A b \in Savers' : Entry(b)' \notin saved' /\ \A c \in Savers' : Entry(b)' = Entry(c)' => b = c
  BY <1>1, <1>3, <1>4 DEF AuditsNumbered
<1>8. AuditsNumbered'
  BY <1>1, <1>5, <1>6, <1>7 DEF AuditsNumbered
<1> QED
  BY <1>3, <1>4, <1>5, <1>8

\* And what leaves the savings alone.
LEMMA SavingsStay ==
    ASSUME AuditInv, saving' = saving, saved' = saved, second' >= second, second' \in Nat
    PROVE  Given' = Given /\ AuditsNumbered' /\ Savers' = Savers /\ \A b \in Savers : Entry(b)' = Entry(b)
<1>1. AuditTyped /\ AuditsNumbered
  BY DEF AuditInv
<1>2. Savers' = Savers /\ \A b : Entry(b)' = Entry(b)
  BY DEF Savers, Entry
<1>3. Given' = Given /\ NextResult' = NextResult
  BY <1>2 DEF Given, NextResult
<1>4. \A e \in Given : e \in EntryType
  BY <1>1, SaverIsTyped DEF Given, AuditTyped
<1>5. \A e \in Given : e.name[2] \in Nat /\ second \in Nat
  BY <1>1, <1>4, AuditAssumption DEF EntryType, Names, AuditTyped
<1>6. \A e \in Given : e.name[2] <= second'
  BY <1>1, <1>5 DEF AuditsNumbered
<1> QED
  BY <1>1, <1>2, <1>3, <1>6 DEF AuditsNumbered

\* A second that passes keeps the audits.
LEMMA TickKeeps ==
    ASSUME AuditInv, Tick1
    PROVE  AuditInv'
<1>1. /\ second' = second + 1 /\ second < MaxSeconds
      /\ UNCHANGED <<disk, index, memory, saving, saved, deleted, stale, failures>>
  BY DEF Tick1
<1>2. AuditTyped /\ ListsOrdered /\ DiskHolds /\ TornIsTold /\ LiveIsListed /\ NoGaps
  BY DEF AuditInv
<1>3. second' \in 1..MaxSeconds /\ second' >= second
  BY <1>1, <1>2, AuditAssumption DEF AuditTyped
<1>4. Given' = Given /\ AuditsNumbered' /\ Savers' = Savers /\ \A b \in Savers : Entry(b)' = Entry(b)
  BY <1>1, <1>3, SavingsStay
<1>5. AuditTyped'
  BY <1>1, <1>2, <1>3 DEF AuditTyped
<1>6. ListsOrdered' /\ TornIsTold'
  BY <1>1, <1>2, <1>4 DEF ListsOrdered, TornIsTold
<1>7. DiskHolds' /\ LiveIsListed'
  BY <1>1, <1>2, <1>4 DEF DiskHolds, LiveIsListed, Live
<1>8. Lists' = Lists
  <2>1. {Append(memory'[a].entries, Entry(a)') : a \in Savers'} = {Append(memory[a].entries, Entry(a)) : a \in Savers}
    BY <1>1, <1>4
  <2> QED
    BY <1>1, <2>1 DEF Lists
<1>9. NoGaps'
  BY <1>1, <1>2, <1>8 DEF NoGaps, Live
<1> QED
  BY <1>4, <1>5, <1>6, <1>7, <1>9 DEF AuditInv

\* A result that is written to a file has the next number.
LEMMA NumberIsNext ==
    ASSUME AuditInv, NEW a \in Auditors \ Savers, NEW task \in AuditTasks,
           saving' = [saving EXCEPT ![a] = [at |-> "index", task |-> task, result |-> NextResult, name |-> <<task, second>>]],
           saved' = saved, second' = second
    PROVE  LET new == [task |-> task, result |-> NextResult, name |-> <<task, second>>] IN
           /\ new \in EntryType /\ Entry(a)' = new /\ Given' = Given \cup {new} /\ Savers' = Savers \cup {a} /\ AuditsNumbered'
           /\ \A b \in Savers : Entry(b)' = Entry(b) /\ saving'[b] = saving[b]
           /\ \A e \in Given : e.result < NextResult
<1> DEFINE new == [task |-> task, result |-> NextResult, name |-> <<task, second>>]
<1>1. AuditTyped /\ AuditsNumbered
  BY DEF AuditInv
<1>2. NextResult \in Nat \ {0} /\ second \in 1..MaxSeconds /\ second \in Nat /\ second <= second
  BY <1>1, NumbersGiven, AuditAssumption DEF AuditTyped
<1>3. new \in EntryType
  BY <1>2 DEF EntryType, Names
<1>4. \A b \in Auditors : saving'[b] = IF b = a THEN [at |-> "index", task |-> task, result |-> NextResult, name |-> <<task, second>>]
                                       ELSE saving[b]
  BY <1>1 DEF AuditTyped
<1>5. Savers' = Savers \cup {a}
  BY <1>4 DEF Savers
<1>6. Entry(a)' = new
  BY <1>4 DEF Entry
<1>7. \A b \in Savers : Entry(b)' = Entry(b) /\ saving'[b] = saving[b]
  BY <1>4 DEF Entry, Savers
<1>8. Given' = Given \cup {new}
  <2>1. {Entry(b)' : b \in Savers'} = {Entry(b) : b \in Savers} \cup {new}
    <3> HIDE DEF new
    <3> QED
      BY <1>5, <1>6, <1>7
  <2> QED
    BY <2>1 DEF Given
<1>9. NextResult' = NextResult + 1
  <2>1. Cardinality(Savers') = Cardinality(Savers) + 1
    BY <1>5, SaversAreFinite, FS_AddElement
  <2>2. NextResult' = 1 + Cardinality(saved) + Cardinality(Savers')
    BY DEF NextResult, Savers
  <2>3. Cardinality(saved) \in Nat /\ Cardinality(Savers) \in Nat
    BY <1>1, SaversAreFinite, FS_CardinalityType DEF AuditTyped
  <2> QED
    BY <1>1, <2>1, <2>2, <2>3, NumbersGiven
<1>10. \A e \in Given : e \in EntryType /\ e.result < NextResult /\ e.result \in Nat /\ e.name[2] <= second /\ e.name[1] = e.task
  <2>1. \A e \in Given : e \in EntryType
    BY <1>1, SaverIsTyped DEF Given, AuditTyped
  <2> QED
    BY <1>1, <2>1 DEF AuditsNumbered, EntryType
<1>11. new.result = NextResult /\ new.name[2] = second /\ new.name[1] = new.task
  OBVIOUS
<1> HIDE DEF new
<1>12. new \notin Given
  BY <1>2, <1>10, <1>11
<1>13. \A e \in Given' : e.result < NextResult' /\ e.name[1] = e.task /\ e.name[2] <= second'
  BY <1>2, <1>8, <1>9, <1>10, <1>11
<1>14. \A e, f \in Given' : (e.result = f.result => e = f) /\ (e.result < f.result => e.name[2] <= f.name[2])
  <2> SUFFICES ASSUME NEW e \in Given', NEW f \in Given'
               PROVE  (e.result = f.result => e = f) /\ (e.result < f.result => e.name[2] <= f.name[2])
    OBVIOUS
  <2>1. CASE e \in Given /\ f \in Given
    BY <1>1, <2>1 DEF AuditsNumbered
  <2>2. CASE e = new /\ f = new
    BY <1>2, <1>11, <2>2
  <2>3. CASE e = new /\ f \in Given
    BY <1>2, <1>10, <1>11, <2>3
  <2>4. CASE e \in Given /\ f = new
    BY <1>2, <1>10, <1>11, <2>4
  <2> QED
    BY <1>8, <2>1, <2>2, <2>3, <2>4
<1>15. \A b \in Savers' : Entry(b)' \notin saved' /\ \A c \in Savers' : Entry(b)' = Entry(c)' => b = c
  <2>1. \A b \in Savers : Entry(b) \in Given
    BY DEF Given
  <2>2. saved \subseteq Given
    BY DEF Given
  <2> QED
    BY <1>1, <1>5, <1>6, <1>7, <1>12, <2>1, <2>2 DEF AuditsNumbered
<1>16. AuditsNumbered'
  BY <1>13, <1>14, <1>15 DEF AuditsNumbered
<1> QED
  BY <1>3, <1>5, <1>6, <1>7, <1>8, <1>10, <1>16 DEF new

\* A file that is saved keeps the others.
LEMMA SaveFileKeeps ==
    ASSUME AuditInv, NEW a \in Auditors, NEW task \in AuditTasks, SaveFile(a, task)
    PROVE  AuditInv'
<1> DEFINE new == [task |-> task, result |-> NextResult, name |-> <<task, second>>]
<1>1. /\ saving[a].at = "idle" /\ memory' = [memory EXCEPT ![a] = [loaded |-> TRUE, entries |-> Loaded(a)]]
      /\ disk' = [disk EXCEPT ![<<task, second>>] = NextResult]
      /\ saving' = [saving EXCEPT ![a] = [at |-> "index", task |-> task, result |-> NextResult, name |-> <<task, second>>]]
      /\ deleted' = deleted \cup ({disk[<<task, second>>]} \ {0})
      /\ UNCHANGED <<second, index, saved, stale, failures>>
  BY DEF SaveFile
<1>2. AuditTyped /\ AuditsNumbered /\ ListsOrdered /\ DiskHolds /\ TornIsTold /\ LiveIsListed /\ NoGaps
  BY DEF AuditInv
<1>3. a \in Auditors \ Savers
  BY <1>1 DEF Savers
<1>4. /\ new \in EntryType /\ Entry(a)' = new /\ Given' = Given \cup {new} /\ Savers' = Savers \cup {a} /\ AuditsNumbered'
      /\ \A b \in Savers : Entry(b)' = Entry(b) /\ saving'[b] = saving[b]
      /\ \A e \in Given : e.result < NextResult
  BY <1>1, <1>3, NumberIsNext
<1>5. /\ new.result = NextResult /\ new.name = <<task, second>> /\ new.task = task
      /\ NextResult \in Nat \ {0} /\ <<task, second>> \in Names
  BY <1>2, NumbersGiven DEF Names, AuditTyped
<1>6. /\ Ordered(Loaded(a), saved) /\ Loaded(a) \in Seq(EntryType)
      /\ Loaded(a) \in Lists \/ Loaded(a) = <<>>
  BY LoadedIsListed
<1>7. \A b \in Auditors : memory'[b] = IF b = a THEN [loaded |-> TRUE, entries |-> Loaded(a)] ELSE memory[b]
  BY <1>1, <1>2 DEF AuditTyped
<1>8. disk' \in [Names -> Nat] /\ \A n \in Names : disk'[n] = IF n = new.name THEN NextResult ELSE disk[n]
  BY <1>1, <1>2, <1>5 DEF AuditTyped
<1>9. AuditTyped'
  <2>1. memory' \in [Auditors -> [loaded : BOOLEAN, entries : Seq(EntryType)]]
    BY <1>1, <1>2, <1>6 DEF AuditTyped
  <2>2. [at |-> "index", task |-> task, result |-> NextResult, name |-> <<task, second>>] \in SavingType
    BY <1>5 DEF SavingType
  <2>3. saving' \in [Auditors -> {NotSaving} \cup SavingType]
    BY <1>1, <1>2, <2>2 DEF AuditTyped
  <2> QED
    BY <1>1, <1>2, <1>8, <2>1, <2>3 DEF AuditTyped
<1>10. ListsOrdered'
  <2>1. ASSUME NEW b \in Auditors
        PROVE  Ordered(memory'[b].entries, saved')
    BY <1>1, <1>2, <1>6, <1>7 DEF ListsOrdered
  <2>2. saving'[a].result = NextResult
    BY <1>1, <1>2 DEF AuditTyped
  <2>3. ASSUME NEW b \in Savers'
        PROVE  memory'[b].loaded /\ \A e \in ToSet(memory'[b].entries) : e.result < saving'[b].result
    <3>1. CASE b = a
      <4>1. memory'[b].loaded /\ memory'[b].entries = Loaded(a)
        BY <1>7, <3>1
      <4> QED
        BY <1>4, <1>6, <2>2, <3>1, <4>1, MembersAreSaved
    <3>2. CASE b # a
      <4>1. b \in Savers /\ b \in Auditors /\ memory'[b] = memory[b] /\ saving'[b] = saving[b]
        BY <1>4, <1>7, <3>2 DEF Savers
      <4> QED
        BY <1>2, <4>1 DEF ListsOrdered
    <3> QED
      BY <3>1, <3>2
  <2> QED
    BY <1>1, <1>2, <2>1, <2>3 DEF ListsOrdered
<1>11. \A e \in Given : e \in EntryType /\ e.name \in Names /\ e.result # 0
  BY <1>2, SaverIsTyped, ZenonT(30) DEF Given, AuditTyped, EntryType
<1>12. \A e : Live(e)' => Live(e)
  BY <1>1 DEF Live
<1> HIDE DEF new
<1>13. DiskHolds'
  <2>1. ASSUME NEW n \in Names, disk'[n] # 0
        PROVE  \E e \in Given' : e.name = n /\ e.result = disk'[n]
    <3>1. CASE n = new.name
      BY <1>4, <1>5, <1>8, <3>1
    <3>2. CASE n # new.name
      BY <1>2, <1>4, <1>8, <2>1, <3>2 DEF DiskHolds
    <3> QED
      BY <3>1, <3>2
  <2>2. ASSUME NEW e \in Given', Live(e)'
        PROVE  disk'[e.name] = e.result
    <3>1. CASE e = new
      BY <1>5, <1>8, <3>1
    <3>2. CASE e \in Given
      <4>1. disk[e.name] = e.result /\ e.result # 0 /\ e.name \in Names
        BY <1>2, <1>11, <1>12, <2>2, <3>2 DEF DiskHolds
      <4>2. e.name # new.name
        BY <1>1, <1>5, <2>2, <4>1 DEF Live
      <4> QED
        BY <1>8, <4>1, <4>2
    <3> QED
      BY <1>4, <3>1, <3>2
  <2> QED
    BY <2>1, <2>2 DEF DiskHolds
<1>14. TornIsTold' /\ LiveIsListed'
  BY <1>1, <1>2, <1>12 DEF TornIsTold, LiveIsListed
<1>15. NoGaps'
  <2> SUFFICES ASSUME ~stale, ~failures.some, NEW s \in Lists', NEW e \in ToSet(s), NEW f \in ToSet(s),
                      Live(e)', e.task = f.task, e.name[2] < f.name[2]
               PROVE  disk'[f.name] # 0
    BY <1>1 DEF NoGaps
  <2>1. \A n \in Names : disk[n] # 0 => disk'[n] # 0
    BY <1>5, <1>8
  <2>2. \A t \in Lists : \A x, y \in ToSet(t) : Live(x) /\ x.task = y.task /\ x.name[2] < y.name[2] => disk[y.name] # 0
    BY <1>2 DEF NoGaps
  <2>3. ASSUME s = Append(Loaded(a), new)
        PROVE  disk'[f.name] # 0
    <3>1. ToSet(s) = ToSet(Loaded(a)) \cup {new}
      <4>1. \A x \in ToSet(Loaded(a)) : x.result < new.result
        BY <1>4, <1>5, <1>6, MembersAreSaved
      <4>2. Ordered(Loaded(a), EntryType)
        BY <1>6 DEF Ordered
      <4> QED
        BY <1>4, <2>3, <4>1, <4>2, OneMoreAtEnd
    <3>2. \A x \in ToSet(Loaded(a)) : x \in Given
      BY <1>6, MembersAreSaved
    <3>3. CASE f = new
      BY <1>5, <1>8, <3>3
    <3>4. CASE f # new
      <4>1. f \in ToSet(Loaded(a)) /\ f \in Given
        BY <3>1, <3>2, <3>4
      <4>2. f.name[2] <= second /\ f.name[2] \in Nat /\ second \in Nat /\ new.name[2] = second
        BY <1>2, <1>5, <1>11, <4>1, AuditAssumption DEF AuditsNumbered, AuditTyped, Names
      <4>3. e # new
        BY <4>2
      <4>4. e \in ToSet(Loaded(a))
        BY <3>1, <4>3
      <4>5. Loaded(a) \in Lists
        BY <1>6, <4>4 DEF ToSet
      <4>6. disk[f.name] # 0 /\ f.name \in Names
        BY <1>11, <1>12, <2>2, <4>1, <4>4, <4>5
      <4> QED
        BY <2>1, <4>6
    <3> QED
      BY <3>3, <3>4
  <2>4. ASSUME s \in Lists
        PROVE  disk'[f.name] # 0
    <3>1. disk[f.name] # 0
      BY <1>12, <2>2, <2>4
    <3>2. f.name \in Names
      <4>1. s \in Seq(EntryType)
        <5>1. \A b \in Savers : b \in Auditors /\ Append(memory[b].entries, Entry(b)) \in Seq(EntryType)
          BY <1>2, SaverIsTyped DEF AuditTyped
        <5>2. index.entries \in Seq(EntryType) /\ \A b \in Auditors : memory[b].entries \in Seq(EntryType)
          BY <1>2 DEF AuditTyped
        <5> QED
          BY <2>4, <5>1, <5>2 DEF Lists
      <4>2. PICK i \in 1..Len(s) : s[i] = f
        BY <4>1, MembersHavePlaces
      <4>3. f \in EntryType
        BY <4>1, <4>2
      <4> QED
        BY <4>3 DEF EntryType
    <3> QED
      BY <2>1, <3>1, <3>2
  <2>5. s \in Lists \/ s = Append(Loaded(a), new) \/ s = <<>>
    <3>1. s = index.entries \/ (\E b \in Auditors : s = memory'[b].entries)
            \/ \E b \in Savers' : s = Append(memory'[b].entries, Entry(b)')
      BY <1>1 DEF Lists
    <3>2. ASSUME NEW b \in Auditors, s = memory'[b].entries
          PROVE  s \in Lists \/ s = <<>>
      <4>1. CASE b = a
        BY <1>6, <1>7, <3>2, <4>1
      <4>2. CASE b # a
        BY <1>7, <3>2, <4>2 DEF Lists
      <4> QED
        BY <4>1, <4>2
    <3>3. ASSUME NEW b \in Savers', s = Append(memory'[b].entries, Entry(b)')
          PROVE  s \in Lists \/ s = Append(Loaded(a), new)
      <4>1. CASE b = a
        BY <1>4, <1>7, <3>3, <4>1, SMTT(30)
      <4>2. CASE b # a
        <5>1. b \in Savers /\ b \in Auditors
          BY <1>4, <4>2 DEF Savers
        <5>2. s = Append(memory[b].entries, Entry(b))
          BY <1>4, <1>7, <3>3, <4>2, <5>1
        <5> QED
          BY <5>1, <5>2 DEF Lists
      <4> QED
        BY <4>1, <4>2
    <3> QED
      BY <3>1, <3>2, <3>3 DEF Lists
  <2>6. s # <<>>
    BY DEF ToSet
  <2> QED
    BY <2>3, <2>4, <2>5, <2>6
<1> QED
  BY <1>4, <1>9, <1>10, <1>13, <1>14, <1>15 DEF AuditInv

\* An index that is saved keeps the files.
LEMMA SaveIndexKeeps ==
    ASSUME AuditInv, NEW a \in Auditors, SaveIndex(a)
    PROVE  AuditInv'
<1> DEFINE entries == Append(memory[a].entries, Entry(a))
<1>1. /\ saving[a].at = "index" /\ memory' = [memory EXCEPT ![a].entries = entries]
      /\ index' = [entries |-> entries, torn |-> FALSE] /\ stale' = (stale \/ Lacks(memory[a].entries))
      /\ saving' = [saving EXCEPT ![a] = NotSaving] /\ saved' = saved \cup {Entry(a)}
      /\ UNCHANGED <<second, disk, deleted, failures>>
  BY DEF SaveIndex, Added
<1>2. AuditTyped /\ AuditsNumbered /\ ListsOrdered /\ DiskHolds /\ TornIsTold /\ LiveIsListed /\ NoGaps
  BY DEF AuditInv
<1>3. a \in Savers
  BY <1>1 DEF Savers
<1>4. Given' = Given /\ AuditsNumbered' /\ Savers' = Savers \ {a} /\ \A b \in Savers' : Entry(b)' = Entry(b)
  BY <1>1, <1>3, SavingEnds
<1>5. Entry(a) \in EntryType /\ Entry(a).result = saving[a].result
  BY <1>2, <1>3, SaverIsTyped
<1>6. Ordered(entries, saved') /\ ToSet(entries) = ToSet(memory[a].entries) \cup {Entry(a)}
  <2>1. Ordered(memory[a].entries, saved') /\ Entry(a) \in saved'
    BY <1>1, <1>2, OrderedOfMore DEF ListsOrdered
  <2>2. \A f \in ToSet(memory[a].entries) : f.result < Entry(a).result
    BY <1>2, <1>3, <1>5 DEF ListsOrdered
  <2> QED
    BY <2>1, <2>2, OneMoreAtEnd
<1>7. saved' \subseteq EntryType /\ IsFiniteSet(saved')
  BY <1>1, <1>2, <1>5, FS_AddElement DEF AuditTyped
<1>8. entries \in Seq(EntryType)
  BY <1>6, <1>7 DEF Ordered
<1> HIDE DEF entries
<1>9. \A b \in Auditors : /\ memory'[b].entries = IF b = a THEN entries ELSE memory[b].entries
                          /\ memory'[b].loaded = memory[b].loaded
  BY <1>1, <1>2 DEF AuditTyped
<1>10. AuditTyped'
  <2>1. memory' \in [Auditors -> [loaded : BOOLEAN, entries : Seq(EntryType)]]
    BY <1>1, <1>2, <1>8 DEF AuditTyped
  <2>2. saving' \in [Auditors -> {NotSaving} \cup SavingType]
    BY <1>1, <1>2 DEF AuditTyped
  <2>3. stale' \in BOOLEAN
    BY <1>1
  <2> QED
    BY <1>1, <1>2, <1>7, <1>8, <2>1, <2>2, <2>3 DEF AuditTyped
<1>11. ListsOrdered'
  <2>1. ASSUME NEW b \in Auditors
        PROVE  Ordered(memory'[b].entries, saved')
    BY <1>1, <1>2, <1>6, <1>9, OrderedOfMore DEF ListsOrdered
  <2>2. ASSUME NEW b \in Savers'
        PROVE  memory'[b].loaded /\ \A e \in ToSet(memory'[b].entries) : e.result < saving'[b].result
    <3>1. b \in Savers /\ b # a /\ b \in Auditors /\ saving'[b] = saving[b]
      BY <1>1, <1>2, <1>4 DEF Savers, AuditTyped
    <3> QED
      BY <1>2, <1>9, <3>1 DEF ListsOrdered
  <2> QED
    BY <1>1, <1>6, <2>1, <2>2 DEF ListsOrdered
<1>12. DiskHolds' /\ TornIsTold'
  BY <1>1, <1>2, <1>4 DEF DiskHolds, TornIsTold, Live
<1>13. LiveIsListed'
  <2> SUFFICES ASSUME ~stale', ~failures.torn, NEW e \in saved', Live(e)
               PROVE  e \in ToSet(entries)
    BY <1>1 DEF LiveIsListed, Live
  <2>1. ~stale /\ ~Lacks(memory[a].entries) /\ ~index.torn
    BY <1>1, <1>2 DEF TornIsTold
  <2>2. CASE e \in saved
    BY <1>2, <1>6, <2>1, <2>2 DEF LiveIsListed, Lacks
  <2> QED
    BY <1>1, <1>6, <2>2
<1>14. Lists' \subseteq Lists
  <2>1. entries \in Lists
    BY <1>3 DEF Lists, entries
  <2>2. ASSUME NEW b \in Auditors
        PROVE  memory'[b].entries \in Lists
    BY <1>9, <2>1 DEF Lists
  <2>3. ASSUME NEW b \in Savers'
        PROVE  Append(memory'[b].entries, Entry(b)') \in Lists
    <3>1. b \in Savers /\ b # a /\ b \in Auditors
      BY <1>4 DEF Savers
    <3>2. Append(memory'[b].entries, Entry(b)') = Append(memory[b].entries, Entry(b))
      BY <1>4, <1>9, <3>1
    <3> QED
      BY <3>1, <3>2 DEF Lists
  <2>4. Lists' = {entries} \cup {memory'[b].entries : b \in Auditors} \cup {Append(memory'[b].entries, Entry(b)') : b \in Savers'}
    BY <1>1 DEF Lists
  <2> QED
    BY <2>1, <2>2, <2>3, <2>4
<1>15. NoGaps'
  BY <1>1, <1>2, <1>14 DEF NoGaps, Live
<1> QED
  BY <1>4, <1>10, <1>11, <1>12, <1>13, <1>15 DEF AuditInv

\* One that fails keeps them too.
LEMMA IndexFailsKeeps ==
    ASSUME AuditInv, NEW a \in Auditors, AuditIndexFails(a)
    PROVE  AuditInv'
<1> DEFINE entries == Append(memory[a].entries, Entry(a))
<1>1. /\ saving[a].at = "index" /\ memory' = [memory EXCEPT ![a].entries = Append(@, Entry(a))]
      /\ index' \in {index, [entries |-> <<>>, torn |-> TRUE]} /\ ~failures.some
      /\ failures' = [some |-> TRUE, torn |-> index'.torn]
      /\ saving' = [saving EXCEPT ![a] = NotSaving]
      /\ deleted' = deleted \cup {saving[a].result} /\ saved' = saved \cup {Entry(a)}
      /\ UNCHANGED <<second, disk, stale>>
  BY DEF AuditIndexFails
<1>2. AuditTyped /\ AuditsNumbered /\ ListsOrdered /\ DiskHolds /\ TornIsTold /\ LiveIsListed /\ NoGaps
  BY DEF AuditInv
<1>3. a \in Savers
  BY <1>1 DEF Savers
<1>4. Given' = Given /\ AuditsNumbered' /\ Savers' = Savers \ {a} /\ \A b \in Savers' : Entry(b)' = Entry(b)
  BY <1>1, <1>3, SavingEnds
<1>5. Entry(a) \in EntryType /\ Entry(a).result = saving[a].result
  BY <1>2, <1>3, SaverIsTyped
<1>6. Ordered(entries, saved')
  <2>1. Ordered(memory[a].entries, saved') /\ Entry(a) \in saved'
    BY <1>1, <1>2, OrderedOfMore DEF ListsOrdered
  <2>2. \A f \in ToSet(memory[a].entries) : f.result < Entry(a).result
    BY <1>2, <1>3, <1>5 DEF ListsOrdered
  <2> QED
    BY <2>1, <2>2, OneMoreAtEnd
<1>7. saved' \subseteq EntryType /\ IsFiniteSet(saved')
  BY <1>1, <1>2, <1>5, FS_AddElement DEF AuditTyped
<1>8. entries \in Seq(EntryType)
  BY <1>6, <1>7 DEF Ordered
<1> HIDE DEF entries
<1>9. \A b \in Auditors : /\ memory'[b].entries = IF b = a THEN entries ELSE memory[b].entries
                          /\ memory'[b].loaded = memory[b].loaded
  BY <1>1, <1>2 DEF AuditTyped, entries
<1>10. Ordered(<<>>, saved') /\ <<>> \in Seq(EntryType)
  BY DEF Ordered
<1>11. AuditTyped'
  <2>1. memory' \in [Auditors -> [loaded : BOOLEAN, entries : Seq(EntryType)]]
    BY <1>1, <1>2, <1>8 DEF AuditTyped, entries
  <2>2. saving' \in [Auditors -> {NotSaving} \cup SavingType]
    BY <1>1, <1>2 DEF AuditTyped
  <2>3. index' \in [entries : Seq(EntryType), torn : BOOLEAN]
    <3>1. [entries |-> <<>>, torn |-> TRUE] \in [entries : Seq(EntryType), torn : BOOLEAN]
      BY <1>10
    <3> QED
      BY <1>1, <1>2, <3>1 DEF AuditTyped
  <2>4. failures' \in [some : BOOLEAN, torn : BOOLEAN]
    BY <1>1, <2>3
  <2> QED
    BY <1>1, <1>2, <1>7, <2>1, <2>2, <2>3, <2>4 DEF AuditTyped
<1>12. ListsOrdered'
  <2>1. ASSUME NEW b \in Auditors
        PROVE  Ordered(memory'[b].entries, saved')
    BY <1>1, <1>2, <1>6, <1>9, OrderedOfMore DEF ListsOrdered
  <2>2. ASSUME NEW b \in Savers'
        PROVE  memory'[b].loaded /\ \A e \in ToSet(memory'[b].entries) : e.result < saving'[b].result
    <3>1. b \in Savers /\ b # a /\ b \in Auditors /\ saving'[b] = saving[b]
      BY <1>1, <1>2, <1>4 DEF Savers, AuditTyped
    <3> QED
      BY <1>2, <1>9, <3>1 DEF ListsOrdered
  <2>3. Ordered(index'.entries, saved')
    BY <1>1, <1>2, <1>10, OrderedOfMore DEF ListsOrdered
  <2> QED
    BY <2>1, <2>2, <2>3 DEF ListsOrdered
<1>13. DiskHolds' /\ TornIsTold'
  BY <1>1, <1>2, <1>4 DEF DiskHolds, TornIsTold, Live
<1>14. LiveIsListed'
  <2> SUFFICES ASSUME ~stale, ~failures'.torn, NEW e \in saved', Live(e)'
               PROVE  e \in ToSet(index'.entries)
    BY <1>1 DEF LiveIsListed
  <2>1. ~failures.torn /\ index' = index
    BY <1>1, <1>2 DEF TornIsTold
  <2>2. e # Entry(a) /\ Live(e)
    BY <1>1, <1>5 DEF Live
  <2> QED
    BY <1>1, <1>2, <2>1, <2>2 DEF LiveIsListed
<1>15. NoGaps'
  BY <1>1 DEF NoGaps
<1> QED
  BY <1>4, <1>11, <1>12, <1>13, <1>14, <1>15 DEF AuditInv

\* A restart keeps what is on disk.
LEMMA RestartKeeps ==
    ASSUME AuditInv, NEW a \in Auditors, AuditorRestarts(a)
    PROVE  AuditInv'
<1>1. /\ memory' = [memory EXCEPT ![a] = [loaded |-> FALSE, entries |-> <<>>]]
      /\ saving' = [saving EXCEPT ![a] = NotSaving] /\ deleted' = deleted \cup ({saving[a].result} \ {0})
      /\ saved' = IF saving[a].at = "idle" THEN saved ELSE saved \cup {Entry(a)}
      /\ UNCHANGED <<second, disk, index, stale, failures>>
  BY DEF AuditorRestarts
<1>2. AuditTyped /\ AuditsNumbered /\ ListsOrdered /\ DiskHolds /\ TornIsTold /\ LiveIsListed /\ NoGaps
  BY DEF AuditInv
<1>3. /\ Given' = Given /\ AuditsNumbered' /\ Savers' = Savers \ {a} /\ \A b \in Savers' : Entry(b)' = Entry(b)
      /\ saved \subseteq saved' /\ saved' \subseteq EntryType /\ IsFiniteSet(saved')
      /\ \A e \in saved' : Live(e)' => e \in saved
  <2>1. CASE a \in Savers
    <3>1. saved' = saved \cup {Entry(a)} /\ Entry(a) \in EntryType /\ Entry(a).result = saving[a].result /\ saving[a].result # 0
      BY <1>1, <1>2, <2>1, SaverIsTyped DEF Savers, SavingType
    <3>2. Given' = Given /\ AuditsNumbered' /\ Savers' = Savers \ {a} /\ \A b \in Savers' : Entry(b)' = Entry(b)
      BY <1>1, <2>1, <3>1, SavingEnds
    <3>3. \A e \in saved' : Live(e)' => e \in saved
      BY <1>1, <3>1 DEF Live
    <3>4. saved' \subseteq EntryType /\ IsFiniteSet(saved') /\ saved \subseteq saved'
      BY <1>2, <3>1, FS_AddElement DEF AuditTyped
    <3> QED
      BY <3>2, <3>3, <3>4
  <2>2. CASE a \notin Savers
    <3>1. saved' = saved /\ saving[a] = NotSaving
      BY <1>1, <1>2, <2>2 DEF Savers, AuditTyped, SavingType
    <3>2. saving' = saving
      BY <1>1, <1>2, <3>1 DEF AuditTyped
    <3>3. second' >= second /\ second' \in Nat
      BY <1>1, <1>2, AuditAssumption DEF AuditTyped
    <3>4. Given' = Given /\ AuditsNumbered' /\ Savers' = Savers /\ \A b \in Savers : Entry(b)' = Entry(b)
      BY <3>1, <3>2, <3>3, SavingsStay
    <3> QED
      BY <1>2, <2>2, <3>1, <3>4 DEF AuditTyped
  <2> QED
    BY <2>1, <2>2
<1>4. \A b \in Auditors : memory'[b] = IF b = a THEN [loaded |-> FALSE, entries |-> <<>>] ELSE memory[b]
  BY <1>1, <1>2 DEF AuditTyped
<1>5. Ordered(<<>>, saved') /\ <<>> \in Seq(EntryType) /\ ToSet(<<>>) = {}
  BY DEF Ordered, ToSet
<1>6. AuditTyped'
  <2>1. memory' \in [Auditors -> [loaded : BOOLEAN, entries : Seq(EntryType)]]
    BY <1>1, <1>2, <1>5 DEF AuditTyped
  <2>2. saving' \in [Auditors -> {NotSaving} \cup SavingType]
    BY <1>1, <1>2 DEF AuditTyped
  <2> QED
    BY <1>1, <1>2, <1>3, <2>1, <2>2 DEF AuditTyped
<1>7. ListsOrdered'
  <2>1. ASSUME NEW b \in Auditors
        PROVE  Ordered(memory'[b].entries, saved')
    BY <1>2, <1>3, <1>4, <1>5, OrderedOfMore DEF ListsOrdered
  <2>2. ASSUME NEW b \in Savers'
        PROVE  memory'[b].loaded /\ \A e \in ToSet(memory'[b].entries) : e.result < saving'[b].result
    <3>1. b \in Savers /\ b # a /\ b \in Auditors /\ saving'[b] = saving[b]
      BY <1>1, <1>2, <1>3 DEF Savers, AuditTyped
    <3> QED
      BY <1>2, <1>4, <3>1 DEF ListsOrdered
  <2>3. Ordered(index'.entries, saved')
    BY <1>1, <1>2, <1>3, OrderedOfMore DEF ListsOrdered
  <2> QED
    BY <2>1, <2>2, <2>3 DEF ListsOrdered
<1>8. \A e : Live(e)' => Live(e)
  BY <1>1 DEF Live
<1>9. DiskHolds' /\ TornIsTold'
  BY <1>1, <1>2, <1>3, <1>8 DEF DiskHolds, TornIsTold
<1>10. LiveIsListed'
  BY <1>1, <1>2, <1>3, <1>8 DEF LiveIsListed
<1>11. \A s \in Lists' : s \in Lists \/ s = <<>>
  <2>1. ASSUME NEW b \in Auditors
        PROVE  memory'[b].entries \in Lists \/ memory'[b].entries = <<>>
    BY <1>4 DEF Lists
  <2>2. ASSUME NEW b \in Savers'
        PROVE  Append(memory'[b].entries, Entry(b)') \in Lists
    <3>1. b \in Savers /\ b # a /\ b \in Auditors
      BY <1>3 DEF Savers
    <3>2. Append(memory'[b].entries, Entry(b)') = Append(memory[b].entries, Entry(b))
      BY <1>3, <1>4, <3>1
    <3> QED
      BY <3>1, <3>2 DEF Lists
  <2>3. Lists' = {index.entries} \cup {memory'[b].entries : b \in Auditors} \cup {Append(memory'[b].entries, Entry(b)') : b \in Savers'}
    BY <1>1 DEF Lists
  <2>4. index.entries \in Lists
    BY DEF Lists
  <2> QED
    BY <2>1, <2>2, <2>3, <2>4
<1>12. NoGaps'
  BY <1>1, <1>2, <1>5, <1>8, <1>11 DEF NoGaps
<1> QED
  BY <1>3, <1>6, <1>7, <1>9, <1>10, <1>12 DEF AuditInv

\* A file that is deleted takes nothing else with it.
LEMMA DeleteKeeps ==
    ASSUME AuditInv, NEW a \in Auditors, NEW task \in AuditTasks, DeleteAudit(a, task)
    PROVE  AuditInv'
<1> DEFINE k == FirstOf(Loaded(a), task)
           entry == Loaded(a)[k]
           entries == WithoutFirst(Loaded(a), task)
<1>1. /\ saving[a].at = "idle" /\ k # 0 /\ disk' = [disk EXCEPT ![entry.name] = 0]
      /\ memory' = [memory EXCEPT ![a] = [loaded |-> TRUE, entries |-> entries]]
      /\ index' = [entries |-> entries, torn |-> FALSE]
      /\ deleted' = deleted \cup ({entry.result, disk[entry.name]} \ {0})
      /\ stale' = (stale \/ Lacks(Loaded(a)))
      /\ UNCHANGED <<second, saving, saved, failures>>
  BY DEF DeleteAudit
<1>2. AuditTyped /\ AuditsNumbered /\ ListsOrdered /\ DiskHolds /\ TornIsTold /\ LiveIsListed /\ NoGaps
  BY DEF AuditInv
<1>3. /\ Ordered(Loaded(a), saved) /\ Loaded(a) \in Seq(EntryType)
      /\ Loaded(a) \in Lists \/ Loaded(a) = <<>>
  BY LoadedIsListed
<1>4. k \in 1..Len(Loaded(a)) /\ entry.task = task /\ \A j \in 1..Len(Loaded(a)) : Loaded(a)[j].task = task => k <= j
  BY <1>1, <1>3, FirstOfTask
<1>5. /\ entry \in ToSet(Loaded(a)) /\ entry \in EntryType /\ entry \in saved /\ entry \in Given
  BY <1>3, <1>4, MembersHavePlaces, MembersAreSaved
<1>6. /\ Ordered(entries, saved) /\ ToSet(entries) \subseteq ToSet(Loaded(a))
      /\ \A e \in ToSet(Loaded(a)) : e # entry => e \in ToSet(entries)
  BY <1>3, <1>4, RemovedAt DEF WithoutFirst
<1>7. \A e \in ToSet(Loaded(a)) : e.task = task => entry.name[2] <= e.name[2]
  <2> SUFFICES ASSUME NEW e \in ToSet(Loaded(a)), e.task = task
               PROVE  entry.name[2] <= e.name[2]
    OBVIOUS
  <2>1. PICK j \in 1..Len(Loaded(a)) : Loaded(a)[j] = e
    BY <1>3, MembersHavePlaces
  <2>2. k <= j
    BY <1>4, <2>1
  <2>3. CASE k = j
    <3>1. e = entry /\ entry.name[2] \in Nat
      BY <1>5, <2>1, <2>3, AuditAssumption DEF EntryType, Names
    <3> QED
      BY <3>1
  <2>4. CASE k < j
    <3>1. entry.result < e.result /\ e \in Given
      BY <1>3, <1>4, <2>1, <2>4, MembersAreSaved DEF Ordered
    <3> QED
      BY <1>2, <1>5, <3>1 DEF AuditsNumbered
  <2> QED
    BY <1>4, <2>2, <2>3, <2>4
<1>8. entries \in Seq(EntryType)
  BY <1>2, <1>6 DEF Ordered, AuditTyped
<1>9. entry.name \in Names /\ entry.result # 0
  BY <1>5 DEF EntryType
<1> HIDE DEF entry, entries, k
<1>10. \A n \in Names : disk'[n] = IF n = entry.name THEN 0 ELSE disk[n]
  BY <1>1, <1>2 DEF AuditTyped
<1>11. Given' = Given /\ AuditsNumbered' /\ Savers' = Savers /\ \A b \in Savers : Entry(b)' = Entry(b)
  <2>1. second' >= second /\ second' \in Nat
    BY <1>1, <1>2, AuditAssumption DEF AuditTyped
  <2> QED
    BY <1>1, <2>1, SavingsStay
<1>12. \A b \in Auditors : memory'[b] = IF b = a THEN [loaded |-> TRUE, entries |-> entries] ELSE memory[b]
  BY <1>1, <1>2 DEF AuditTyped
<1>13. AuditTyped'
  <2>1. memory' \in [Auditors -> [loaded : BOOLEAN, entries : Seq(EntryType)]]
    BY <1>1, <1>2, <1>8 DEF AuditTyped
  <2>2. disk' \in [Names -> Nat]
    BY <1>1, <1>2, <1>9 DEF AuditTyped
  <2>3. stale' \in BOOLEAN /\ index' \in [entries : Seq(EntryType), torn : BOOLEAN]
    BY <1>1, <1>8
  <2> QED
    BY <1>1, <1>2, <2>1, <2>2, <2>3 DEF AuditTyped
<1>14. ListsOrdered'
  <2>1. ASSUME NEW b \in Auditors
        PROVE  Ordered(memory'[b].entries, saved')
    BY <1>1, <1>2, <1>6, <1>12 DEF ListsOrdered
  <2>2. ASSUME NEW b \in Savers'
        PROVE  memory'[b].loaded /\ \A e \in ToSet(memory'[b].entries) : e.result < saving'[b].result
    <3>1. b \in Savers /\ b # a /\ b \in Auditors
      BY <1>1, <1>11 DEF Savers
    <3> QED
      BY <1>1, <1>2, <1>12, <3>1 DEF ListsOrdered
  <2>3. Ordered(index'.entries, saved')
    BY <1>1, <1>6
  <2> QED
    BY <2>1, <2>2, <2>3 DEF ListsOrdered
<1>15. \A e : Live(e)' => Live(e)
  BY <1>1 DEF Live
<1>16. DiskHolds'
  <2>1. ASSUME NEW n \in Names, disk'[n] # 0
        PROVE  \E e \in Given' : e.name = n /\ e.result = disk'[n]
    BY <1>2, <1>10, <1>11, <2>1 DEF DiskHolds
  <2>2. ASSUME NEW e \in Given', Live(e)'
        PROVE  disk'[e.name] = e.result
    <3>1. e \in EntryType
      BY <1>2, <1>11, SaverIsTyped DEF Given, AuditTyped
    <3>2. disk[e.name] = e.result /\ e.result # 0 /\ e.name \in Names
      BY <1>2, <1>11, <1>15, <2>2, <3>1 DEF DiskHolds, EntryType
    <3>3. e.name # entry.name
      BY <1>1, <2>2, <3>2 DEF Live
    <3> QED
      BY <1>10, <3>2, <3>3
  <2> QED
    BY <2>1, <2>2 DEF DiskHolds
<1>17. TornIsTold'
  BY <1>1, <1>2 DEF TornIsTold
\* What is still there is in the list that is written.
<1>18. ASSUME ~stale', ~failures.torn, NEW e \in saved, Live(e)
       PROVE  e \in ToSet(Loaded(a))
  <2>1. ~stale /\ ~Lacks(Loaded(a)) /\ ~index.torn
    BY <1>1, <1>2, <1>18 DEF TornIsTold
  <2> QED
    BY <1>2, <1>18, <2>1 DEF LiveIsListed, Lacks
<1>19. LiveIsListed'
  <2> SUFFICES ASSUME ~stale', ~failures.torn, NEW e \in saved, Live(e)'
               PROVE  e \in ToSet(entries)
    BY <1>1 DEF LiveIsListed
  <2>1. e # entry
    BY <1>1, <1>9 DEF Live
  <2> QED
    BY <1>6, <1>15, <1>18, <2>1
<1>20. \A s \in Lists' : s \in Lists \/ ToSet(s) \subseteq ToSet(Loaded(a))
  <2>1. ASSUME NEW b \in Auditors
        PROVE  memory'[b].entries \in Lists \/ memory'[b].entries = entries
    BY <1>12 DEF Lists
  <2>2. ASSUME NEW b \in Savers'
        PROVE  Append(memory'[b].entries, Entry(b)') \in Lists
    <3>1. b \in Savers /\ b # a /\ b \in Auditors
      BY <1>1, <1>11 DEF Savers
    <3>2. Append(memory'[b].entries, Entry(b)') = Append(memory[b].entries, Entry(b))
      BY <1>11, <1>12, <3>1
    <3> QED
      BY <3>1, <3>2 DEF Lists
  <2>3. Lists' = {entries} \cup {memory'[b].entries : b \in Auditors} \cup {Append(memory'[b].entries, Entry(b)') : b \in Savers'}
    BY <1>1 DEF Lists
  <2> QED
    BY <1>6, <2>1, <2>2, <2>3
<1>21. NoGaps'
  <2> SUFFICES ASSUME ~stale', ~failures.some, NEW s \in Lists', NEW e \in ToSet(s), NEW f \in ToSet(s),
                      Live(e)', e.task = f.task, e.name[2] < f.name[2]
               PROVE  disk'[f.name] # 0
    BY <1>1 DEF NoGaps
  <2>1. PICK t \in Lists : e \in ToSet(t) /\ f \in ToSet(t)
    <3>1. CASE s \in Lists
      BY <3>1
    <3>2. CASE ToSet(s) \subseteq ToSet(Loaded(a))
      <4>1. ToSet(<<>>) = {}
        BY DEF ToSet
      <4>2. e \in ToSet(Loaded(a)) /\ f \in ToSet(Loaded(a))
        BY <3>2
      <4>3. Loaded(a) \in Lists
        BY <1>3, <4>1, <4>2
      <4> QED
        BY <4>2, <4>3
    <3> QED
      BY <1>20, <3>1, <3>2
  <2>2. disk[f.name] # 0
    BY <1>1, <1>2, <1>15, <2>1 DEF NoGaps
  \* Either both were saved, or one is being saved and the other was before it.
  <2>3. e \in Given /\ f \in Given /\ (e \in saved \/ f.result < e.result \/ e = f)
    <3>1. CASE \E b \in Savers : t = Append(memory[b].entries, Entry(b))
      <4>1. PICK b \in Savers : t = Append(memory[b].entries, Entry(b))
        BY <3>1
      <4>2. b \in Auditors /\ Entry(b) \in Given /\ Entry(b).result = saving[b].result
        BY <1>2, SaverIsTyped DEF Given
      <4>3. Ordered(memory[b].entries, Given) /\ Entry(b) \in Given /\ \A x \in ToSet(memory[b].entries) : x.result < Entry(b).result
        BY <1>2, <4>2, OrderedOfMore DEF ListsOrdered, Given
      <4>4. ToSet(t) = ToSet(memory[b].entries) \cup {Entry(b)}
        BY <4>1, <4>3, OneMoreAtEnd
      <4>5. \A x \in ToSet(memory[b].entries) : x \in saved /\ x \in Given
        BY <1>2, <4>2, MembersAreSaved DEF ListsOrdered
      <4> QED
        BY <2>1, <4>2, <4>3, <4>4, <4>5
    <3>2. CASE t = index.entries \/ \E b \in Auditors : t = memory[b].entries
      <4>1. Ordered(t, saved)
        BY <1>2, <3>2 DEF ListsOrdered
      <4> QED
        BY <2>1, <4>1, MembersAreSaved
    <3> QED
      BY <3>1, <3>2 DEF Lists
  <2>4. e \in EntryType /\ f \in EntryType
    BY <1>2, <2>3, SaverIsTyped DEF Given, AuditTyped
  <2>5. /\ e.name[2] \in Nat /\ f.name[2] \in Nat /\ f.name \in Names /\ e.name[1] = e.task /\ f.name[1] = f.task
        /\ entry.name[1] = entry.task /\ entry.name[2] \in Nat
    BY <1>2, <1>5, <2>3, <2>4, AuditAssumption DEF AuditsNumbered, EntryType, Names
  <2>6. ~(f.result < e.result) /\ e # f
    BY <1>2, <2>3, <2>5 DEF AuditsNumbered
  <2>7. e \in saved /\ e \in ToSet(Loaded(a))
    BY <1>2, <1>15, <1>18, <2>3, <2>6 DEF TornIsTold
  <2>8. f.name # entry.name
    <3> SUFFICES ASSUME f.name = entry.name
                 PROVE  FALSE
      OBVIOUS
    <3>1. e.task = task /\ entry.name[2] = f.name[2]
      BY <1>4, <2>5 DEF entry
    <3> QED
      BY <1>7, <2>5, <2>7, <3>1
  <2> QED
    BY <1>10, <2>2, <2>5, <2>8
<1> QED
  BY <1>11, <1>13, <1>14, <1>16, <1>17, <1>19, <1>21 DEF AuditInv

\* Every step keeps the audits and their index.
LEMMA AuditStep == AuditInv /\ [AuditNext]_auditVars => AuditInv'
<1> SUFFICES ASSUME AuditInv, [AuditNext]_auditVars
             PROVE  AuditInv'
  OBVIOUS
<1>1. CASE UNCHANGED auditVars
  <2>1. AuditTyped /\ AuditsNumbered /\ ListsOrdered /\ DiskHolds /\ TornIsTold /\ LiveIsListed /\ NoGaps
    BY DEF AuditInv
  <2>2. second' = second /\ disk' = disk /\ index' = index /\ memory' = memory /\ saving' = saving /\ saved' = saved
        /\ deleted' = deleted /\ stale' = stale /\ failures' = failures
    BY <1>1 DEF auditVars
  <2>3. Savers' = Savers /\ Given' = Given /\ NextResult' = NextResult /\ Lists' = Lists
    BY <2>2 DEF Savers, Given, Entry, NextResult, Lists
  <2>4. AuditsNumbered'
    BY <2>1, <2>2, <2>3 DEF AuditsNumbered, Entry
  <2>5. AuditTyped' /\ TornIsTold' /\ LiveIsListed'
    BY <2>1, <2>2 DEF AuditTyped, TornIsTold, LiveIsListed, Live
  <2>6. ListsOrdered' /\ DiskHolds' /\ NoGaps'
    BY <2>1, <2>2, <2>3 DEF ListsOrdered, DiskHolds, NoGaps, Live
  <2> QED
    BY <2>4, <2>5, <2>6 DEF AuditInv
<1>2. CASE AuditNext
  BY <1>2, TickKeeps, SaveFileKeeps, SaveIndexKeeps, IndexFailsKeeps, RestartKeeps, DeleteKeeps DEF AuditNext
<1> QED
  BY <1>1, <1>2

\* So it is always.
LEMMA AuditAlways == AuditSpec => []AuditInv
BY AuditStart, AuditStep, PTL DEF AuditSpec

\* An audit is there until it is deleted, and what is loaded is the newest.
LEMMA AuditIsKept == AuditInv => AuditsAreKept /\ LoadedIsNewest
<1> SUFFICES ASSUME AuditInv
             PROVE  AuditsAreKept /\ LoadedIsNewest
  OBVIOUS
<1>1. AuditTyped /\ AuditsNumbered /\ ListsOrdered /\ DiskHolds /\ TornIsTold /\ LiveIsListed /\ NoGaps
  BY DEF AuditInv
<1>2. saved \subseteq Given
  BY DEF Given
<1>3. AuditsAreKept
  BY <1>1, <1>2 DEF AuditsAreKept, LiveIsListed, DiskHolds, Live
<1>4. LoadedIsNewest
  <2> SUFFICES ASSUME ~stale, ~failures.some, NEW a \in Auditors, NEW task \in AuditTasks, Loaded(a) = index.entries,
                      NEW e \in saved, e.task = task, e.result \notin deleted
               PROVE  LoadedResult(a, task) >= e.result
    BY DEF LoadedIsNewest
  <2> DEFINE s == index.entries
             last == LastOf(s, task)
             f == s[last]
  <2>1. LoadedResult(a, task) = IF last = 0 THEN 0 ELSE disk[f.name]
    BY DEF LoadedResult, LastOf
  <2>2. Ordered(s, saved) /\ s \in Seq(saved)
    BY <1>1 DEF ListsOrdered, Ordered
  <2>3. e \in ToSet(s)
    BY <1>1 DEF TornIsTold, LiveIsListed, Live
  <2>4. PICK i \in 1..Len(s) : s[i] = e
    BY <2>2, <2>3, MembersHavePlaces
  <2>5. last \in 1..Len(s) /\ f.task = task /\ i <= last
    BY <2>2, <2>4, LastOfTask
  <2>6. last # 0 /\ f \in saved /\ f \in ToSet(s)
    BY <2>2, <2>5, MembersHavePlaces
  <2>7. disk[e.name] = e.result /\ e \in Given /\ f \in Given /\ e \in EntryType /\ f \in EntryType
    BY <1>1, <1>2, <2>6 DEF DiskHolds, Live, AuditTyped
  <2>8. /\ e.result \in Nat \ {0} /\ f.name \in Names /\ e.name \in Names /\ e.name[2] \in Nat /\ f.name[2] \in Nat
        /\ e.name[1] = task /\ f.name[1] = task /\ f.result \in Nat /\ disk[f.name] \in Nat
    <3> HIDE DEF f, last, s
    <3>1. e.result \in Nat \ {0} /\ f.result \in Nat /\ f.name \in Names /\ e.name \in Names
      BY <2>7 DEF EntryType
    <3>2. e.name[2] \in Nat /\ f.name[2] \in Nat
      BY <3>1, AuditAssumption DEF Names
    <3>3. e.name[1] = task /\ f.name[1] = task
      BY <1>1, <2>5, <2>7 DEF AuditsNumbered
    <3>4. disk[f.name] \in Nat
      BY <1>1, <3>1 DEF AuditTyped
    <3> QED
      BY <3>1, <3>2, <3>3, <3>4
  <2> HIDE DEF f, last, s
  <2>9. CASE e = f
    BY <2>1, <2>6, <2>7, <2>8, <2>9
  <2>10. CASE e # f
    <3>1. e.result < f.result
      <4>1. i # last
        BY <2>4, <2>10 DEF f
      <4> QED
        BY <2>2, <2>4, <2>5, <4>1 DEF Ordered, f
    <3>2. e.name[2] <= f.name[2]
      BY <1>1, <2>7, <3>1 DEF AuditsNumbered
    <3>3. CASE e.name[2] = f.name[2]
      <4>1. e.name = f.name
        BY <2>8, <3>3 DEF Names
      <4> QED
        BY <2>1, <2>6, <2>7, <2>8, <4>1
    <3>4. CASE e.name[2] < f.name[2]
      <4>1. s \in Lists
        BY DEF Lists, s
      <4>2. disk[f.name] # 0
        BY <1>1, <2>3, <2>5, <2>6, <3>4, <4>1 DEF NoGaps, Live
      <4>3. PICK g \in Given : g.name = f.name /\ g.result = disk[f.name]
        BY <1>1, <2>8, <4>2 DEF DiskHolds
      <4>4. ~(g.result < e.result)
        BY <1>1, <2>7, <2>8, <3>4, <4>3 DEF AuditsNumbered
      <4> QED
        BY <2>1, <2>6, <2>8, <4>3, <4>4
    <3> QED
      BY <2>8, <3>2, <3>3, <3>4
  <2> QED
    BY <2>9, <2>10
<1> QED
  BY <1>3, <1>4

-----------------------------------------------------------------------------
(* When a query is explored.                                               *)

\* Bounded sequences are sequences.
LEMMA BoundedSeqIsSeq ==
    ASSUME NEW X, NEW n \in Nat, NEW s \in BoundedSeq(X, n)
    PROVE  s \in Seq(X)
<1>1. PICK m \in 0..n : s \in [1..m -> X]
  BY DEF BoundedSeq, SeqOf
<1>2. m \in Nat
  OBVIOUS
<1> QED
  BY <1>1, <1>2
----

TriggerSpec == TriggerInit /\ [][TriggerNext]_triggerVars

TriggerTyped ==
    /\ keywords \in Seq(Spellings) /\ configured \in Seq(Spellings)
    /\ askedOf \in [QueryWords -> {"none", "added", "removed"}]

\* A keyword with capitals was configured, and one stands once unless it was configured in both spellings.
SpelledAsConfigured ==
    /\ \A i \in 1..Len(keywords) : keywords[i].capital => TRUE \in Spelled(keywords[i].word)
    /\ \A i, j \in 1..Len(keywords) : keywords[i].word = keywords[j].word => i = j \/ Spelled(keywords[i].word) = BOOLEAN

AskedIsDone == \A w \in QueryWords :
    /\ askedOf[w] = "added" => Has(w)
    /\ askedOf[w] = "removed" => ~Has(w) \/ Spelled(w) = BOOLEAN

CheckedAsTold == lastCheck.fresh => ("query" \in lastCheck.reasons <=> IsComplexQuery(lastCheck.words))

TriggerInv == TriggerTyped /\ SpelledAsConfigured /\ AskedIsDone /\ CheckedAsTold

\* Before the first check nothing was asked.
LEMMA TriggerStart == TriggerInit => TriggerInv
<1> SUFFICES ASSUME TriggerInit
             PROVE  TriggerInv
  OBVIOUS
<1>1. /\ configured \in BoundedSeq(Spellings, 2) /\ IsInjective(configured) /\ keywords = configured
      /\ askedOf = [w \in QueryWords |-> "none"] /\ lastCheck = NotChecked
  BY DEF TriggerInit
<1>2. configured \in Seq(Spellings)
  BY <1>1, BoundedSeqIsSeq
<1>3. \A i \in 1..Len(configured) : /\ i \in DOMAIN configured /\ configured[i] \in Spellings
                                    /\ configured[i].capital \in Spelled(configured[i].word)
  <2>1. DOMAIN configured = 1..Len(configured) /\ \A i \in 1..Len(configured) : configured[i] \in Spellings
    BY <1>2
  <2>2. ASSUME NEW i \in 1..Len(configured)
        PROVE  configured[i].capital \in Spelled(configured[i].word)
    <3>1. i \in {n \in DOMAIN configured : configured[n].word = configured[i].word}
      BY <2>1
    <3> QED
      BY <3>1 DEF Spelled
  <2> QED
    BY <2>1, <2>2
<1>4. ASSUME NEW i \in 1..Len(configured), NEW j \in 1..Len(configured), configured[i].word = configured[j].word, i # j
      PROVE  Spelled(configured[i].word) = BOOLEAN
  <2>1. configured[i] # configured[j]
    BY <1>1, <1>3, <1>4 DEF IsInjective
  <2>2. configured[i].capital # configured[j].capital
    BY <1>3, <1>4, <2>1 DEF Spellings
  <2>3. /\ configured[i].capital \in BOOLEAN /\ configured[j].capital \in BOOLEAN
        /\ configured[i].capital \in Spelled(configured[i].word) /\ configured[j].capital \in Spelled(configured[i].word)
    BY <1>3, <1>4 DEF Spellings
  <2>4. Spelled(configured[i].word) \subseteq BOOLEAN
    <3>1. \A n \in DOMAIN configured : configured[n].capital \in BOOLEAN
      <4>1. \A n \in DOMAIN configured : configured[n] \in Spellings
        BY <1>2
      <4> QED
        BY <4>1 DEF Spellings
    <3> QED
      BY <3>1 DEF Spelled
  <2> QED
    BY <2>2, <2>3, <2>4
<1>5. SpelledAsConfigured
  <2>1. ASSUME NEW i \in 1..Len(keywords), keywords[i].capital
        PROVE  TRUE \in Spelled(keywords[i].word)
    <3>1. keywords[i].capital \in BOOLEAN /\ keywords[i].capital \in Spelled(keywords[i].word)
      BY <1>1, <1>3 DEF Spellings
    <3>2. keywords[i].capital = TRUE
      BY <2>1, <3>1
    <3> QED
      BY <3>1, <3>2
  <2> QED
    BY <1>1, <1>4, <2>1 DEF SpelledAsConfigured
<1> QED
  BY <1>1, <1>2, <1>5 DEF TriggerInv, TriggerTyped, AskedIsDone, CheckedAsTold, NotChecked

\* The place of a keyword.
LEMMA WordHasPlace ==
    ASSUME TriggerTyped, NEW w
    PROVE  Has(w) <=> \E i \in 1..Len(keywords) : keywords[i].word = w
BY DEF Has, TriggerTyped

\* The first spelling of a word is one of it.
LEMMA FirstOfWord ==
    ASSUME TriggerTyped, NEW w, Has(w)
    PROVE  LET i == SelectInSeq(keywords, LAMBDA k : k.word = w) IN i \in 1..Len(keywords) /\ keywords[i].word = w
<1> DEFINE S == {i \in 1..Len(keywords) : keywords[i].word = w}
<1>1. S # {} /\ S \subseteq Nat
  BY WordHasPlace
<1>2. \E x \in S : \A y \in S : x <= y
  <2> HIDE DEF S
  <2> QED
    BY <1>1, LeastNumber
<1>3. Min(S) \in S
  BY <1>2 DEF Min
<1>4. SelectInSeq(keywords, LAMBDA k : k.word = w) = Min(S)
  BY <1>1 DEF SelectInSeq
<1> QED
  BY <1>3, <1>4

\* A keyword that is added keeps the others.
LEMMA AddKeeps ==
    ASSUME TriggerInv, NEW w \in QueryWords, AddKeyword(w)
    PROVE  TriggerInv'
<1>1. /\ askedOf' = [askedOf EXCEPT ![w] = "added"] /\ lastCheck' = NotChecked /\ configured' = configured
      /\ keywords' = IF Has(w) THEN keywords ELSE Append(keywords, [word |-> w, capital |-> FALSE])
  BY DEF AddKeyword, AsksOf
<1>2. TriggerTyped /\ SpelledAsConfigured /\ AskedIsDone
  BY DEF TriggerInv
<1>3. \A v : Spelled(v)' = Spelled(v)
  BY <1>1 DEF Spelled
<1>4. CheckedAsTold'
  BY <1>1 DEF CheckedAsTold, NotChecked
<1>5. CASE Has(w)
  <2>1. TriggerTyped' /\ SpelledAsConfigured'
    BY <1>1, <1>2, <1>3, <1>5 DEF TriggerTyped, SpelledAsConfigured
  <2>2. AskedIsDone'
    BY <1>1, <1>2, <1>3, <1>5 DEF AskedIsDone, TriggerTyped, Has
  <2> QED
    BY <1>4, <2>1, <2>2 DEF TriggerInv
<1>6. CASE ~Has(w)
  <2> DEFINE n == Len(keywords)
             new == [word |-> w, capital |-> FALSE]
  <2>1. keywords' = Append(keywords, new) /\ keywords \in Seq(Spellings) /\ new \in Spellings /\ n \in Nat
    BY <1>1, <1>2, <1>6 DEF TriggerTyped, Spellings
  <2>2. new.word = w /\ new.capital = FALSE
    OBVIOUS
  <2> HIDE DEF new
  <2>3. /\ keywords' \in Seq(Spellings) /\ Len(keywords') = n + 1 /\ keywords'[n + 1] = new
        /\ \A i \in 1..n : keywords'[i] = keywords[i] /\ keywords[i].word # w
    BY <1>2, <1>6, <2>1, WordHasPlace
  <2> HIDE DEF n
  <2>4. TriggerTyped'
    BY <1>1, <1>2, <2>3 DEF TriggerTyped
  <2>5. \A i \in 1..(n + 1) : i \in 1..n \/ i = n + 1
    BY <2>1
  <2>6. SpelledAsConfigured'
    <3>1. ASSUME NEW i \in 1..(n + 1), keywords'[i].capital
          PROVE  TRUE \in Spelled(keywords'[i].word)
      <4>1. i \in 1..n
        BY <2>2, <2>3, <2>5, <3>1
      <4> QED
        BY <1>2, <2>3, <3>1, <4>1 DEF SpelledAsConfigured, n
    <3>2. ASSUME NEW i \in 1..(n + 1), NEW j \in 1..(n + 1), keywords'[i].word = keywords'[j].word
          PROVE  i = j \/ Spelled(keywords'[i].word) = BOOLEAN
      <4>1. CASE i \in 1..n /\ j \in 1..n
        BY <1>2, <2>3, <3>2, <4>1 DEF SpelledAsConfigured, n
      <4>2. CASE i = n + 1 /\ j = n + 1
        BY <4>2
      <4>3. ~(i = n + 1 /\ j \in 1..n) /\ ~(i \in 1..n /\ j = n + 1)
        BY <2>2, <2>3, <3>2
      <4> QED
        BY <2>5, <4>1, <4>2, <4>3
    <3> QED
      BY <1>3, <2>3, <3>1, <3>2 DEF SpelledAsConfigured
  <2>7. \A v : Has(v)' <=> Has(v) \/ v = w
    <3> TAKE v
    <3>1. Has(v)' <=> \E i \in 1..(n + 1) : keywords'[i].word = v
      BY <2>3 DEF Has
    <3>2. Has(v) <=> \E i \in 1..n : keywords[i].word = v
      BY <1>2, WordHasPlace DEF n
    <3>3. n + 1 \in 1..(n + 1) /\ \A i \in 1..n : i \in 1..(n + 1)
      BY <2>1
    <3> QED
      BY <2>2, <2>3, <2>5, <3>1, <3>2, <3>3
  <2>8. AskedIsDone'
    BY <1>1, <1>2, <1>3, <2>7 DEF AskedIsDone, TriggerTyped
  <2> QED
    BY <1>4, <2>4, <2>6, <2>8 DEF TriggerInv
<1> QED
  BY <1>5, <1>6

\* One that is removed leaves the others.
LEMMA RemoveKeeps ==
    ASSUME TriggerInv, NEW w \in QueryWords, RemoveKeyword(w)
    PROVE  TriggerInv'
<1> DEFINE k == SelectInSeq(keywords, LAMBDA x : x.word = w)
<1>1. /\ askedOf' = [askedOf EXCEPT ![w] = "removed"] /\ lastCheck' = NotChecked /\ configured' = configured
      /\ keywords' = IF Has(w) THEN RemoveAt(keywords, k) ELSE keywords
  BY DEF RemoveKeyword, AsksOf
<1>2. TriggerTyped /\ SpelledAsConfigured /\ AskedIsDone
  BY DEF TriggerInv
<1>3. \A v : Spelled(v)' = Spelled(v)
  BY <1>1 DEF Spelled
<1>4. CheckedAsTold'
  BY <1>1 DEF CheckedAsTold, NotChecked
<1>5. CASE ~Has(w)
  <2>1. TriggerTyped' /\ SpelledAsConfigured'
    BY <1>1, <1>2, <1>3, <1>5 DEF TriggerTyped, SpelledAsConfigured
  <2>2. AskedIsDone'
    BY <1>1, <1>2, <1>3, <1>5 DEF AskedIsDone, TriggerTyped, Has
  <2> QED
    BY <1>4, <2>1, <2>2 DEF TriggerInv
<1>6. CASE Has(w)
  <2> DEFINE n == Len(keywords)
  <2>1. k \in 1..n /\ keywords[k].word = w
    BY <1>2, <1>6, FirstOfWord
  <2> HIDE DEF k
  <2>2. keywords \in Seq(Spellings) /\ n \in Nat /\ k \in 1..n /\ keywords' = RemoveAt(keywords, k)
    BY <1>1, <1>2, <1>6, <2>1 DEF TriggerTyped
  <2>3. /\ keywords' \in Seq(Spellings) /\ Len(keywords') = n - 1
        /\ \A i \in 1..(n - 1) : keywords'[i] = IF i < k THEN keywords[i] ELSE keywords[i + 1]
    BY <2>2, WithoutPlace
  <2> HIDE DEF n
  <2> DEFINE Spot(i) == IF i < k THEN i ELSE i + 1
  <2>4. \A i \in 1..(n - 1) : Spot(i) \in 1..n /\ Spot(i) # k /\ keywords'[i] = keywords[Spot(i)]
    BY <2>2, <2>3
  <2>5. \A i, j \in 1..(n - 1) : Spot(i) = Spot(j) => i = j
    BY <2>2
  <2> HIDE DEF Spot
  <2>6. TriggerTyped'
    BY <1>1, <1>2, <2>3 DEF TriggerTyped
  <2>7. SpelledAsConfigured'
    <3>1. ASSUME NEW i \in 1..(n - 1), keywords'[i].capital
          PROVE  TRUE \in Spelled(keywords'[i].word)
      BY <1>2, <2>4, <3>1 DEF SpelledAsConfigured, n
    <3>2. ASSUME NEW i \in 1..(n - 1), NEW j \in 1..(n - 1), keywords'[i].word = keywords'[j].word
          PROVE  i = j \/ Spelled(keywords'[i].word) = BOOLEAN
      BY <1>2, <2>4, <2>5, <3>2 DEF SpelledAsConfigured, n
    <3> QED
      BY <1>3, <2>3, <3>1, <3>2 DEF SpelledAsConfigured
  <2>8. \A v : Has(v)' => \E i \in 1..(n - 1) : keywords[Spot(i)].word = v
    BY <2>3, <2>4 DEF Has
  <2>9. \A v : v # w /\ Has(v) => Has(v)'
    <3> SUFFICES ASSUME NEW v, v # w, Has(v)
                 PROVE  \E i \in DOMAIN keywords' : keywords'[i].word = v
      BY DEF Has
    <3>1. PICK i \in 1..n : keywords[i].word = v
      BY <1>2, WordHasPlace DEF n
    <3>2. i # k
      BY <2>1, <3>1
    <3>3. CASE i < k
      <4>1. i \in 1..(n - 1) /\ Spot(i) = i
        BY <2>2, <3>3 DEF Spot
      <4> QED
        BY <2>3, <2>4, <3>1, <4>1
    <3>4. CASE i > k
      <4>1. i - 1 \in 1..(n - 1) /\ Spot(i - 1) = i
        BY <2>2, <3>4 DEF Spot
      <4>2. keywords'[i - 1].word = v
        BY <2>4, <3>1, <4>1
      <4> QED
        BY <2>3, <4>1, <4>2
    <3> QED
      BY <2>2, <3>2, <3>3, <3>4
  <2>10. Has(w)' => Spelled(w) = BOOLEAN
    BY <1>2, <2>1, <2>4, <2>8 DEF SpelledAsConfigured, n
  <2>11. \A v : Has(v)' => Has(v)
    BY <1>2, <2>4, <2>8, WordHasPlace DEF n
  <2>12. AskedIsDone'
    BY <1>1, <1>2, <1>3, <2>9, <2>10, <2>11 DEF AskedIsDone, TriggerTyped
  <2> QED
    BY <1>4, <2>6, <2>7, <2>12 DEF TriggerInv
<1> QED
  BY <1>5, <1>6

\* A check changes nothing.
LEMMA TriggerStays ==
    ASSUME TriggerTyped, SpelledAsConfigured, AskedIsDone, UNCHANGED <<keywords, configured, askedOf>>
    PROVE  TriggerTyped' /\ SpelledAsConfigured' /\ AskedIsDone'
<1>1. TriggerTyped'
  BY DEF TriggerTyped
<1>2. \A v : Spelled(v)' = Spelled(v) /\ Has(v)' = Has(v)
  BY DEF Spelled, Has
<1>3. SpelledAsConfigured'
  BY <1>2 DEF SpelledAsConfigured
<1>4. AskedIsDone'
  BY <1>2 DEF AskedIsDone
<1> QED
  BY <1>1, <1>3, <1>4

\* Every step keeps what the keywords owe to the construction and to the calls.
LEMMA TriggerStep == TriggerInv /\ [TriggerNext]_triggerVars => TriggerInv'
<1> SUFFICES ASSUME TriggerInv, [TriggerNext]_triggerVars
             PROVE  TriggerInv'
  OBVIOUS
<1>1. TriggerTyped /\ SpelledAsConfigured /\ AskedIsDone /\ CheckedAsTold
  BY DEF TriggerInv
<1>2. ASSUME NEW over \in SUBSET Measures, NEW debugger \in BOOLEAN, NEW words \in SUBSET QueryWords,
             Process(over, debugger, words)
      PROVE  TriggerInv'
  <2>1. /\ lastCheck'.words = words /\ lastCheck'.reasons = Reasons(over, debugger, words)
        /\ UNCHANGED <<keywords, configured, askedOf>>
    BY <1>2 DEF Process
  <2>2. "query" \in Reasons(over, debugger, words) <=> IsComplexQuery(words)
    BY DEF Reasons, Measures
  <2>3. IsComplexQuery(words)' <=> IsComplexQuery(words)
    BY <2>1 DEF IsComplexQuery
  <2>4. CheckedAsTold'
    BY <2>1, <2>2, <2>3 DEF CheckedAsTold, IsComplexQuery
  <2>5. TriggerTyped' /\ SpelledAsConfigured' /\ AskedIsDone'
    BY <1>1, <2>1, TriggerStays
  <2> QED
    BY <2>4, <2>5 DEF TriggerInv
<1>3. CASE UNCHANGED triggerVars
  <2>1. UNCHANGED <<keywords, configured, askedOf>> /\ lastCheck' = lastCheck
    BY <1>3 DEF triggerVars
  <2>2. TriggerTyped' /\ SpelledAsConfigured' /\ AskedIsDone'
    BY <1>1, <2>1, TriggerStays
  <2>3. CheckedAsTold'
    BY <1>1, <2>1 DEF CheckedAsTold, IsComplexQuery
  <2> QED
    BY <2>2, <2>3 DEF TriggerInv
<1> QED
  BY <1>2, <1>3, AddKeeps, RemoveKeeps DEF TriggerNext

\* So it is always.
LEMMA TriggerAlways == TriggerSpec => []TriggerInv
BY TriggerStart, TriggerStep, PTL DEF TriggerSpec

\* A check heeds them.
LEMMA KeywordsAreKept == TriggerInv => KeywordsAreHeeded
<1> SUFFICES ASSUME TriggerInv, lastCheck.fresh, NEW w \in QueryWords, lastCheck.words = {w}
             PROVE  /\ askedOf[w] = "added" => "query" \in lastCheck.reasons \/ TRUE \in Spelled(w)
                    /\ askedOf[w] = "removed" => "query" \notin lastCheck.reasons \/ Spelled(w) = BOOLEAN
  BY DEF KeywordsAreHeeded
<1>1. TriggerTyped /\ SpelledAsConfigured /\ AskedIsDone /\ CheckedAsTold
  BY DEF TriggerInv
<1>2. "query" \in lastCheck.reasons <=> \E i \in 1..Len(keywords) : ~keywords[i].capital /\ keywords[i].word = w
  BY <1>1 DEF CheckedAsTold, IsComplexQuery, TriggerTyped
<1>3. Has(w) <=> \E i \in 1..Len(keywords) : keywords[i].word = w
  BY <1>1, WordHasPlace
<1> QED
  BY <1>1, <1>2, <1>3 DEF SpelledAsConfigured, AskedIsDone
=============================================================================
