---------------------------- MODULE FilterProofs ----------------------------
(***************************************************************************)
(* What a loop that filters keeps: the elements of the set, in their       *)
(* order, and nothing else, for slices of any length.  The proofs go by    *)
(* induction over the length, as the least place where they would fail.    *)
(***************************************************************************)
EXTENDS Filters, SequenceTheorems, WellFoundedInduction, TLAPS

\* A set of numbers has a least one.
LEMMA LeastNumber ==
  ASSUME NEW S \in SUBSET Nat, S # {}
  PROVE  \E x \in S : \A y \in S : x <= y
  <1>1. PICK x \in S : \A y \in S : ~ (<<y, x>> \in OpToRel(<, Nat))
    BY NatLessThanWellFounded, WFMin
  <1>2. \A y \in S : ~ (y < x)
    BY <1>1 DEF OpToRel
  <1> QED
    BY <1>2

\* Induction over 0 .. n for a set that holds 0 and with i - 1 its successor i.
LEMMA UpToInduction ==
  ASSUME NEW n \in Nat, NEW S, 0 \in S, \A i \in 1 .. n : i - 1 \in S => i \in S
  PROVE  0 .. n \subseteq S
  <1> DEFINE Out == {i \in 0 .. n : i \notin S}
  <1>1. SUFFICES ASSUME Out # {} PROVE FALSE
    OBVIOUS
  <1>2. PICK x \in Out : \A y \in Out : x <= y
    <2>1. Out \in SUBSET Nat
      OBVIOUS
    <2> HIDE DEF Out
    <2> QED
      BY <1>1, <2>1, LeastNumber
  <1>3. x \in 1 .. n /\ x - 1 \in 0 .. n
    BY <1>2
  <1>4. x - 1 \notin Out
    BY <1>2, <1>3
  <1> QED
    BY <1>2, <1>3, <1>4

\* f holds the slices of the loop after each of the first n elements.
Loop(s, T, n, f) ==
  f = [i \in 0 .. n |->
         IF i = 0 THEN <<>> ELSE IF s[i] \in T THEN Append(f[i - 1], s[i]) ELSE f[i - 1]]

\* The loop's successive slices exist, so that Kept is the last of them.
LEMMA LoopRuns ==
  ASSUME NEW S, NEW s \in Seq(S), NEW T
  PROVE  \E f : Loop(s, T, Len(s), f)
  <1> DEFINE Runs == {n \in 0 .. Len(s) : \E f : Loop(s, T, n, f)}
  <1>0. Len(s) \in Nat
    BY LenProperties
  <1>1. 0 \in Runs
    <2>1. Loop(s, T, 0, [i \in 0 .. 0 |-> <<>>])
      BY DEF Loop
    <2> QED
      BY <1>0, <2>1
  <1>2. ASSUME NEW n \in 1 .. Len(s), n - 1 \in Runs PROVE n \in Runs
    <2>1. PICK f : Loop(s, T, n - 1, f)
      BY <1>2
    <2> DEFINE g == [i \in 0 .. n |-> IF i <= n - 1 THEN f[i]
                      ELSE IF s[n] \in T THEN Append(f[n - 1], s[n]) ELSE f[n - 1]]
    <2>2. \A i \in 0 .. n : g[i] = IF i = 0 THEN <<>>
            ELSE IF s[i] \in T THEN Append(g[i - 1], s[i]) ELSE g[i - 1]
      <3>1. g[0] = <<>>
        BY <2>1 DEF Loop
      <3>2. ASSUME NEW i \in 1 .. n - 1
            PROVE  g[i] = IF s[i] \in T THEN Append(g[i - 1], s[i]) ELSE g[i - 1]
        <4>1. i \in 0 .. n - 1 /\ i # 0 /\ i - 1 <= n - 1 /\ i - 1 \in 0 .. n /\ i \in 0 .. n
          BY <1>0
        <4>2. f[i] = IF s[i] \in T THEN Append(f[i - 1], s[i]) ELSE f[i - 1]
          BY <2>1, <4>1 DEF Loop
        <4>3. g[i] = f[i] /\ g[i - 1] = f[i - 1]
          BY <4>1
        <4> QED
          BY <4>2, <4>3
      <3>3. g[n] = IF s[n] \in T THEN Append(g[n - 1], s[n]) ELSE g[n - 1]
        OBVIOUS
      <3> HIDE DEF g
      <3> QED
        BY <3>1, <3>2, <3>3
    <2>3. Loop(s, T, n, g)
      BY <2>2 DEF Loop
    <2> QED
      BY <2>3
  <1>3. 0 .. Len(s) \subseteq Runs
    <2> HIDE DEF Runs
    <2> QED
      BY <1>0, <1>1, <1>2, UpToInduction
  <1> QED
    BY <1>0, <1>3

\* Kept is what the loop has at its end.
LEMMA KeptIsLast ==
  ASSUME NEW S, NEW s \in Seq(S), NEW T
  PROVE  \E f : Loop(s, T, Len(s), f) /\ Kept(s, T) = f[Len(s)]
  <1> DEFINE f == CHOOSE g : Loop(s, T, Len(s), g)
  <1>1. Loop(s, T, Len(s), f)
    BY LoopRuns
  <1>2. Kept(s, T) = f[Len(s)]
    BY DEF Kept, Loop
  <1> QED
    BY <1>1, <1>2

\* p leads from the places of t to places of s: in order, all among the first
\* n that hold an element of T, and no other.
Selects(p, t, s, T, n) ==
  /\ p \in [1 .. Len(t) -> 1 .. n]
  /\ \A j, k \in 1 .. Len(t) : j < k => p[j] < p[k]
  /\ \A k \in 1 .. Len(t) : t[k] = s[p[k]] /\ t[k] \in T
  /\ \A i \in 1 .. n : s[i] \in T => \E k \in 1 .. Len(t) : p[k] = i

\* Kept holds the elements of s in T, in their order, each as often as s does.
LEMMA KeptSelects ==
  ASSUME NEW S, NEW s \in Seq(S), NEW T
  PROVE  Kept(s, T) \in Seq(S) /\ \E p : Selects(p, Kept(s, T), s, T, Len(s))
  <1>0. Len(s) \in Nat /\ \A i \in 1 .. Len(s) : s[i] \in S
    BY LenProperties, ElementOfSeq
  <1>1. PICK f : Loop(s, T, Len(s), f) /\ Kept(s, T) = f[Len(s)]
    BY KeptIsLast
  <1>2. f[0] = <<>> /\ \A i \in 1 .. Len(s) :
          f[i] = IF s[i] \in T THEN Append(f[i - 1], s[i]) ELSE f[i - 1]
    <2>1. \A i \in 0 .. Len(s) : f[i] = IF i = 0 THEN <<>>
            ELSE IF s[i] \in T THEN Append(f[i - 1], s[i]) ELSE f[i - 1]
      BY <1>1 DEF Loop
    <2>2. 0 \in 0 .. Len(s) /\ \A i \in 1 .. Len(s) : i \in 0 .. Len(s) /\ i # 0
      BY <1>0
    <2> QED
      BY <2>1, <2>2
  <1> DEFINE Good == {n \in 0 .. Len(s) : f[n] \in Seq(S) /\ \E p : Selects(p, f[n], s, T, n)}
  <1>3. 0 \in Good
    <2>1. Selects(<<>>, <<>>, s, T, 0)
      BY DEF Selects
    <2>2. <<>> \in Seq(S) /\ 0 \in 0 .. Len(s)
      BY <1>0, EmptySeq
    <2> QED
      BY <1>2, <2>1, <2>2
  <1>4. ASSUME NEW n \in 1 .. Len(s), n - 1 \in Good PROVE n \in Good
    <2>1. PICK p : Selects(p, f[n - 1], s, T, n - 1)
      BY <1>4
    <2>2. f[n - 1] \in Seq(S) /\ n - 1 \in Nat /\ s[n] \in S /\ Len(f[n - 1]) \in Nat
      BY <1>0, <1>4, LenProperties
    <2> DEFINE t == f[n - 1]
               m == Len(t)
    <2>3. CASE s[n] \in T
      <3> DEFINE q == [k \in 1 .. m + 1 |-> IF k = m + 1 THEN n ELSE p[k]]
                 u == Append(t, s[n])
      <3>1. u \in Seq(S) /\ Len(u) = m + 1 /\ u[m + 1] = s[n] /\ \A k \in 1 .. m : u[k] = t[k]
        BY <2>2, AppendProperties
      <3>2. p \in [1 .. m -> 1 .. n - 1]
        BY <2>1 DEF Selects
      <3>9. m \in Nat
        BY <2>2
      <3> HIDE DEF m, t, u
      <3>3. q \in [1 .. m + 1 -> 1 .. n] /\ q[m + 1] = n /\ \A k \in 1 .. m : q[k] = p[k] /\ p[k] \in 1 .. n - 1
        BY <1>0, <3>2, <3>9
      <3> HIDE DEF q
      <3>4. \A j, k \in 1 .. m + 1 : j < k => q[j] < q[k]
        <4> SUFFICES ASSUME NEW j \in 1 .. m + 1, NEW k \in 1 .. m + 1, j < k PROVE q[j] < q[k]
          OBVIOUS
        <4>1. j \in 1 .. m /\ q[j] \in 1 .. n - 1
          BY <3>3, <3>9
        <4>2. CASE k = m + 1
          BY <1>0, <3>3, <4>1, <4>2
        <4>3. CASE k # m + 1
          <5>1. k \in 1 .. m
            BY <3>9, <4>3
          <5>2. p[j] < p[k]
            BY <2>1, <4>1, <5>1 DEF Selects, m, t
          <5> QED
            BY <3>3, <4>1, <5>1, <5>2
        <4> QED
          BY <4>2, <4>3
      <3>5. \A i \in 1 .. n : s[i] \in T => \E k \in 1 .. m + 1 : q[k] = i
        <4> SUFFICES ASSUME NEW i \in 1 .. n, s[i] \in T PROVE \E k \in 1 .. m + 1 : q[k] = i
          OBVIOUS
        <4>1. CASE i = n
          BY <3>3, <3>9, <4>1
        <4>2. CASE i # n
          <5>1. i \in 1 .. n - 1
            BY <1>0, <4>2
          <5>2. PICK k \in 1 .. m : p[k] = i
            BY <2>1, <5>1 DEF Selects, m, t
          <5> QED
            BY <3>3, <3>9, <5>2
        <4> QED
          BY <4>1, <4>2
      <3>6. \A k \in 1 .. m + 1 : u[k] = s[q[k]] /\ u[k] \in T
        <4> SUFFICES ASSUME NEW k \in 1 .. m + 1 PROVE u[k] = s[q[k]] /\ u[k] \in T
          OBVIOUS
        <4>1. CASE k = m + 1
          BY <2>3, <3>1, <3>3, <4>1
        <4>2. CASE k # m + 1
          <5>1. k \in 1 .. m
            BY <3>9, <4>2
          <5>2. t[k] = s[p[k]] /\ t[k] \in T
            BY <2>1, <5>1 DEF Selects, m, t
          <5> QED
            BY <3>1, <3>3, <5>1, <5>2
        <4> QED
          BY <4>1, <4>2
      <3>7. Selects(q, u, s, T, n)
        BY <3>1, <3>3, <3>4, <3>5, <3>6 DEF Selects
      <3>8. f[n] = u
        BY <1>2, <2>3 DEF u, t
      <3> QED
        BY <3>1, <3>7, <3>8
    <2>4. CASE s[n] \notin T
      <3>1. f[n] = f[n - 1]
        BY <1>2, <2>4
      <3>2. Selects(p, f[n - 1], s, T, n)
        BY <1>0, <2>1, <2>2, <2>4 DEF Selects
      <3> QED
        BY <2>2, <3>1, <3>2
    <2> QED
      BY <2>3, <2>4
  <1>5. 0 .. Len(s) \subseteq Good
    <2> HIDE DEF Good
    <2> QED
      BY <1>0, <1>3, <1>4, UpToInduction
  <1> QED
    BY <1>0, <1>1, <1>5

\* What is kept is in T, and nothing that is in T is lost.
LEMMA KeptElements ==
  ASSUME NEW S, NEW s \in Seq(S), NEW T
  PROVE  /\ Kept(s, T) \in Seq(S)
         /\ {Kept(s, T)[k] : k \in 1 .. Len(Kept(s, T))} = {s[i] : i \in 1 .. Len(s)} \cap T
  <1> DEFINE t == Kept(s, T)
  <1>1. PICK p : Selects(p, t, s, T, Len(s))
    BY KeptSelects
  <1>2. t \in Seq(S)
    BY KeptSelects
  <1> HIDE DEF t
  <1>3. \A k \in 1 .. Len(t) : p[k] \in 1 .. Len(s) /\ t[k] = s[p[k]] /\ t[k] \in T
    BY <1>1 DEF Selects
  <1>4. \A i \in 1 .. Len(s) : s[i] \in T => \E k \in 1 .. Len(t) : p[k] = i
    BY <1>1 DEF Selects
  <1>5. {t[k] : k \in 1 .. Len(t)} = {s[i] : i \in 1 .. Len(s)} \cap T
    BY <1>3, <1>4
  <1> QED
    BY <1>2, <1>5 DEF t
=============================================================================
