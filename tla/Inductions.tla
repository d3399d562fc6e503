------------------------------ MODULE Inductions ------------------------------
(***************************************************************************)
(* What the other proofs need of the natural numbers, of finite sets and   *)
(* of functions defined by recursion over an interval.  Everything rests   *)
(* on one fact of the library: a set of finite sets has a member none of   *)
(* the others is strictly contained in.                                    *)
(***************************************************************************)
EXTENDS Integers, Sequences, SequencesExt, FiniteSetTheorems, SequenceTheorems,
        WellFoundedInduction, TLAPS

LEMMA SmallestSet ==
  ASSUME NEW S, NEW T, T # {}, T \subseteq FiniteSubsetsOf(S)
  PROVE  \E x \in T : \A y \in T : ~(y \subseteq x /\ y # x)
  <1>1. IsWellFoundedOn(StrictSubsetOrdering(S), FiniteSubsetsOf(S))
    BY FS_StrictSubsetOrderingWellFounded
  <1>3. PICK x \in T : \A y \in T : ~(<<y, x>> \in StrictSubsetOrdering(S))
    BY <1>1, WFMin
  <1>4. ASSUME NEW y \in T, y \subseteq x, y # x
        PROVE  <<y, x>> \in StrictSubsetOrdering(S)
    BY <1>4 DEF StrictSubsetOrdering, FiniteSubsetsOf
  <1>5. \A y \in T : ~(y \subseteq x /\ y # x)
    BY <1>3, <1>4, Zenon
  <1>. QED
    BY <1>5, Zenon

-----------------------------------------------------------------------------
(* Natural numbers. *)

\* A number stands for the set of the numbers up to it.
LEMMA NatLeast ==
  ASSUME NEW S \in SUBSET Nat, S # {}
  PROVE  \E m \in S : \A n \in S : m <= n
  <1>. DEFINE T == { 1 .. n : n \in S }
  <1>1. T # {} /\ T \subseteq FiniteSubsetsOf(Nat)
    <2>1. ASSUME NEW n \in S
          PROVE  1 .. n \in SUBSET Nat /\ IsFiniteSet(1 .. n)
      <3>1. n \in Int /\ 1 \in Int
        OBVIOUS
      <3>. QED
        BY <3>1, FS_Interval
    <2>. QED
      BY <2>1 DEF FiniteSubsetsOf
  <1>. HIDE DEF T
  <1>2. PICK x \in T : \A y \in T : ~(y \subseteq x /\ y # x)
    BY <1>1, SmallestSet
  <1>3. PICK m \in S : x = 1 .. m
    BY DEF T
  <1>4. ASSUME NEW n \in S, n < m
        PROVE  FALSE
    <2>1. 1 .. n \in T
      BY DEF T
    <2>2. 1 .. n \subseteq 1 .. m /\ m \in 1 .. m /\ m \notin 1 .. n
      BY <1>4
    <2>. QED
      BY <2>1, <2>2, <1>2, <1>3
  <1>. QED
    BY <1>4

\* Induction: the numbers with a property are given as a set.
LEMMA NatInd ==
  ASSUME NEW S, 0 \in S, \A n \in Nat : n \in S => n + 1 \in S
  PROVE  Nat \subseteq S
  <1>. DEFINE R == Nat \ S
  <1>1. SUFFICES ASSUME R # {} PROVE FALSE
    OBVIOUS
  <1>2. PICK m \in R : \A n \in R : m <= n
    BY <1>1, NatLeast
  <1>3. m \in Nat /\ m # 0 /\ m - 1 \in Nat
    BY <1>2
  <1>4. m - 1 \in S
    BY <1>2, <1>3
  <1>. QED
    BY <1>2, <1>3, <1>4

\* A finite set of numbers has a largest one: the one with the fewest above.
LEMMA FiniteMax ==
  ASSUME NEW S \in SUBSET Nat, S # {}, IsFiniteSet(S)
  PROVE  \E m \in S : \A n \in S : m >= n
  <1>. DEFINE Above(m) == { n \in S : n > m }
              T == { Above(m) : m \in S }
  <1>1. T # {} /\ T \subseteq FiniteSubsetsOf(Nat)
    <2>1. \A m \in S : Above(m) \in SUBSET S
      OBVIOUS
    <2>2. \A m \in S : IsFiniteSet(Above(m))
      BY <2>1, FS_Subset
    <2>. QED
      BY <2>1, <2>2 DEF FiniteSubsetsOf
  <1>2. PICK x \in T : \A y \in T : ~(y \subseteq x /\ y # x)
    <2>. HIDE DEF T
    <2>. QED
      BY <1>1, SmallestSet
  <1>3. PICK m \in S : x = Above(m)
    OBVIOUS
  <1>4. ASSUME NEW n \in S, n > m
        PROVE  FALSE
    <2>1. Above(n) \in T
      OBVIOUS
    <2>2. Above(n) \subseteq Above(m) /\ n \in Above(m) /\ n \notin Above(n)
      <3>1. \A k \in S : k > n => k > m
        BY <1>4
      <3>2. n > m /\ ~(n > n)
        BY <1>4
      <3>3. Above(n) \subseteq Above(m)
        BY <3>1, Zenon
      <3>. QED
        BY <3>2, <3>3, Zenon
    <2>3. Above(n) \subseteq x /\ Above(n) # x
      BY <2>2, <1>3
    <2>. QED
      BY <2>1, <2>3, <1>2
  <1>. QED
    BY <1>4

-----------------------------------------------------------------------------
(* Recursion: a first value and a step give a function on any interval.    *)

Recurs(f, n, X, x0, g) ==
  /\ f \in [0 .. n -> X] /\ f[0] = x0
  /\ \A k \in 1 .. n : f[k] = g[k][f[k - 1]]

LEMMA RecursionLonger ==
  ASSUME NEW X, NEW x0, NEW n \in Nat, NEW g, NEW f, Recurs(f, n, X, x0, g),
         g[n + 1][f[n]] \in X
  PROVE  \E h : Recurs(h, n + 1, X, x0, g)
  <1>. DEFINE h == [k \in 0 .. n + 1 |-> IF k = n + 1 THEN g[n + 1][f[n]] ELSE f[k]]
  <1>1. f \in [0 .. n -> X] /\ f[0] = x0 /\ \A k \in 1 .. n : f[k] = g[k][f[k - 1]]
    BY DEF Recurs
  <1>2. /\ h[n + 1] = g[n + 1][f[n]]
        /\ \A k \in 0 .. n : h[k] = f[k]
    OBVIOUS
  <1>3. h \in [0 .. n + 1 -> X]
    <2>1. ASSUME NEW k \in 0 .. n + 1
          PROVE  (IF k = n + 1 THEN g[n + 1][f[n]] ELSE f[k]) \in X
      <3>1. CASE k # n + 1
        <4>1. k \in 0 .. n
          BY <3>1
        <4>. QED
          BY <1>1, <3>1, <4>1
      <3>. QED
        BY <3>1
    <2>. QED
      BY <2>1
  <1>. HIDE DEF h
  <1>4. h[0] = x0
    BY <1>1, <1>2
  <1>5. ASSUME NEW k \in 1 .. n + 1
        PROVE  h[k] = g[k][h[k - 1]]
    <2>1. CASE k = n + 1
      <3>1. k - 1 = n /\ n \in 0 .. n
        BY <2>1
      <3>. QED
        BY <1>2, <2>1, <3>1
    <2>2. CASE k # n + 1
      <3>1. k \in 1 .. n /\ k \in 0 .. n /\ k - 1 \in 0 .. n
        BY <2>2
      <3>. QED
        BY <1>1, <1>2, <3>1
    <2>. QED
      BY <2>1, <2>2
  <1>. QED
    BY <1>3, <1>4, <1>5 DEF Recurs

LEMMA RecursionExists ==
  ASSUME NEW X, NEW x0 \in X, NEW N \in Nat, NEW g \in [1 .. N -> [X -> X]]
  PROVE  \E f : Recurs(f, N, X, x0, g)
  <1>. DEFINE P(n) == n <= N => \E f : Recurs(f, n, X, x0, g)
              S == { n \in Nat : P(n) }
  <1>1. P(0)
    <2>1. Recurs([k \in 0 .. 0 |-> x0], 0, X, x0, g)
      BY DEF Recurs
    <2>. QED
      BY <2>1
  <1>2. ASSUME NEW n \in Nat, P(n)
        PROVE  P(n + 1)
    <2>. SUFFICES ASSUME n + 1 <= N PROVE \E f : Recurs(f, n + 1, X, x0, g)
      OBVIOUS
    <2>1. n <= N /\ n + 1 \in 1 .. N /\ n \in 0 .. n
      OBVIOUS
    <2>2. PICK f : Recurs(f, n, X, x0, g)
      BY <1>2, <2>1
    <2>3. f[n] \in X
      BY <2>1, <2>2 DEF Recurs
    <2>4. g[n + 1][f[n]] \in X
      BY <2>1, <2>3
    <2>. QED
      BY <2>2, <2>4, RecursionLonger
  <1>. HIDE DEF P
  <1>3. Nat \subseteq S
    <2>1. 0 \in S /\ \A n \in Nat : n \in S => n + 1 \in S
      BY <1>1, <1>2
    <2>. HIDE DEF S
    <2>. QED
      BY <2>1, NatInd
  <1>4. P(N)
    BY <1>3
  <1>. QED
    BY <1>4 DEF P

\* The values of a recursive function are what its step makes of them.
LEMMA RecursionTyped ==
  ASSUME NEW X, NEW N \in Nat, NEW f, f = [k \in 0 .. N |-> f[k]],
         f[0] \in X, \A k \in 1 .. N : f[k - 1] \in X => f[k] \in X
  PROVE  f \in [0 .. N -> X]
  <1>. DEFINE P(n) == n <= N => f[n] \in X
              S == { n \in Nat : P(n) }
  <1>1. P(0)
    OBVIOUS
  <1>2. ASSUME NEW n \in Nat, P(n)
        PROVE  P(n + 1)
    <2>. SUFFICES ASSUME n + 1 <= N PROVE f[n + 1] \in X
      OBVIOUS
    <2>1. n + 1 \in 1 .. N /\ (n + 1) - 1 = n /\ n <= N
      OBVIOUS
    <2>2. f[(n + 1) - 1] \in X
      BY <1>2, <2>1
    <2>. QED
      BY <2>1, <2>2
  <1>3. Nat \subseteq S
    <2>. HIDE DEF P
    <2>1. 0 \in S /\ \A n \in Nat : n \in S => n + 1 \in S
      BY <1>1, <1>2
    <2>. HIDE DEF S
    <2>. QED
      BY <2>1, NatInd
  <1>4. \A n \in 0 .. N : f[n] \in X
    <2>. HIDE DEF P
    <2>1. \A n \in 0 .. N : n \in Nat /\ P(n)
      BY <1>3
    <2>. QED
      BY <2>1 DEF P
  <1>. QED
    BY <1>4

-----------------------------------------------------------------------------
\* Division with remainder, and the multiples of L.
LEMMA ModDef ==
  ASSUME NEW v \in Nat, NEW L \in Nat \ {0}
  PROVE  v % L \in 0 .. L - 1 /\ v % L <= v /\ v = L * (v \div L) + (v % L) /\ v \div L \in Nat
  OBVIOUS
LEMMA ModUnique ==
  ASSUME NEW L \in Nat \ {0}, NEW q \in Nat, NEW r \in 0 .. L - 1
  PROVE  (L * q + r) % L = r
  OBVIOUS
LEMMA RoundedBack ==
  ASSUME NEW w \in Nat, NEW L \in Nat \ {0}, NEW r \in 0 .. L - 1, w % L = 0
  PROVE  (w + r) - ((w + r) % L) = w
  <1>. DEFINE q == w \div L
  <1>1. q \in Nat /\ w = L * q
    BY ModDef
  <1>. HIDE DEF q
  <1>2. (L * q + r) % L = r
    BY <1>1, ModUnique
  <1>. QED
    BY <1>1, <1>2

\* A list of sequences, put one behind the other: what the first k of them give.
Flattens(f, seqs, S) ==
  /\ f \in [1 .. Len(seqs) -> Seq(S)] /\ f[1] = seqs[1]
  /\ \A k \in 1 .. Len(seqs) : k + 1 \in 1 .. Len(seqs) => f[k + 1] = f[k] \o seqs[k + 1]

LEMMA FlattenSteps ==
  ASSUME NEW S, NEW seqs \in Seq(Seq(S)), Len(seqs) # 0
  PROVE  \E f : Flattens(f, seqs, S) /\ FlattenSeq(seqs) = f[Len(seqs)]
  <1> DEFINE N == Len(seqs)
             X == Seq(S)
             g == [k \in 1 .. N |-> [s \in X |-> s \o seqs[k]]]
             Def(f) == f = [k \in 1 .. N |-> IF k = 1 THEN seqs[k] ELSE f[k - 1] \o seqs[k]]
             flat == CHOOSE f : Def(f)
  <1>1. N \in Nat /\ DOMAIN seqs = 1 .. N /\ \A k \in 1 .. N : seqs[k] \in X
    BY LenProperties, ElementOfSeq
  <1>2. <<>> \in X
    BY EmptySeq
  <1>3. \A k \in 1 .. N, s \in X : s \o seqs[k] \in X
    BY <1>1, ConcatProperties
  <1>4. g \in [1 .. N -> [X -> X]]
    BY <1>3
  <1> HIDE DEF g
  <1>5. PICK h : Recurs(h, N, X, <<>>, g)
    BY <1>1, <1>2, <1>4, RecursionExists
  <1> DEFINE f == [k \in 1 .. N |-> h[k]]
  <1>6. /\ h \in [0 .. N -> X] /\ h[0] = <<>>
        /\ \A k \in 1 .. N : h[k] = h[k - 1] \o seqs[k]
    <2>1. \A k \in 1 .. N : k - 1 \in 0 .. N
      BY <1>1
    <2> QED
      BY <1>5, <2>1 DEF Recurs, g
  <1>7. ASSUME NEW k \in 1 .. N PROVE h[k] = IF k = 1 THEN seqs[k] ELSE f[k - 1] \o seqs[k]
    <2>1. CASE k = 1
      <3>1. k - 1 = 0
        BY <2>1
      <3>2. h[k] = <<>> \o seqs[k]
        BY <1>6, <3>1
      <3> QED
        BY <1>1, <2>1, <3>2, ConcatEmptySeq
    <2>2. CASE k # 1
      <3>1. k - 1 \in 1 .. N
        BY <1>1, <2>2
      <3> QED
        BY <1>6, <2>2, <3>1
    <2> QED
      BY <2>1, <2>2
  <1>8. Def(f)
    BY <1>7
  <1>9. Def(flat)
    <2> HIDE DEF f, Def
    <2> QED
      BY <1>8
  <1>10. FlattenSeq(seqs) = flat[N]
    BY DEF FlattenSeq
  <1>11. \A k \in 1 .. N : flat[k] = IF k = 1 THEN seqs[k] ELSE flat[k - 1] \o seqs[k]
    <2> HIDE DEF flat
    <2> QED
      BY <1>9
  <1>12. flat = [k \in 1 .. N |-> flat[k]]
    <2> HIDE DEF flat
    <2> QED
      BY <1>9
  <1> HIDE DEF flat, Def, f
  <1> DEFINE P(n) == n \in 1 .. N => flat[n] \in X
             Z == { n \in Nat : P(n) }
  <1>13. P(0)
    OBVIOUS
  <1>14. ASSUME NEW n \in Nat, P(n) PROVE P(n + 1)
    <2> SUFFICES ASSUME n + 1 \in 1 .. N PROVE flat[n + 1] \in X
      OBVIOUS
    <2>1. flat[n + 1] = IF n + 1 = 1 THEN seqs[n + 1] ELSE flat[(n + 1) - 1] \o seqs[n + 1]
      BY <1>11
    <2>2. (n + 1) - 1 = n /\ (n + 1 # 1 => n \in 1 .. N)
      BY <1>1
    <2>3. seqs[n + 1] \in X
      BY <1>1
    <2>4. n + 1 # 1 => flat[n] \in X
      BY <1>14, <2>2
    <2> HIDE DEF X
    <2>5. n + 1 # 1 => flat[n] \o seqs[n + 1] \in X
      BY <2>3, <2>4, ConcatProperties DEF X
    <2> QED
      BY <2>1, <2>2, <2>3, <2>5
  <1>15. Nat \subseteq Z
    <2> HIDE DEF P
    <2>1. 0 \in Z /\ \A n \in Nat : n \in Z => n + 1 \in Z
      BY <1>13, <1>14
    <2> HIDE DEF Z
    <2> QED
      BY <2>1, NatInd
  <1>16. \A k \in 1 .. N : flat[k] \in X
    <2> HIDE DEF P, X
    <2>1. \A k \in 1 .. N : P(k)
      BY <1>15
    <2> QED
      BY <2>1 DEF P
  <1>17. flat \in [1 .. N -> X]
    BY <1>12, <1>16
  <1>18. flat[1] = seqs[1]
    <2>1. 1 \in 1 .. N
      BY <1>1
    <2> QED
      BY <1>11, <2>1
  <1>19. ASSUME NEW k \in 1 .. N, k + 1 \in 1 .. N PROVE flat[k + 1] = flat[k] \o seqs[k + 1]
    <2>1. k + 1 # 1 /\ (k + 1) - 1 = k
      OBVIOUS
    <2> QED
      BY <1>11, <1>19, <2>1
  <1> QED
    BY <1>10, <1>17, <1>18, <1>19 DEF Flattens

LEMMA FlattenTyped ==
  ASSUME NEW S, NEW seqs \in Seq(Seq(S))
  PROVE  FlattenSeq(seqs) \in Seq(S)
  <1>1. CASE Len(seqs) = 0
    <2>1. seqs = <<>>
      BY <1>1, EmptySeq
    <2> QED
      BY <1>1, <2>1 DEF FlattenSeq
  <1>2. CASE Len(seqs) # 0
    <2>1. PICK f : Flattens(f, seqs, S) /\ FlattenSeq(seqs) = f[Len(seqs)]
      BY <1>2, FlattenSteps
    <2>2. Len(seqs) \in 1 .. Len(seqs)
      BY <1>2, LenProperties
    <2> QED
      BY <2>1, <2>2 DEF Flattens
  <1> QED
    BY <1>1, <1>2

\* One more sequence comes last.
LEMMA FlattenGrows ==
  ASSUME NEW S, NEW seqs \in Seq(Seq(S)), NEW x \in Seq(S)
  PROVE  FlattenSeq(Append(seqs, x)) = FlattenSeq(seqs) \o x
  <1> DEFINE N == Len(seqs)
             more == Append(seqs, x)
  <1>1. /\ N \in Nat /\ more \in Seq(Seq(S)) /\ Len(more) = N + 1 /\ more[N + 1] = x
        /\ \A k \in 1 .. N : more[k] = seqs[k] /\ seqs[k] \in Seq(S)
    BY AppendProperties, LenProperties, ElementOfSeq
  <1> HIDE DEF more
  <1>2. PICK g : Flattens(g, more, S) /\ FlattenSeq(more) = g[N + 1]
    BY <1>1, FlattenSteps
  <1>3. CASE N = 0
    <2>1. seqs = <<>> /\ FlattenSeq(<<>>) = <<>> /\ g[1] = x
      BY <1>1, <1>2, <1>3, EmptySeq DEF Flattens, FlattenSeq
    <2> QED
      BY <1>2, <1>3, <2>1, ConcatEmptySeq DEF more
  <1>4. CASE N # 0
    <2>1. PICK f : Flattens(f, seqs, S) /\ FlattenSeq(seqs) = f[N]
      BY <1>4, FlattenSteps
    <2> DEFINE P(n) == n \in 1 .. N => g[n] = f[n]
               Z == { n \in Nat : P(n) }
    <2>2. P(0)
      OBVIOUS
    <2>3. ASSUME NEW n \in Nat, P(n) PROVE P(n + 1)
      <3> SUFFICES ASSUME n + 1 \in 1 .. N PROVE g[n + 1] = f[n + 1]
        OBVIOUS
      <3>1. more[n + 1] = seqs[n + 1] /\ n + 1 \in 1 .. N + 1
        BY <1>1
      <3>2. CASE n = 0
        BY <1>2, <2>1, <3>1, <3>2 DEF Flattens
      <3>3. CASE n # 0
        <4>1. n \in 1 .. N /\ n \in 1 .. N + 1
          BY <1>1, <3>3
        <4>2. g[n + 1] = g[n] \o more[n + 1] /\ f[n + 1] = f[n] \o seqs[n + 1]
          BY <1>1, <1>2, <2>1, <3>1, <4>1 DEF Flattens
        <4> QED
          BY <2>3, <3>1, <4>1, <4>2
      <3> QED
        BY <3>2, <3>3
    <2>4. Nat \subseteq Z
      <3> HIDE DEF P
      <3>1. 0 \in Z /\ \A n \in Nat : n \in Z => n + 1 \in Z
        BY <2>2, <2>3
      <3> HIDE DEF Z
      <3> QED
        BY <3>1, NatInd
    <2>5. N \in 1 .. N /\ P(N)
      <3> HIDE DEF P
      <3> QED
        BY <1>1, <1>4, <2>4
    <2>6. g[N] = f[N]
      BY <2>5
    <2>7. g[N + 1] = g[N] \o more[N + 1]
      <3>1. N \in 1 .. N + 1 /\ N + 1 \in 1 .. N + 1
        BY <1>1, <1>4
      <3> QED
        BY <1>1, <1>2, <3>1 DEF Flattens
    <2> QED
      BY <1>1, <1>2, <2>1, <2>6, <2>7 DEF more
  <1> QED
    BY <1>3, <1>4

\* The same for sequences given by their places.
LEMMA FlattenNext ==
  ASSUME NEW S, NEW n \in Nat, NEW e, \A k \in 1 .. n + 1 : e[k] \in Seq(S)
  PROVE  FlattenSeq([k \in 1 .. n + 1 |-> e[k]]) = FlattenSeq([k \in 1 .. n |-> e[k]]) \o e[n + 1]
  <1> DEFINE s == [k \in 1 .. n |-> e[k]]
             t == [k \in 1 .. n + 1 |-> e[k]]
  <1>1. s \in Seq(Seq(S)) /\ Len(s) = n /\ t \in Seq(Seq(S)) /\ Len(t) = n + 1
    <2>1. n + 1 \in Nat /\ \A k \in 1 .. n : k \in 1 .. n + 1
      OBVIOUS
    <2>2. \A k \in 1 .. n : e[k] \in Seq(S)
      BY <2>1
    <2> HIDE DEF s, t
    <2>3. s \in [1 .. n -> Seq(S)] /\ t \in [1 .. n + 1 -> Seq(S)]
      BY <2>2 DEF s, t
    <2> QED
      BY <2>1, <2>3, LenProperties
  <1>2. e[n + 1] \in Seq(S)
    OBVIOUS
  <1>3. t = Append(s, e[n + 1])
    <2> DEFINE a == Append(s, e[n + 1])
    <2>1. /\ a \in Seq(Seq(S)) /\ Len(a) = n + 1 /\ a[n + 1] = e[n + 1]
          /\ \A k \in 1 .. n : a[k] = s[k]
      BY <1>1, <1>2, AppendProperties
    <2>2. \A k \in 1 .. n : s[k] = e[k] /\ t[k] = e[k]
      OBVIOUS
    <2>3. t[n + 1] = e[n + 1]
      OBVIOUS
    <2> HIDE DEF a, s, t
    <2>4. \A k \in 1 .. n + 1 : k \in 1 .. n \/ k = n + 1
      OBVIOUS
    <2>5. \A k \in 1 .. n + 1 : t[k] = a[k]
      BY <2>1, <2>2, <2>3, <2>4
    <2> QED
      BY <1>1, <2>1, <2>5, SeqEqual DEF a
  <1>4. FlattenSeq(Append(s, e[n + 1])) = FlattenSeq(s) \o e[n + 1]
    <2> HIDE DEF s
    <2> QED
      BY <1>1, <1>2, FlattenGrows
  <1> QED
    BY <1>3, <1>4

LEMMA TwoFiniteSets ==
  ASSUME NEW A, IsFiniteSet(A), NEW B, IsFiniteSet(B)
  PROVE  IsFiniteSet(A \cup B)
  BY FS_Union

\* The members of finitely many finite sets are finitely many.
LEMMA FiniteUnion ==
  ASSUME NEW f, NEW N \in Nat, \A k \in 1 .. N : IsFiniteSet(f[k])
  PROVE  IsFiniteSet(UNION { f[k] : k \in 1 .. N })
  <1> DEFINE U(n) == UNION { f[k] : k \in 1 .. n }
             P(n) == n <= N => IsFiniteSet(U(n))
             Z == { n \in Nat : P(n) }
  <1>1. P(0)
    <2>1. U(0) = {}
      OBVIOUS
    <2> QED
      BY <2>1, FS_EmptySet
  <1>2. ASSUME NEW n \in Nat, P(n) PROVE P(n + 1)
    <2> SUFFICES ASSUME n + 1 <= N PROVE IsFiniteSet(U(n + 1))
      OBVIOUS
    <2>1. U(n + 1) = U(n) \cup f[n + 1]
      <3>1. \A k \in 1 .. n + 1 : k \in 1 .. n \/ k = n + 1
        OBVIOUS
      <3>2. n + 1 \in 1 .. n + 1 /\ \A k \in 1 .. n : k \in 1 .. n + 1
        OBVIOUS
      <3> QED
        BY <3>1, <3>2
    <2>2. IsFiniteSet(U(n)) /\ IsFiniteSet(f[n + 1])
      BY <1>2
    <2> HIDE DEF U
    <2>3. IsFiniteSet(U(n) \cup f[n + 1])
      BY <2>2, TwoFiniteSets
    <2> QED
      BY <2>1, <2>3
  <1>3. Nat \subseteq Z
    <2> HIDE DEF P
    <2>1. 0 \in Z /\ \A n \in Nat : n \in Z => n + 1 \in Z
      BY <1>1, <1>2
    <2> HIDE DEF Z
    <2> QED
      BY <2>1, NatInd
  <1>4. P(N)
    <2> HIDE DEF P
    <2> QED
      BY <1>3
  <1> QED
    BY <1>4

\* Max of a finite set of numbers is one of them.
LEMMA MaxIsMember ==
  ASSUME NEW S \in SUBSET Nat, S # {}, IsFiniteSet(S)
  PROVE  Max(S) \in S /\ \A n \in S : Max(S) >= n
  BY FiniteMax DEF Max
=============================================================================
