---------------------------- MODULE SequenceLemmas ----------------------------
(***************************************************************************)
(* What the proofs need to know of counting, of sequences put one after    *)
(* another, of sets turned into sequences and of sums.                     *)
(***************************************************************************)
EXTENDS Integers, Sequences, FiniteSets, SequencesExt, FiniteSetTheorems,
        NaturalsInduction, WellFoundedInduction, TLAPS

\* A set of numbers that holds zero, and the successor of each, holds all.
LEMMA Counting ==
    ASSUME NEW T, 0 \in T, \A n \in Nat : n \in T => n + 1 \in T
    PROVE  Nat \subseteq T
<1>. SUFFICES ASSUME Nat \ T # {} PROVE FALSE
  OBVIOUS
<1>1. IsWellFoundedOn(OpToRel(<, Nat), Nat)
  BY NatLessThanWellFounded
<1>2. PICK m \in Nat \ T : \A k \in Nat \ T : <<k, m>> \notin OpToRel(<, Nat)
  BY <1>1, WFMin
<1>3. m # 0 /\ m - 1 \in Nat /\ m - 1 < m /\ (m - 1) + 1 = m
  OBVIOUS
<1>4. m - 1 \in T
  BY <1>2, <1>3 DEF OpToRel
<1>. QED BY <1>3, <1>4

-----------------------------------------------------------------------------
(* What FlattenSeq, a recursive function, computes. *)

\* The value for the first n sequences, and how it goes on.
Flattens(f, s, n) ==
    \A i \in 1 .. n : f[i] = IF i = 1 THEN s[i] ELSE f[i - 1] \o s[i]

LEMMA FlattenDefined ==
    ASSUME NEW X, NEW s \in Seq(Seq(X)), s # <<>>
    PROVE  \E f \in [1 .. Len(s) -> Seq(X)] :
              Flattens(f, s, Len(s)) /\ FlattenSeq(s) = f[Len(s)]
<1>. PICK n \in Nat : n = Len(s) /\ n > 0 /\ \A i \in 1 .. n : s[i] \in Seq(X)
  OBVIOUS
<1>1. \E g \in [1 .. n -> Seq(X)] : Flattens(g, s, n)
  <2>. DEFINE T == {k \in Nat : k <= n => \E g \in [1 .. k -> Seq(X)] : Flattens(g, s, k)}
  <2>1. 0 \in T
    <3>. DEFINE g == [i \in 1 .. 0 |-> <<>>]
    <3>1. g \in [1 .. 0 -> Seq(X)] /\ Flattens(g, s, 0)
      BY DEF Flattens
    <3>. QED BY <3>1
  <2>2. ASSUME NEW k \in Nat, k \in T PROVE k + 1 \in T
    <3>. SUFFICES ASSUME k + 1 <= n
                  PROVE  \E g \in [1 .. k + 1 -> Seq(X)] : Flattens(g, s, k + 1)
      OBVIOUS
    <3>1. PICK g \in [1 .. k -> Seq(X)] : Flattens(g, s, k)
      BY <2>2
    <3>. DEFINE last == IF k = 0 THEN s[1] ELSE g[k] \o s[k + 1]
                h == [i \in 1 .. k + 1 |-> IF i = k + 1 THEN last ELSE g[i]]
    <3>2. last \in Seq(X)
      BY <3>1
    <3>. HIDE DEF last
    <3>3. h \in [1 .. k + 1 -> Seq(X)]
      BY <3>2
    <3>4. ASSUME NEW i \in 1 .. k + 1
          PROVE  h[i] = IF i = 1 THEN s[i] ELSE h[i - 1] \o s[i]
      <4>1. CASE i = k + 1
        BY <4>1 DEF last
      <4>2. CASE i # k + 1
        <5>1. i \in 1 .. k /\ (i # 1 => i - 1 \in 1 .. k + 1 /\ i - 1 # k + 1)
          BY <4>2
        <5>2. g[i] = IF i = 1 THEN s[i] ELSE g[i - 1] \o s[i]
          BY <3>1, <5>1 DEF Flattens
        <5>3. h[i] = g[i] /\ (i # 1 => h[i - 1] = g[i - 1])
          BY <4>2, <5>1
        <5>. QED BY <5>2, <5>3
      <4>. QED BY <4>1, <4>2
    <3>. QED BY <3>3, <3>4 DEF Flattens
  <2>3. Nat \subseteq T
    <3>. HIDE DEF T
    <3>. QED BY <2>1, <2>2, Counting
  <2>4. n \in T
    BY <2>3
  <2>. QED BY <2>4
<1>2. PICK g \in [1 .. n -> Seq(X)] : Flattens(g, s, n)
  BY <1>1
<1>. DEFINE flatten == CHOOSE f : f = [i \in 1 .. Len(s) |-> IF i = 1 THEN s[i] ELSE f[i - 1] \o s[i]]
<1>3. g = [i \in 1 .. Len(s) |-> IF i = 1 THEN s[i] ELSE g[i - 1] \o s[i]]
  BY <1>2 DEF Flattens
<1>4. flatten = [i \in 1 .. Len(s) |-> IF i = 1 THEN s[i] ELSE flatten[i - 1] \o s[i]]
  BY <1>3
<1>5. FlattenSeq(s) = flatten[n]
  BY DEF FlattenSeq
<1>. HIDE DEF flatten
<1>6. \A i \in 1 .. n : flatten[i] = g[i]
  <2>. DEFINE T == {k \in Nat : k \in 1 .. n => flatten[k] = g[k]}
  <2>1. 0 \in T
    OBVIOUS
  <2>2. ASSUME NEW k \in Nat, k \in T PROVE k + 1 \in T
    <3>. SUFFICES ASSUME k + 1 \in 1 .. n PROVE flatten[k + 1] = g[k + 1]
      OBVIOUS
    <3>1. flatten[k + 1] = IF k + 1 = 1 THEN s[k + 1] ELSE flatten[k] \o s[k + 1]
      <4>1. (k + 1) - 1 = k
        OBVIOUS
      <4>. QED BY <1>4, <4>1
    <3>2. g[k + 1] = IF k + 1 = 1 THEN s[k + 1] ELSE g[k] \o s[k + 1]
      <4>1. (k + 1) - 1 = k
        OBVIOUS
      <4>. QED BY <1>2, <4>1 DEF Flattens
    <3>3. k + 1 # 1 => flatten[k] = g[k]
      BY <2>2
    <3>. QED BY <3>1, <3>2, <3>3
  <2>3. Nat \subseteq T
    <3>. HIDE DEF T
    <3>. QED BY <2>1, <2>2, Counting
  <2>. QED BY <2>3
<1>. QED BY <1>2, <1>5, <1>6

LEMMA FlattenType ==
    ASSUME NEW X, NEW s \in Seq(Seq(X))
    PROVE  FlattenSeq(s) \in Seq(X)
<1>1. CASE s = <<>>
  BY <1>1 DEF FlattenSeq
<1>2. CASE s # <<>>
  <2>1. PICK n \in Nat : n = Len(s) /\ n # 0
    BY <1>2
  <2>2. PICK f \in [1 .. n -> Seq(X)] : FlattenSeq(s) = f[n]
    BY <1>2, <2>1, FlattenDefined
  <2>3. n \in 1 .. n
    BY <2>1
  <2>4. f[n] \in Seq(X)
    BY <2>3
  <2>. QED BY <2>2, <2>4
<1>. QED BY <1>1, <1>2

LEMMA SequenceAt ==
    ASSUME NEW X, NEW s \in Seq(X)
    PROVE  /\ Len(s) \in Nat
           /\ DOMAIN s = 1 .. Len(s)
           /\ \A k \in 1 .. Len(s) : s[k] \in X
OBVIOUS

LEMMA ConcatAt ==
    ASSUME NEW X, NEW p \in Seq(X), NEW q \in Seq(X)
    PROVE  /\ p \o q \in Seq(X)
           /\ Len(p \o q) = Len(p) + Len(q)
           /\ \A k \in 1 .. Len(p) + Len(q) :
                 (p \o q)[k] = IF k <= Len(p) THEN p[k] ELSE q[k - Len(p)]
OBVIOUS

\* Nothing is left out.
LEMMA FlattenCovers ==
    ASSUME NEW X, NEW s \in Seq(Seq(X)), NEW i \in 1 .. Len(s), NEW k \in 1 .. Len(s[i])
    PROVE  \E m \in 1 .. Len(FlattenSeq(s)) : FlattenSeq(s)[m] = s[i][k]
<1>. PICK n \in Nat : n = Len(s) /\ \A j \in 1 .. n : s[j] \in Seq(X)
  OBVIOUS
<1>1. PICK f \in [1 .. n -> Seq(X)] : Flattens(f, s, n) /\ FlattenSeq(s) = f[n]
  <2>1. s # <<>>
    OBVIOUS
  <2>. QED BY <2>1, FlattenDefined
<1>. DEFINE Has(j) == \E m \in 1 .. Len(f[j]) : f[j][m] = s[i][k]
            T == {j \in Nat : j \in i .. n => Has(j)}
<1>2. 0 \in T
  OBVIOUS
<1>3. ASSUME NEW j \in Nat, j \in T PROVE j + 1 \in T
  <2>. SUFFICES ASSUME j + 1 \in i .. n PROVE Has(j + 1)
    OBVIOUS
  <2>1. CASE j = 0
    <3>1. i = 1 /\ 1 \in 1 .. n
      BY <2>1
    <3>2. f[1] = s[1]
      BY <1>1, <3>1 DEF Flattens
    <3>. QED BY <2>1, <3>1, <3>2
  <2>2. CASE j # 0
    <3>1. j \in 1 .. n /\ j + 1 \in 1 .. n /\ (j + 1) - 1 = j /\ j + 1 # 1
      BY <2>2
    <3>2. f[j + 1] = f[j] \o s[j + 1]
      BY <1>1, <3>1 DEF Flattens
    <3>3. PICK p \in Seq(X), q \in Seq(X) : p = f[j] /\ q = s[j + 1]
      BY <3>1
    <3>4. PICK a \in Nat, b \in Nat : a = Len(p) /\ b = Len(q)
      OBVIOUS
    <3>. DEFINE r == p \o q
    <3>5. /\ Len(r) = a + b
          /\ \A z \in 1 .. a + b : r[z] = IF z <= a THEN p[z] ELSE q[z - a]
      BY <3>4, ConcatAt
    <3>6. f[j + 1] = r
      BY <3>2, <3>3
    <3>. HIDE DEF r
    <3>7. CASE j + 1 = i
      <4>3. k \in 1 .. b
        BY <3>3, <3>4, <3>7
      <4>1. a + k \in 1 .. a + b /\ (a + k) - a = k /\ ~(a + k <= a)
        BY <4>3
      <4>2. r[a + k] = q[k]
        BY <3>5, <4>1
      <4>. QED BY <3>3, <3>5, <3>6, <3>7, <4>1, <4>2
    <3>8. CASE j + 1 # i
      <4>1. PICK m \in 1 .. a : p[m] = s[i][k]
        BY <1>3, <3>1, <3>3, <3>4, <3>8
      <4>2. m \in 1 .. a + b /\ m <= a
        OBVIOUS
      <4>3. r[m] = p[m]
        BY <3>5, <4>2
      <4>. QED BY <3>5, <3>6, <4>1, <4>2, <4>3
    <3>. QED BY <3>7, <3>8
  <2>. QED BY <2>1, <2>2
<1>4. Nat \subseteq T
  <2>. HIDE DEF T
  <2>. QED BY <1>2, <1>3, Counting
<1>5. n \in i .. n
  OBVIOUS
<1>. QED BY <1>1, <1>4, <1>5

\* Where every piece holds one element or none, and those that hold one come
\* first, the pieces put together are those elements.
LEMMA FlattenKeeps ==
    ASSUME NEW X, NEW p \in Seq(X), NEW s \in Seq(Seq(X)), Len(p) <= Len(s),
           \A i \in 1 .. Len(p) : s[i] = <<p[i]>>,
           \A i \in 1 .. Len(s) : i > Len(p) => s[i] = <<>>
    PROVE  FlattenSeq(s) = p
<1>. PICK n \in Nat, m \in Nat : n = Len(s) /\ m = Len(p) /\ m <= n
  OBVIOUS
<1>1. CASE s = <<>>
  BY <1>1 DEF FlattenSeq
<1>2. CASE s # <<>>
  <2>0. n \in 1 .. n
    BY <1>2
  <2>1. PICK f \in [1 .. n -> Seq(X)] : Flattens(f, s, n) /\ FlattenSeq(s) = f[n]
    BY <1>2, FlattenDefined
  <2>. DEFINE front(k) == [j \in 1 .. (IF k <= m THEN k ELSE m) |-> p[j]]
              T == {k \in Nat : k \in 1 .. n => f[k] = front(k)}
  <2>2. \A k \in Nat : /\ front(k) \in Seq(X)
                       /\ Len(front(k)) = IF k <= m THEN k ELSE m
    <3>. TAKE k \in Nat
    <3>. PICK c \in Nat : c = IF k <= m THEN k ELSE m
      OBVIOUS
    <3>1. \A j \in 1 .. c : p[j] \in X
      OBVIOUS
    <3>2. [j \in 1 .. c |-> p[j]] \in Seq(X) /\ Len([j \in 1 .. c |-> p[j]]) = c
      BY <3>1
    <3>. QED BY <3>2
  <2>3. 0 \in T
    OBVIOUS
  <2>4. ASSUME NEW k \in Nat, k \in T PROVE k + 1 \in T
    <3>. HIDE DEF front
    <3>. SUFFICES ASSUME k + 1 \in 1 .. n PROVE f[k + 1] = front(k + 1)
      OBVIOUS
    <3>1. s[k + 1] = IF k + 1 <= m THEN <<p[k + 1]>> ELSE <<>>
      <4>1. CASE k + 1 <= m
        <5>1. k + 1 \in 1 .. Len(p)
          BY <4>1
        <5>. QED BY <4>1, <5>1
      <4>2. CASE ~(k + 1 <= m)
        <5>1. k + 1 \in 1 .. Len(s) /\ k + 1 > Len(p)
          BY <4>2
        <5>2. s[k + 1] = <<>>
          BY <5>1
        <5>. QED BY <4>2, <5>2
      <4>. QED BY <4>1, <4>2
    <3>. USE DEF front
    <3>2. CASE k = 0
      <4>1. f[1] = s[1]
        <5>1. 1 \in 1 .. n
          BY <3>2
        <5>. QED BY <2>1, <5>1 DEF Flattens
      <4>2. CASE m = 0
        <5>1. front(1) \in Seq(X) /\ Len(front(1)) = 0
          BY <2>2, <4>2
        <5>2. front(1) = <<>>
          BY <5>1
        <5>. QED BY <3>1, <3>2, <4>1, <4>2, <5>2
      <4>3. CASE m # 0
        <5>1. front(1) = <<p[1]>>
          BY <4>3
        <5>2. s[1] = <<p[1]>>
          <6>1. 1 \in 1 .. Len(p)
            BY <4>3
          <6>. QED BY <6>1
        <5>3. front(k + 1) = front(1) /\ f[k + 1] = f[1]
          BY <3>2
        <5>. HIDE DEF front
        <5>. QED BY <4>1, <5>1, <5>2, <5>3
      <4>. QED BY <4>2, <4>3
    <3>3. CASE k # 0
      <4>1. k \in 1 .. n /\ (k + 1) - 1 = k /\ k + 1 # 1
        BY <3>3
      <4>2. f[k + 1] = f[k] \o s[k + 1] /\ f[k] = front(k)
        BY <2>1, <2>4, <4>1 DEF Flattens
      <4>3. CASE k + 1 <= m
        <5>1. front(k) \o <<p[k + 1]>> = front(k + 1)
          BY <2>2, <4>3
        <5>. QED BY <3>1, <4>2, <4>3, <5>1
      <4>4. CASE ~(k + 1 <= m)
        <5>1. front(k) \o <<>> = front(k)
          BY <2>2
        <5>2. front(k + 1) = front(k)
          BY <4>4
        <5>. QED BY <3>1, <4>2, <4>4, <5>1, <5>2
      <4>. QED BY <4>3, <4>4
    <3>. QED BY <3>2, <3>3
  <2>5. Nat \subseteq T
    <3>. HIDE DEF T
    <3>. QED BY <2>3, <2>4, Counting
  <2>6. f[n] = front(n)
    BY <2>0, <2>5
  <2>7. front(n) = p
    OBVIOUS
  <2>. QED BY <2>1, <2>6, <2>7
<1>. QED BY <1>1, <1>2

\* Nothing is in a sequence twice, or twice in the pieces.
Once(s) == \A a, b \in 1 .. Len(s) : s[a] = s[b] => a = b

Apart(s) ==
    \A i, j \in 1 .. Len(s) : \A k \in 1 .. Len(s[i]), l \in 1 .. Len(s[j]) :
        s[i][k] = s[j][l] => i = j /\ k = l

\* Every element of the sequences put together is one of a piece, and it is
\* there once if no piece holds it twice and no two pieces hold it.
LEMMA FlattenOnce ==
    ASSUME NEW X, NEW s \in Seq(Seq(X))
    PROVE  /\ \A a \in 1 .. Len(FlattenSeq(s)) :
                 \E i \in 1 .. Len(s) : \E k \in 1 .. Len(s[i]) : s[i][k] = FlattenSeq(s)[a]
           /\ Apart(s) => Once(FlattenSeq(s))
<1>. PICK n \in Nat : n = Len(s) /\ \A i \in 1 .. n : s[i] \in Seq(X)
  OBVIOUS
<1>1. CASE s = <<>>
  <2>1. FlattenSeq(s) = <<>>
    BY <1>1 DEF FlattenSeq
  <2>. QED BY <2>1 DEF Once
<1>2. CASE s # <<>>
  <2>0. n \in 1 .. n
    BY <1>2
  <2>1. PICK f \in [1 .. n -> Seq(X)] : Flattens(f, s, n) /\ FlattenSeq(s) = f[n]
    BY <1>2, FlattenDefined
  <2>. DEFINE From(m) == \A a \in 1 .. Len(f[m]) :
                            \E i \in 1 .. m : \E k \in 1 .. Len(s[i]) : s[i][k] = f[m][a]
              T == {m \in Nat : m \in 1 .. n => From(m) /\ (Apart(s) => Once(f[m]))}
  <2>2. 0 \in T
    OBVIOUS
  <2>3. ASSUME NEW m \in Nat, m \in T PROVE m + 1 \in T
    <3>. HIDE DEF From
    <3>. SUFFICES ASSUME m + 1 \in 1 .. n PROVE From(m + 1) /\ (Apart(s) => Once(f[m + 1]))
      OBVIOUS
    <3>. USE DEF From
    <3>1. CASE m = 0
      <4>1. 1 \in 1 .. n
        BY <3>1
      <4>2. f[1] = s[1]
        BY <2>1, <4>1 DEF Flattens
      <4>3. From(1)
        BY <4>1, <4>2
      <4>4. Apart(s) => Once(f[1])
        BY <4>1, <4>2 DEF Apart, Once
      <4>. QED BY <3>1, <4>3, <4>4
    <3>2. CASE m # 0
      <4>1. m \in 1 .. n /\ (m + 1) - 1 = m /\ m + 1 # 1
        BY <3>2
      <4>2. f[m + 1] = f[m] \o s[m + 1] /\ From(m) /\ (Apart(s) => Once(f[m]))
        BY <2>1, <2>3, <4>1 DEF Flattens
      <4>3. PICK p \in Seq(X), q \in Seq(X) : p = f[m] /\ q = s[m + 1]
        BY <4>1
      <4>4. PICK c \in Nat, e \in Nat : c = Len(p) /\ e = Len(q)
        OBVIOUS
      <4>. DEFINE r == p \o q
      <4>5. /\ Len(r) = c + e
            /\ \A z \in 1 .. c + e : r[z] = IF z <= c THEN p[z] ELSE q[z - c]
        BY <4>4, ConcatAt
      <4>6. f[m + 1] = r
        BY <4>2, <4>3
      <4>. HIDE DEF r
      <4>7. \A a \in 1 .. c + e : IF a <= c THEN a \in 1 .. c /\ r[a] = p[a]
                                  ELSE a - c \in 1 .. e /\ r[a] = q[a - c]
        BY <4>5
      <4>8. \A a \in 1 .. c : \E i \in 1 .. m : \E k \in 1 .. Len(s[i]) : s[i][k] = p[a]
        BY <4>2, <4>3, <4>4
      <4>9. From(m + 1)
        <5>. SUFFICES ASSUME NEW a \in 1 .. c + e
                      PROVE  \E i \in 1 .. m + 1 : \E k \in 1 .. Len(s[i]) : s[i][k] = r[a]
          BY <4>5, <4>6
        <5>1. CASE a <= c
          <6>1. PICK i \in 1 .. m : \E k \in 1 .. Len(s[i]) : s[i][k] = p[a]
            BY <4>7, <4>8, <5>1
          <6>2. i \in 1 .. m + 1
            OBVIOUS
          <6>. QED BY <4>7, <5>1, <6>1, <6>2
        <5>2. CASE ~(a <= c)
          <6>1. m + 1 \in 1 .. m + 1
            OBVIOUS
          <6>. QED BY <4>3, <4>4, <4>7, <5>2, <6>1
        <5>. QED BY <5>1, <5>2
      <4>10. ASSUME Apart(s) PROVE Once(f[m + 1])
        <5>1. \A a, b \in 1 .. c : p[a] = p[b] => a = b
          BY <4>2, <4>3, <4>4, <4>10 DEF Once
        <5>2. \A a, b \in 1 .. e : q[a] = q[b] => a = b
          BY <4>3, <4>4, <4>10 DEF Apart
        <5>3. \A a \in 1 .. c, b \in 1 .. e : p[a] # q[b]
          <6>. TAKE a \in 1 .. c, b \in 1 .. e
          <6>0. PICK i \in 1 .. m : \E k \in 1 .. Len(s[i]) : s[i][k] = p[a]
            BY <4>8
          <6>1. PICK k \in 1 .. Len(s[i]) : s[i][k] = p[a]
            BY <6>0
          <6>2. i \in 1 .. n /\ i # m + 1
            BY <4>1
          <6>3. s[m + 1][b] = q[b] /\ b \in 1 .. Len(s[m + 1])
            BY <4>3, <4>4
          <6>4. s[i][k] # s[m + 1][b]
            BY <4>10, <6>2, <6>3 DEF Apart
          <6>. QED BY <6>1, <6>3, <6>4
        <5>4. \A a, b \in 1 .. c + e : r[a] = r[b] => a = b
          <6>. SUFFICES ASSUME NEW a \in 1 .. c + e, NEW b \in 1 .. c + e, r[a] = r[b]
                        PROVE  a = b
            OBVIOUS
          <6>1. CASE a <= c /\ b <= c
            BY <4>7, <5>1, <6>1
          <6>2. CASE ~(a <= c) /\ ~(b <= c)
            <7>1. a - c = b - c
              BY <4>7, <5>2, <6>2
            <7>. QED BY <7>1
          <6>3. CASE a <= c /\ ~(b <= c)
            BY <4>7, <5>3, <6>3
          <6>4. CASE ~(a <= c) /\ b <= c
            BY <4>7, <5>3, <6>4
          <6>. QED BY <6>1, <6>2, <6>3, <6>4
        <5>. QED BY <4>5, <4>6, <5>4 DEF Once
      <4>. QED BY <4>9, <4>10
    <3>. QED BY <3>1, <3>2
  <2>4. Nat \subseteq T
    <3>. HIDE DEF T
    <3>. QED BY <2>2, <2>3, Counting
  <2>5. From(n) /\ (Apart(s) => Once(f[n]))
    BY <2>0, <2>4
  <2>. QED BY <2>1, <2>5
<1>. QED BY <1>1, <1>2

\* Where every piece holds one element or none: every element of the pieces put
\* together is that of a piece, and it is there once if no two pieces hold it.
LEMMA FlattenSingles ==
    ASSUME NEW X, NEW s \in Seq(Seq(X)),
           \A i \in 1 .. Len(s) : s[i] = <<>> \/ \E x \in X : s[i] = <<x>>
    PROVE  /\ \A a \in 1 .. Len(FlattenSeq(s)) :
                 \E i \in 1 .. Len(s) : s[i] = <<FlattenSeq(s)[a]>>
           /\ (\A i, j \in 1 .. Len(s) : s[i] = s[j] /\ s[i] # <<>> => i = j) =>
                 \A a, b \in 1 .. Len(FlattenSeq(s)) :
                    FlattenSeq(s)[a] = FlattenSeq(s)[b] => a = b
<1>1. ASSUME NEW i \in 1 .. Len(s), NEW k \in 1 .. Len(s[i])
      PROVE  k = 1 /\ s[i] = <<s[i][k]>>
  <2>1. PICK x \in X : s[i] = <<x>>
    <3>1. s[i] # <<>>
      OBVIOUS
    <3>. QED BY <3>1
  <2>2. k = 1 /\ s[i][1] = x
    BY <2>1
  <2>. QED BY <2>1, <2>2
<1>2. \A a \in 1 .. Len(FlattenSeq(s)) : \E i \in 1 .. Len(s) : s[i] = <<FlattenSeq(s)[a]>>
  <2>. TAKE a \in 1 .. Len(FlattenSeq(s))
  <2>1. PICK i \in 1 .. Len(s) : \E k \in 1 .. Len(s[i]) : s[i][k] = FlattenSeq(s)[a]
    BY FlattenOnce
  <2>2. PICK k \in 1 .. Len(s[i]) : s[i][k] = FlattenSeq(s)[a]
    BY <2>1
  <2>. QED BY <1>1, <2>2
<1>3. ASSUME \A i, j \in 1 .. Len(s) : s[i] = s[j] /\ s[i] # <<>> => i = j
      PROVE  Apart(s)
  <2>. SUFFICES ASSUME NEW i \in 1 .. Len(s), NEW j \in 1 .. Len(s),
                       NEW k \in 1 .. Len(s[i]), NEW l \in 1 .. Len(s[j]), s[i][k] = s[j][l]
                PROVE  i = j /\ k = l
    BY DEF Apart
  <2>1. s[i] = <<s[i][k]>> /\ s[j] = <<s[i][k]>> /\ k = 1 /\ l = 1
    BY <1>1, <1>3
  <2>2. <<s[i][k]>> # <<>>
    OBVIOUS
  <2>. QED BY <1>3, <2>1, <2>2, Zenon
<1>. QED BY <1>2, <1>3, FlattenOnce DEF Once

-----------------------------------------------------------------------------
(* Sets as sequences, and the least of a set of numbers. *)

LEMMA SetSequence ==
    ASSUME NEW S, IsFiniteSet(S)
    PROVE  SetToSeq(S) \in Seq(S)
<1>1. PICK n \in Nat : n = Cardinality(S)
  BY FS_CardinalityType
<1>2. PICK f \in [1 .. n -> S] : IsInjective(f)
  <2>1. ExistsBijection(1 .. n, S)
    BY <1>1, FS_CardinalityType
  <2>2. PICK f : f \in Bijection(1 .. n, S)
    BY <2>1 DEF ExistsBijection
  <2>. QED BY <2>2 DEF Bijection, Injection, IsInjective
<1>3. SetToSeq(S) \in [1 .. n -> S]
  BY <1>1, <1>2 DEF SetToSeq
<1>. QED BY <1>1, <1>3

LEMMA SingletonSequence ==
    /\ SetToSeq({}) = <<>>
    /\ \A x : SetToSeq({x}) = <<x>>
<1>1. SetToSeq({}) = <<>>
  <2>1. Cardinality({}) = 0
    BY FS_EmptySet
  <2>2. \A f : f \in [1 .. 0 -> {}] <=> f = <<>>
    <3>1. ASSUME NEW f \in [1 .. 0 -> {}] PROVE f = <<>>
      <4>1. f \in Seq({}) /\ Len(f) = 0
        OBVIOUS
      <4>. QED BY <4>1
    <3>2. <<>> \in [1 .. 0 -> {}]
      OBVIOUS
    <3>. QED BY <3>1, <3>2
  <2>3. IsInjective(<<>>)
    BY DEF IsInjective
  <2>. QED BY <2>1, <2>2, <2>3 DEF SetToSeq
<1>2. ASSUME NEW x PROVE SetToSeq({x}) = <<x>>
  <2>1. Cardinality({x}) = 1
    BY FS_Singleton
  <2>2. \A f : f \in [1 .. 1 -> {x}] <=> f = <<x>>
    OBVIOUS
  <2>3. IsInjective(<<x>>)
    BY DEF IsInjective
  <2>. QED BY <2>1, <2>2, <2>3 DEF SetToSeq
<1>. QED BY <1>1, <1>2

LEMMA LeastExists ==
    ASSUME NEW S, S \subseteq Nat, S # {}
    PROVE  \E m \in S : \A k \in S : m <= k
<1>1. IsWellFoundedOn(OpToRel(<, Nat), Nat)
  BY NatLessThanWellFounded
<1>2. PICK m \in S : \A k \in S : <<k, m>> \notin OpToRel(<, Nat)
  BY <1>1, WFMin
<1>3. \A k \in S : m <= k
  <2>. TAKE k \in S
  <2>1. k \in Nat /\ m \in Nat
    OBVIOUS
  <2>2. k < m => <<k, m>> \in OpToRel(<, Nat)
    BY <2>1 DEF OpToRel
  <2>3. ~(k < m)
    BY <1>2, <2>2
  <2>. QED BY <2>1, <2>3
<1>. QED BY <1>3

-----------------------------------------------------------------------------
(* Sums over finite sets. *)

\* What MapThenSumSet computes, a function on the subsets of S.
Sums(g, F, S) ==
    g = [s \in SUBSET S |-> IF s = {} THEN 0
                            ELSE LET x == CHOOSE y \in s : TRUE IN F[x] + g[s \ {x}]]

LEMMA SumsExist ==
    ASSUME NEW S, IsFiniteSet(S), NEW F \in [S -> Nat]
    PROVE  \E g : Sums(g, F, S)
<1>. DEFINE One(s) == CHOOSE y \in s : TRUE
            Small(n) == {s \in SUBSET S : Cardinality(s) <= n}
            Upto(g, n) == \A s \in Small(n) :
                             g[s] = IF s = {} THEN 0 ELSE F[One(s)] + g[s \ {One(s)}]
            T == {n \in Nat : \E g \in [Small(n) -> Nat] : Upto(g, n)}
<1>1. \A s \in SUBSET S : IsFiniteSet(s) /\ Cardinality(s) \in Nat
  BY FS_Subset, FS_CardinalityType
<1>2. ASSUME NEW s \in SUBSET S, s # {}
      PROVE  /\ One(s) \in s /\ s \ {One(s)} \in SUBSET S /\ F[One(s)] \in Nat
             /\ Cardinality(s \ {One(s)}) = Cardinality(s) - 1
  <2>1. One(s) \in s
    BY <1>2
  <2>2. Cardinality(s \ {One(s)}) = Cardinality(s) - 1
    BY <1>1, <2>1, FS_RemoveElement
  <2>. QED BY <2>1, <2>2
<1>3. \A s \in SUBSET S : Cardinality(s) = 0 <=> s = {}
  BY <1>1, FS_EmptySet
<1>. HIDE DEF One
<1>4. 0 \in T
  <2>. DEFINE g == [s \in Small(0) |-> 0]
  <2>1. \A s \in Small(0) : s = {}
    BY <1>1, <1>3
  <2>2. g \in [Small(0) -> Nat] /\ Upto(g, 0)
    BY <2>1
  <2>. QED BY <2>2
<1>5. ASSUME NEW n \in Nat, n \in T PROVE n + 1 \in T
  <2>1. PICK g \in [Small(n) -> Nat] : Upto(g, n)
    BY <1>5
  <2>. DEFINE h == [s \in Small(n + 1) |->
                      IF Cardinality(s) <= n THEN g[s] ELSE F[One(s)] + g[s \ {One(s)}]]
  <2>2. ASSUME NEW s \in Small(n + 1), s # {}
        PROVE  s \ {One(s)} \in Small(n) /\ s \ {One(s)} \in Small(n + 1)
    BY <1>1, <1>2, <2>2
  <2>3. ASSUME NEW s \in Small(n + 1)
        PROVE  /\ h[s] \in Nat
               /\ h[s] = IF s = {} THEN 0 ELSE F[One(s)] + h[s \ {One(s)}]
    <3>0. s \in SUBSET S
      OBVIOUS
    <3>1. CASE s = {}
      <4>1. Cardinality(s) = 0 /\ s \in Small(n)
        BY <1>3, <3>1
      <4>2. g[s] = 0
        BY <2>1, <3>1, <4>1
      <4>. QED BY <3>1, <4>1, <4>2
    <3>2. CASE s # {}
      <4>1. s \ {One(s)} \in Small(n) /\ s \ {One(s)} \in Small(n + 1)
        BY <2>2, <3>2
      <4>2. g[s \ {One(s)}] \in Nat /\ F[One(s)] \in Nat
        BY <1>2, <3>0, <3>2, <4>1
      <4>3. h[s \ {One(s)}] = g[s \ {One(s)}]
        BY <4>1
      <4>4. h[s] = F[One(s)] + g[s \ {One(s)}]
        <5>1. CASE Cardinality(s) <= n
          <6>1. s \in Small(n)
            BY <5>1
          <6>. QED BY <2>1, <3>2, <5>1, <6>1
        <5>2. CASE ~(Cardinality(s) <= n)
          BY <5>2
        <5>. QED BY <5>1, <5>2
      <4>. HIDE DEF h, Small
      <4>. QED BY <3>2, <4>2, <4>3, <4>4
    <3>. QED BY <3>1, <3>2
  <2>4. h = [s \in Small(n + 1) |-> h[s]]
    OBVIOUS
  <2>. HIDE DEF h, Small
  <2>5. h \in [Small(n + 1) -> Nat] /\ Upto(h, n + 1)
    BY <2>3, <2>4
  <2>. HIDE DEF Upto
  <2>. QED BY <2>5
<1>6. Nat \subseteq T
  <2>. HIDE DEF T
  <2>. QED BY <1>4, <1>5, Counting
<1>7. PICK n \in Nat : n = Cardinality(S)
  BY FS_CardinalityType
<1>8. Small(n) = SUBSET S
  BY <1>7, FS_Subset
<1>. HIDE DEF Small
<1>9. PICK g \in [SUBSET S -> Nat] : Upto(g, n)
  BY <1>6, <1>8
<1>10. g = [s \in SUBSET S |-> g[s]]
  OBVIOUS
<1>11. Sums(g, F, S)
  BY <1>8, <1>9, <1>10 DEF Sums, One
<1>. QED BY <1>11

\* A sum bounds the number of those that are counted in its parts.
LEMMA SumBounds ==
    ASSUME NEW S, IsFiniteSet(S), NEW F \in [S -> Nat], NEW A,
           \A x \in S : IsFiniteSet(A[x]) /\ Cardinality(A[x]) <= F[x],
           NEW g, Sums(g, F, S)
    PROVE  /\ g[S] \in Nat
           /\ IsFiniteSet(UNION {A[x] : x \in S})
           /\ Cardinality(UNION {A[x] : x \in S}) <= g[S]
<1>. DEFINE One(s) == CHOOSE y \in s : TRUE
            U(s) == UNION {A[x] : x \in s}
            Bounded(s) == g[s] \in Nat /\ IsFiniteSet(U(s)) /\ Cardinality(U(s)) <= g[s]
            T == {n \in Nat : \A s \in SUBSET S : Cardinality(s) = n => Bounded(s)}
<1>1. \A s \in SUBSET S : IsFiniteSet(s) /\ Cardinality(s) \in Nat
  BY FS_Subset, FS_CardinalityType
<1>2. \A s \in SUBSET S : g[s] = IF s = {} THEN 0 ELSE F[One(s)] + g[s \ {One(s)}]
  BY Zenon DEF Sums
<1>3. ASSUME NEW s \in SUBSET S, s # {} PROVE One(s) \in s
  BY <1>3
<1>. HIDE DEF One
<1>4. 0 \in T
  <2>. SUFFICES ASSUME NEW s \in SUBSET S, Cardinality(s) = 0 PROVE Bounded(s)
    OBVIOUS
  <2>1. s = {}
    BY <1>1, FS_EmptySet
  <2>2. U(s) = {} /\ g[s] = 0
    BY <1>2, <2>1
  <2>. HIDE DEF U
  <2>. QED BY <2>2, FS_EmptySet
<1>5. ASSUME NEW n \in Nat, n \in T PROVE n + 1 \in T
  <2>. SUFFICES ASSUME NEW s \in SUBSET S, Cardinality(s) = n + 1 PROVE Bounded(s)
    OBVIOUS
  <2>0. Cardinality(s) # 0
    OBVIOUS
  <2>1. s # {}
    BY <2>0, FS_EmptySet
  <2>2. PICK x \in s : x = One(s)
    BY <1>3, <2>1
  <2>3. s \ {x} \in SUBSET S /\ Cardinality(s \ {x}) = n
    <3>1. IsFiniteSet(s) /\ x \in s
      BY <1>1
    <3>2. Cardinality(s \ {x}) = Cardinality(s) - 1
      BY <3>1, FS_RemoveElement
    <3>. QED BY <3>2
  <2>4. Bounded(s \ {x})
    BY <1>5, <2>3
  <2>5. g[s] = F[x] + g[s \ {x}] /\ F[x] \in Nat
    BY <1>2, <2>1, <2>2
  <2>6. U(s) = A[x] \cup U(s \ {x})
    OBVIOUS
  <2>7. IsFiniteSet(A[x]) /\ Cardinality(A[x]) <= F[x] /\ Cardinality(A[x]) \in Nat
    BY FS_CardinalityType
  <2>. HIDE DEF U
  <2>8. PICK V : V = U(s \ {x}) /\ IsFiniteSet(V) /\ Cardinality(V) \in Nat
    BY <2>4, FS_CardinalityType
  <2>9. /\ IsFiniteSet(A[x] \cup V)
        /\ Cardinality(A[x] \cup V) <= Cardinality(A[x]) + Cardinality(V)
        /\ Cardinality(A[x] \cup V) \in Nat
    <3>1. IsFiniteSet(A[x] \cap V) /\ Cardinality(A[x] \cap V) \in Nat
      BY <2>8, FS_Intersection, FS_CardinalityType
    <3>2. /\ IsFiniteSet(A[x] \cup V)
          /\ Cardinality(A[x] \cup V)
               = Cardinality(A[x]) + Cardinality(V) - Cardinality(A[x] \cap V)
      BY <2>7, <2>8, FS_Union
    <3>3. Cardinality(A[x] \cup V) \in Nat
      BY <3>2, FS_CardinalityType
    <3>. QED BY <2>7, <2>8, <3>1, <3>2, <3>3
  <2>. QED BY <2>4, <2>5, <2>6, <2>7, <2>8, <2>9
<1>6. Nat \subseteq T
  <2>. HIDE DEF T
  <2>. QED BY <1>4, <1>5, Counting
<1>7. Cardinality(S) \in T
  BY <1>6, FS_CardinalityType
<1>. HIDE DEF Bounded
<1>8. Bounded(S)
  BY <1>7
<1>. QED BY <1>8 DEF Bounded

=============================================================================
