--------------------------- MODULE LibraryProofs ----------------------------
(***************************************************************************)
(* Proofs about the users of Users and the evaluations of Evaluation, for  *)
(* all inputs.  The loops of the code are recursive functions; what they   *)
(* compute is shown by induction over the steps of the loop, with sets of  *)
(* numbers in the place of predicates (SetInduction).                      *)
(***************************************************************************)
EXTENDS Users, Evaluation, WellFoundedInduction, TLAPS

\* Induction, for sets.
LEMMA SetInduction ==
    ASSUME NEW S, 0 \in S, \A n \in Nat : n \in S => n + 1 \in S
    PROVE  Nat \subseteq S
<1> DEFINE T == Nat \ S
           R == OpToRel(<, Nat)
<1>1. SUFFICES ASSUME T # {} PROVE FALSE
      OBVIOUS
<1>2. IsWellFoundedOn(R, Nat) /\ T \subseteq Nat
      BY NatLessThanWellFounded, Zenon
<1>3. PICK x \in T : \A y \in T : ~(<<y, x>> \in R)
  <2> HIDE DEF T, R
  <2> QED BY <1>1, <1>2, WFMin, Zenon
<1>4. x - 1 \in T
      OBVIOUS
<1>5. <<x - 1, x>> \in R
      BY <1>4 DEF OpToRel
<1> QED BY <1>3, <1>4, <1>5, Zenon

\* A beginning of the values that x0 and the steps of G give.
Run(f, n, X, x0, G) == f \in [0 .. n -> X] /\ f[0] = x0 /\ \A i \in 0 .. n - 1 : f[i + 1] = G[i][f[i]]

\* All of these values.
Steps(f, X, x0, G) == f \in [Nat -> X] /\ f[0] = x0 /\ \A n \in Nat : f[n + 1] = G[n][f[n]]

\* Definition by recursion: every step function has its values.
LEMMA Recursion ==
    ASSUME NEW X, NEW x0 \in X, NEW G \in [Nat -> [X -> X]]
    PROVE  \E f : Steps(f, X, x0, G)
<1> DEFINE Is(f, n) == Run(f, n, X, x0, G)
           S == {n \in Nat : \E f : Is(f, n)}
<1>1. 0 \in S
  <2>1. Is([i \in 0 .. 0 |-> x0], 0)
        BY DEF Run
  <2> QED BY <2>1
<1>2. ASSUME NEW n \in Nat, n \in S PROVE n + 1 \in S
  <2>1. PICK f : Is(f, n)
        BY <1>2
  <2>2. f \in [0 .. n -> X] /\ f[0] = x0 /\ \A i \in 0 .. n - 1 : f[i + 1] = G[i][f[i]]
        BY <2>1 DEF Run
  <2>3. G[n][f[n]] \in X
        BY <2>2
  <2> DEFINE h == [i \in 0 .. n + 1 |-> IF i = n + 1 THEN G[n][f[n]] ELSE f[i]]
  <2>4. /\ h \in [0 .. n + 1 -> X] /\ h[0] = x0 /\ h[n + 1] = G[n][f[n]]
        /\ \A i \in 0 .. n : h[i] = f[i]
        BY <2>2, <2>3
  <2> HIDE DEF h
  <2>5. ASSUME NEW i \in 0 .. (n + 1) - 1 PROVE h[i + 1] = G[i][h[i]]
    <3>1. CASE i = n
          BY <2>4, <3>1
    <3>2. CASE i # n
      <4>1. i \in 0 .. n - 1 /\ i \in 0 .. n /\ i + 1 \in 0 .. n
            BY <3>2
      <4> QED BY <2>2, <2>4, <4>1
    <3> QED BY <3>1, <3>2
  <2>6. Is(h, n + 1)
        BY <2>4, <2>5, Zenon DEF Run
  <2> QED BY <2>6
<1>3. Nat \subseteq S
  <2> HIDE DEF S
  <2> QED BY <1>1, <1>2, SetInduction, Zenon
<1>4. ASSUME NEW n \in Nat, NEW f, Is(f, n), NEW m \in Nat, NEW h, Is(h, m), n <= m
      PROVE  f[n] = h[n]
  <2> DEFINE A == {i \in Nat : i <= n => f[i] = h[i]}
  <2>1. 0 \in A
        BY <1>4 DEF Run
  <2>2. ASSUME NEW i \in Nat, i \in A PROVE i + 1 \in A
    <3> SUFFICES ASSUME i + 1 <= n PROVE f[i + 1] = h[i + 1]
        OBVIOUS
    <3>1. f[i] = h[i] /\ i \in 0 .. n - 1 /\ i \in 0 .. m - 1
          BY <1>4, <2>2
    <3> QED BY <1>4, <3>1, Zenon DEF Run
  <2>3. Nat \subseteq A
    <3> HIDE DEF A
    <3> QED BY <2>1, <2>2, SetInduction, Zenon
  <2> QED BY <2>3
<1> DEFINE g(n) == CHOOSE h : Is(h, n)
           f == [n \in Nat |-> g(n)[n]]
<1>5. ASSUME NEW n \in Nat PROVE Is(g(n), n)
  <2>1. \E h : Is(h, n)
        BY <1>3
  <2> QED BY <2>1, Zenon
<1> HIDE DEF g
<1>6. ASSUME NEW n \in Nat PROVE g(n)[n] \in X
      BY <1>5 DEF Run
<1>7. f \in [Nat -> X] /\ f[0] = x0
      BY <1>5, <1>6 DEF Run
<1>8. ASSUME NEW n \in Nat PROVE f[n + 1] = G[n][f[n]]
  <2>1. Is(g(n), n) /\ Is(g(n + 1), n + 1)
        BY <1>5
  <2>2. g(n)[n] = g(n + 1)[n]
    <3> HIDE DEF Is
    <3> QED BY <2>1, <1>4
  <2>3. g(n + 1)[n + 1] = G[n][g(n + 1)[n]]
        BY <2>1 DEF Run
  <2> QED BY <2>2, <2>3
<1> HIDE DEF f
<1> QED BY <1>7, <1>8, Zenon DEF Steps

-----------------------------------------------------------------------------
(* Users *)

\* What Chosen computes, for each beginning of the sequence.
ChosenSteps(g, s, S, T) ==
    /\ g \in [0 .. Len(s) -> Seq(S)] /\ g[0] = <<>>
    /\ \A i \in 1 .. Len(s) : g[i] = IF s[i] \in T THEN Append(g[i - 1], s[i]) ELSE g[i - 1]

\* Chosen is a recursive function, and its last value what these steps lead to.
LEMMA ChosenIs ==
    ASSUME NEW S, NEW s \in Seq(S), NEW T
    PROVE  \E g : ChosenSteps(g, s, S, T) /\ Chosen(s, T) = g[Len(s)]
<1>1. PICK n \in Nat : n = Len(s) /\ \A i \in 1 .. n : s[i] \in S
      OBVIOUS
<1> DEFINE P(h) == h = [i \in 0 .. n |-> IF i = 0 THEN <<>>
                                         ELSE IF s[i] \in T THEN Append(h[i - 1], s[i])
                                         ELSE h[i - 1]]
           G == [i \in Nat |-> [x \in Seq(S) |-> IF i + 1 \in 1 .. n /\ s[i + 1] \in T
                                                 THEN Append(x, s[i + 1]) ELSE x]]
<1>2. <<>> \in Seq(S) /\ G \in [Nat -> [Seq(S) -> Seq(S)]]
      BY <1>1
<1>3. PICK f : Steps(f, Seq(S), <<>>, G)
  <2> HIDE DEF G
  <2> QED BY <1>2, Recursion, Zenon
<1>4. /\ f \in [Nat -> Seq(S)] /\ f[0] = <<>>
      /\ \A i \in Nat : f[i + 1] = IF i + 1 \in 1 .. n /\ s[i + 1] \in T
                                   THEN Append(f[i], s[i + 1]) ELSE f[i]
      BY <1>3, Zenon DEF Steps
<1> HIDE DEF G
<1>5. \A i \in 1 .. n : f[i] = IF s[i] \in T THEN Append(f[i - 1], s[i]) ELSE f[i - 1]
  <2> SUFFICES ASSUME NEW i \in 1 .. n
               PROVE  f[i] = IF s[i] \in T THEN Append(f[i - 1], s[i]) ELSE f[i - 1]
      OBVIOUS
  <2>1. PICK j \in Nat : j = i - 1 /\ i = j + 1
        BY <1>1
  <2> QED BY <2>1, <1>4, Zenon
<1> DEFINE h == [i \in 0 .. n |-> f[i]]
<1>6. h[0] = <<>> /\ \A i \in 1 .. n : h[i] = f[i] /\ h[i - 1] = f[i - 1]
      BY <1>1, <1>4
<1>7. DOMAIN h = 0 .. n /\ h = [i \in 0 .. n |-> h[i]] /\ \A i \in 0 .. n : h[i] \in Seq(S)
      BY <1>1, <1>4
<1> HIDE DEF h
<1>8. P(h)
  <2>1. \A i \in 0 .. n : h[i] = IF i = 0 THEN <<>>
                                 ELSE IF s[i] \in T THEN Append(h[i - 1], s[i]) ELSE h[i - 1]
        BY <1>1, <1>5, <1>6
  <2> QED BY <2>1, <1>7, Zenon
<1>9. PICK g : P(g) /\ Chosen(s, T) = g[n]
      BY <1>1, <1>8, Zenon DEF Chosen
<1>10. /\ DOMAIN g = 0 .. n /\ g = [i \in 0 .. n |-> g[i]] /\ g[0] = <<>>
       /\ \A i \in 1 .. n : g[i] = IF s[i] \in T THEN Append(g[i - 1], s[i]) ELSE g[i - 1]
  <2>1. DOMAIN g = 0 .. n /\ g = [i \in 0 .. n |-> g[i]]
        BY <1>9, Zenon
  <2>2. \A i \in 0 .. n : g[i] = IF i = 0 THEN <<>>
                                 ELSE IF s[i] \in T THEN Append(g[i - 1], s[i]) ELSE g[i - 1]
        BY <1>9, Zenon
  <2>3. 0 \in 0 .. n /\ \A i \in 1 .. n : i \in 0 .. n /\ i # 0
        BY <1>1
  <2> QED BY <2>1, <2>2, <2>3, Zenon
<1> DEFINE A == {i \in Nat : i <= n => g[i] \in Seq(S)}
<1>11. 0 \in A
       BY <1>2, <1>10, Zenon
<1>12. ASSUME NEW i \in Nat, i \in A PROVE i + 1 \in A
  <2> SUFFICES ASSUME i + 1 <= n PROVE g[i + 1] \in Seq(S)
      OBVIOUS
  <2>1. i + 1 \in 1 .. n /\ (i + 1) - 1 = i /\ g[i] \in Seq(S) /\ s[i + 1] \in S
        BY <1>1, <1>12
  <2>2. g[i + 1] = IF s[i + 1] \in T THEN Append(g[i], s[i + 1]) ELSE g[i]
        BY <1>10, <2>1, Zenon
  <2> QED BY <2>1, <2>2
<1>13. Nat \subseteq A
  <2> HIDE DEF A
  <2> QED BY <1>11, <1>12, SetInduction, Zenon
<1>14. \A i \in 0 .. n : g[i] \in Seq(S)
       BY <1>1, <1>13
<1> HIDE DEF A, P
<1>15. g \in [0 .. n -> Seq(S)]
       BY <1>10, <1>14
<1> QED BY <1>1, <1>9, <1>10, <1>15, Zenon DEF ChosenSteps

\* The elements of a sequence with one more.
LEMMA RangeOfAppend ==
    ASSUME NEW S, NEW q \in Seq(S), NEW x \in S
    PROVE  Range(Append(q, x)) = Range(q) \union {x}
<1>1. PICK m, r : /\ m \in Nat /\ r = Append(q, x) /\ DOMAIN q = 1 .. m /\ DOMAIN r = 1 .. m + 1
                  /\ r[m + 1] = x /\ \A i \in 1 .. m : r[i] = q[i]
  <2>1. PICK m \in Nat : m = Len(q)
        OBVIOUS
  <2>2. /\ DOMAIN q = 1 .. m /\ DOMAIN Append(q, x) = 1 .. m + 1 /\ Append(q, x)[m + 1] = x
        /\ \A i \in 1 .. m : Append(q, x)[i] = q[i]
        BY <2>1
  <2> QED BY <2>2, Zenon
<1> QED BY <1>1 DEF Range

\* The elements that are chosen are those in T.
LEMMA RangeOfChosen ==
    ASSUME NEW S, NEW s \in Seq(S), NEW T
    PROVE  /\ Chosen(s, T) \in Seq(S)
           /\ Range(Chosen(s, T)) = Range(s) \intersect T
<1>1. PICK n \in Nat : n = Len(s) /\ DOMAIN s = 1 .. n
      OBVIOUS
<1>2. PICK g : ChosenSteps(g, s, S, T) /\ Chosen(s, T) = g[n]
      BY <1>1, ChosenIs
<1>3. /\ g \in [0 .. n -> Seq(S)] /\ g[0] = <<>>
      /\ \A i \in 1 .. n : g[i] = IF s[i] \in T THEN Append(g[i - 1], s[i]) ELSE g[i - 1]
      BY <1>1, <1>2, Zenon DEF ChosenSteps
<1> DEFINE A == {i \in Nat : i <= n => Range(g[i]) = {s[j] : j \in 1 .. i} \intersect T}
<1>4. 0 \in A
      BY <1>3 DEF Range
<1>5. ASSUME NEW i \in Nat, i \in A PROVE i + 1 \in A
  <2> SUFFICES ASSUME i + 1 <= n
               PROVE  Range(g[i + 1]) = {s[j] : j \in 1 .. i + 1} \intersect T
      OBVIOUS
  <2>1. i + 1 \in 1 .. n /\ (i + 1) - 1 = i /\ i <= n /\ i \in 0 .. n /\ s[i + 1] \in S
        BY <1>1
  <2>5. Range(g[i]) = {s[j] : j \in 1 .. i} \intersect T /\ g[i] \in Seq(S)
        BY <2>1, <1>3, <1>5, Zenon
  <2>2. g[i + 1] = IF s[i + 1] \in T THEN Append(g[i], s[i + 1]) ELSE g[i]
        BY <1>3, <2>1, Zenon
  <2>3. {s[j] : j \in 1 .. i + 1} = {s[j] : j \in 1 .. i} \union {s[i + 1]}
        OBVIOUS
  <2>4. Range(Append(g[i], s[i + 1])) = Range(g[i]) \union {s[i + 1]}
        BY <2>1, <2>5, RangeOfAppend
  <2> QED BY <2>2, <2>3, <2>4, <2>5
<1>6. Nat \subseteq A
  <2> HIDE DEF A
  <2> QED BY <1>4, <1>5, SetInduction, Zenon
<1>7. Range(g[n]) = {s[j] : j \in 1 .. n} \intersect T
      BY <1>6
<1>8. Range(s) = {s[j] : j \in 1 .. n}
      BY <1>1 DEF Range
<1> QED BY <1>1, <1>2, <1>3, <1>7, <1>8

-----------------------------------------------------------------------------

\* A set of numbers has a least one.
LEMMA LeastNumber ==
    ASSUME NEW W, W \subseteq Nat, W # {}
    PROVE  Min(W) \in W /\ \A y \in W : Min(W) <= y
<1> DEFINE R == OpToRel(<, Nat)
<1>1. IsWellFoundedOn(R, Nat)
      BY NatLessThanWellFounded, Zenon
<1>2. PICK x \in W : \A y \in W : ~(<<y, x>> \in R)
  <2> HIDE DEF R
  <2> QED BY <1>1, WFMin, Zenon
<1>3. \A y \in W : x <= y
  <2> SUFFICES ASSUME NEW y \in W, y < x PROVE FALSE
      OBVIOUS
  <2>1. <<y, x>> \in R
        BY DEF OpToRel
  <2> QED BY <2>1, <1>2, Zenon
<1> QED BY <1>2, <1>3, Zenon DEF Min

\* LDObjectDeleteKey leaves a list of members.
LEMMA WithoutKeyType ==
    ASSUME NEW S, NEW s \in Seq(S), NEW key
    PROVE  WithoutKey(s, key) \in Seq(S)
<1> DEFINE W == {i \in DOMAIN s : s[i].key = key}
<1>1. PICK n \in Nat : n = Len(s) /\ DOMAIN s = 1 .. n
      OBVIOUS
<1>2. CASE W = {}
      BY <1>2, Zenon DEF WithoutKey
<1>3. CASE W # {}
  <2>1. PICK k : k = Min(W)
        BY Zenon
  <2>2. k \in 1 .. n
    <3>1. W \subseteq Nat /\ W \subseteq 1 .. n
          BY <1>1
    <3> HIDE DEF W
    <3> QED BY <3>1, <2>1, <1>3, LeastNumber, Zenon
  <2>3. WithoutKey(s, key) = [i \in 1 .. n - 1 |-> s[IF i < k THEN i ELSE i + 1]]
        BY <1>1, <1>3, <2>1, Zenon DEF WithoutKey
  <2>4. \A i \in 1 .. n - 1 : s[IF i < k THEN i ELSE i + 1] \in S
        BY <1>1, <2>2
  <2>5. PICK p \in Nat : p = n - 1
        BY <1>1, <2>2
  <2>6. WithoutKey(s, key) \in [1 .. p -> S]
        BY <2>3, <2>4, <2>5, Zenon
  <2> QED BY <2>5, <2>6
<1> QED BY <1>2, <1>3

\* t has the elements of a, then those of b.
IsConcatenation(t, a, b, S) ==
    /\ t \in Seq(S) /\ Len(t) = Len(a) + Len(b)
    /\ \A j \in 1 .. Len(a) : t[j] = a[j]
    /\ \A j \in 1 .. Len(b) : t[Len(a) + j] = b[j]

\* What \o makes.
LEMMA Concatenation ==
    ASSUME NEW S, NEW a \in Seq(S), NEW b \in Seq(S)
    PROVE  IsConcatenation(a \o b, a, b, S)
<1>1. a \o b \in Seq(S) /\ Len(a \o b) = Len(a) + Len(b)
      OBVIOUS
<1>2. \A j \in 1 .. Len(a) : (a \o b)[j] = a[j]
      OBVIOUS
<1>3. ASSUME NEW j \in 1 .. Len(b) PROVE (a \o b)[Len(a) + j] = b[j]
  <2>1. /\ Len(a) + j \in 1 .. Len(a) + Len(b) /\ ~(Len(a) + j <= Len(a))
        /\ (Len(a) + j) - Len(a) = j
        OBVIOUS
  <2> QED BY <2>1
<1> QED BY <1>1, <1>2, <1>3, Zenon DEF IsConcatenation

\* The domain of a sequence gives its length.
LEMMA LengthIs ==
    ASSUME NEW S, NEW s \in Seq(S), NEW n \in Nat, DOMAIN s = 1 .. n
    PROVE  Len(s) = n
<1>1. PICK m \in Nat : m = Len(s)
      OBVIOUS
<1>2. 1 .. m = 1 .. n
      BY <1>1
<1>3. m = n
      BY <1>2
<1> QED BY <1>1, <1>3

\* Sequences with the same elements are the same.
LEMMA SameElements ==
    ASSUME NEW S, NEW p \in Seq(S), NEW q \in Seq(S), NEW k \in Nat, Len(p) = k, Len(q) = k,
           \A j \in 1 .. k : p[j] = q[j]
    PROVE  p = q
<1>1. p = [j \in 1 .. k |-> p[j]] /\ q = [j \in 1 .. k |-> q[j]]
      OBVIOUS
<1> QED BY <1>1

\* t without its element m + 1.
IsWithout(w, t, m, n) == w = [j \in 1 .. n - 1 |-> t[IF j < m + 1 THEN j ELSE j + 1]]

\* When the first m members have other keys and the next one has this key, that one goes.
LEMMA WithoutNext ==
    ASSUME NEW S, NEW t \in Seq(S), NEW m \in Nat, NEW n \in Nat, Len(t) = n, m < n, NEW key,
           t[m + 1].key = key, \A j \in 1 .. m : t[j].key # key
    PROVE  IsWithout(WithoutKey(t, key), t, m, n)
<1> DEFINE W == {j \in DOMAIN t : t[j].key = key}
<1>1. m + 1 \in W /\ W \subseteq Nat /\ \A j \in W : m + 1 <= j
      OBVIOUS
<1> HIDE DEF W
<1>2. PICK k : k = Min(W)
      BY Zenon
<1>3. k \in W /\ k <= m + 1
      BY <1>1, <1>2, LeastNumber, Zenon
<1>4. k = m + 1
      BY <1>1, <1>3
<1>5. WithoutKey(t, key) = [j \in 1 .. n - 1 |-> t[IF j < k THEN j ELSE j + 1]]
      BY <1>1, <1>2, Zenon DEF WithoutKey, W
<1> QED BY <1>4, <1>5, Zenon DEF IsWithout

\* What the loop of Redacted leaves, after each of its steps.
RedactedSteps(g, u, c, S) ==
    /\ g \in [0 .. Len(c) -> Seq(S)] /\ g[0] = c
    /\ \A i \in 1 .. Len(c) :
          g[i] = IF isPrivateAttr(u, c[i].key) THEN WithoutKey(g[i - 1], c[i].key) ELSE g[i - 1]

\* Redacted is a recursive function, and its last value what these steps lead to.
LEMMA RedactedIs ==
    ASSUME NEW S, NEW c \in Seq(S), NEW u
    PROVE  \E g : RedactedSteps(g, u, c, S) /\ Redacted(u, c) = g[Len(c)]
<1>1. PICK n \in Nat : n = Len(c)
      OBVIOUS
<1> DEFINE hides(i) == isPrivateAttr(u, c[i].key)
           P(h) == h = [i \in 0 .. n |-> IF i = 0 THEN c
                                         ELSE IF hides(i) THEN WithoutKey(h[i - 1], c[i].key)
                                         ELSE h[i - 1]]
           G == [i \in Nat |-> [x \in Seq(S) |-> IF hides(i + 1) THEN WithoutKey(x, c[i + 1].key)
                                                 ELSE x]]
<1>2. G \in [Nat -> [Seq(S) -> Seq(S)]]
  <2> HIDE DEF hides
  <2>1. \A i \in Nat, x \in Seq(S) : WithoutKey(x, c[i + 1].key) \in Seq(S)
        BY WithoutKeyType, Zenon
  <2> QED BY <2>1
<1>3. PICK f : Steps(f, Seq(S), c, G)
  <2> HIDE DEF G
  <2> QED BY <1>2, Recursion, Zenon
<1> HIDE DEF hides
<1>4. /\ f \in [Nat -> Seq(S)] /\ f[0] = c
      /\ \A i \in Nat : f[i + 1] = IF hides(i + 1) THEN WithoutKey(f[i], c[i + 1].key) ELSE f[i]
      BY <1>3, Zenon DEF Steps
<1> HIDE DEF G
<1>5. \A i \in 1 .. n : f[i] = IF hides(i) THEN WithoutKey(f[i - 1], c[i].key) ELSE f[i - 1]
  <2> SUFFICES ASSUME NEW i \in 1 .. n
               PROVE  f[i] = IF hides(i) THEN WithoutKey(f[i - 1], c[i].key) ELSE f[i - 1]
      OBVIOUS
  <2>1. PICK j \in Nat : j = i - 1 /\ i = j + 1
        BY <1>1
  <2> QED BY <2>1, <1>4, Zenon
<1> DEFINE h == [i \in 0 .. n |-> f[i]]
<1>6. h[0] = c /\ \A i \in 1 .. n : h[i] = f[i] /\ h[i - 1] = f[i - 1]
      BY <1>1, <1>4
<1>7. DOMAIN h = 0 .. n /\ h = [i \in 0 .. n |-> h[i]] /\ \A i \in 0 .. n : h[i] \in Seq(S)
      BY <1>1, <1>4
<1> HIDE DEF h
<1>8. P(h)
  <2>1. \A i \in 0 .. n : h[i] = IF i = 0 THEN c
                                 ELSE IF hides(i) THEN WithoutKey(h[i - 1], c[i].key)
                                 ELSE h[i - 1]
        BY <1>1, <1>5, <1>6
  <2> QED BY <2>1, <1>7, Zenon
<1>9. PICK g : P(g) /\ Redacted(u, c) = g[n]
      BY <1>1, <1>8, Zenon DEF Redacted, hides
<1>10. /\ DOMAIN g = 0 .. n /\ g = [i \in 0 .. n |-> g[i]] /\ g[0] = c
       /\ \A i \in 1 .. n : g[i] = IF hides(i) THEN WithoutKey(g[i - 1], c[i].key) ELSE g[i - 1]
  <2>1. DOMAIN g = 0 .. n /\ g = [i \in 0 .. n |-> g[i]]
        BY <1>9, Zenon
  <2>2. \A i \in 0 .. n : g[i] = IF i = 0 THEN c
                                 ELSE IF hides(i) THEN WithoutKey(g[i - 1], c[i].key)
                                 ELSE g[i - 1]
        BY <1>9, Zenon
  <2>3. 0 \in 0 .. n /\ \A i \in 1 .. n : i \in 0 .. n /\ i # 0
        BY <1>1
  <2> QED BY <2>1, <2>2, <2>3, Zenon
<1> HIDE DEF P
<1> DEFINE A == {i \in Nat : i <= n => g[i] \in Seq(S)}
<1>11. 0 \in A
       BY <1>10
<1>12. ASSUME NEW i \in Nat, i \in A PROVE i + 1 \in A
  <2> SUFFICES ASSUME i + 1 <= n PROVE g[i + 1] \in Seq(S)
      OBVIOUS
  <2>1. i + 1 \in 1 .. n /\ (i + 1) - 1 = i /\ g[i] \in Seq(S)
        BY <1>1, <1>12
  <2>2. g[i + 1] = IF hides(i + 1) THEN WithoutKey(g[i], c[i + 1].key) ELSE g[i]
        BY <1>10, <2>1, Zenon
  <2> QED BY <2>1, <2>2, WithoutKeyType, Zenon
<1>13. Nat \subseteq A
  <2> HIDE DEF A
  <2> QED BY <1>11, <1>12, SetInduction, Zenon
<1>14. \A i \in 0 .. n : g[i] \in Seq(S)
       BY <1>1, <1>13
<1> HIDE DEF A
<1>15. g \in [0 .. n -> Seq(S)]
       BY <1>10, <1>14
<1> QED BY <1>1, <1>9, <1>10, <1>15, Zenon DEF RedactedSteps, hides

\* The loop leaves exactly the members that are not private, in order, although it deletes
\* them by key and keys may repeat: when it comes to a private member, that is the first one
\* left with its key.
LEMMA RedactedIsChosen ==
    ASSUME NEW S, NEW c \in Seq(S), NEW u
    PROVE  Redacted(u, c) = Chosen(c, {m \in Range(c) : ~isPrivateAttr(u, m.key)})
<1> DEFINE hides(m) == isPrivateAttr(u, m.key)
           T == {m \in Range(c) : ~hides(m)}
<1>1. PICK n \in Nat : n = Len(c) /\ DOMAIN c = 1 .. n /\ \A i \in 1 .. n : c[i] \in S
      OBVIOUS
<1>2. PICK g : RedactedSteps(g, u, c, S) /\ Redacted(u, c) = g[n]
      BY <1>1, RedactedIs
<1>3. PICK a : ChosenSteps(a, c, S, T) /\ Chosen(c, T) = a[n]
  <2> HIDE DEF T
  <2> QED BY <1>1, ChosenIs, Zenon
<1>4. /\ g \in [0 .. n -> Seq(S)] /\ g[0] = c
      /\ \A i \in 1 .. n : g[i] = IF hides(c[i]) THEN WithoutKey(g[i - 1], c[i].key) ELSE g[i - 1]
      BY <1>1, <1>2, Zenon DEF RedactedSteps
<1>5. /\ a \in [0 .. n -> Seq(S)] /\ a[0] = <<>>
      /\ \A i \in 1 .. n : a[i] = IF hides(c[i]) THEN a[i - 1] ELSE Append(a[i - 1], c[i])
  <2>1. \A i \in 1 .. n : c[i] \in T <=> ~hides(c[i])
    <3> HIDE DEF hides
    <3> QED BY <1>1 DEF Range
  <2> HIDE DEF hides, T
  <2> QED BY <1>1, <1>3, <2>1, Zenon DEF ChosenSteps
<1> HIDE DEF hides, T
<1> DEFINE Is(t, q, m, i) ==
               /\ m = Len(q) /\ Len(t) = m + (n - i)
               /\ \A j \in 1 .. m : t[j] = q[j] /\ ~hides(q[j])
               /\ \A j \in 1 .. n - i : t[m + j] = c[i + j]
           Left(i) == \E m \in Nat : Is(g[i], a[i], m, i)
           A == {i \in Nat : i <= n => Left(i)}
<1>6. 0 \in A
  <2>1. Is(g[0], a[0], 0, 0)
        BY <1>1, <1>4, <1>5
  <2> HIDE DEF Is
  <2> QED BY <2>1
<1>7. ASSUME NEW i \in Nat, i \in A PROVE i + 1 \in A
  <2> HIDE DEF Left, Is
  <2> SUFFICES ASSUME i + 1 <= n PROVE Left(i + 1)
      OBVIOUS
  <2>1. PICK k \in 1 .. n : k = i + 1 /\ i = k - 1 /\ i \in 0 .. n
        BY <1>1
  <2>2. PICK m \in Nat : Is(g[i], a[i], m, i)
    <3>1. Left(i)
          BY <1>1, <1>7, <2>1
    <3> QED BY <3>1, Zenon DEF Left
  <2>3. PICK q \in Seq(S), t \in Seq(S) : q = a[i] /\ t = g[i]
        BY <1>4, <1>5, <2>1, Zenon
  <2>4. /\ m = Len(q) /\ Len(t) = m + (n - i)
        /\ \A j \in 1 .. m : t[j] = q[j] /\ ~hides(q[j])
        /\ \A j \in 1 .. n - i : t[m + j] = c[i + j]
        BY <2>2, <2>3, Zenon DEF Is
  <2>5. t[m + 1] = c[k]
    <3>1. 1 \in 1 .. n - i
          BY <2>1
    <3> QED BY <3>1, <2>1, <2>4, Zenon
  <2>6. /\ g[k] = IF hides(c[k]) THEN WithoutKey(t, c[k].key) ELSE t
        /\ a[k] = IF hides(c[k]) THEN q ELSE Append(q, c[k])
        BY <1>4, <1>5, <2>1, <2>3, Zenon
  <2>7. CASE hides(c[k])
    <3>1. \A j \in 1 .. m : t[j].key # c[k].key
          BY <2>4, <2>7, Zenon DEF hides
    <3>2. PICK l \in Nat : l = Len(t) /\ m < l /\ l - 1 = m + (n - k)
      <4>1. PICK l \in Nat : l = Len(t)
            OBVIOUS
      <4>2. l = m + (n - i)
            BY <4>1, <2>4, Zenon
      <4> QED BY <4>1, <4>2, <2>1
    <3>3. PICK w \in Seq(S) : w = WithoutKey(t, c[k].key)
          BY WithoutKeyType, Zenon
    <3>4. IsWithout(w, t, m, l)
          BY <3>1, <3>2, <3>3, <2>5, WithoutNext, Zenon
    <3>5. /\ DOMAIN w = 1 .. l - 1
          /\ \A j \in 1 .. l - 1 : w[j] = t[IF j < m + 1 THEN j ELSE j + 1]
          BY <3>4, Zenon DEF IsWithout
    <3>6. Len(w) = m + (n - k)
      <4>1. l - 1 \in Nat
            BY <3>2
      <4>2. Len(w) = l - 1
            BY <4>1, <3>5, LengthIs, Zenon
      <4> QED BY <4>2, <3>2, Zenon
    <3>7. ASSUME NEW j \in 1 .. m PROVE w[j] = q[j]
      <4>1. j \in 1 .. l - 1 /\ j < m + 1
            BY <3>2, <2>1
      <4> QED BY <4>1, <3>5, <2>4, Zenon
    <3>8. ASSUME NEW j \in 1 .. n - k PROVE w[m + j] = c[k + j]
      <4>1. m + j \in 1 .. l - 1 /\ ~(m + j < m + 1) /\ (m + j) + 1 = m + (j + 1)
            BY <3>2, <2>1
      <4>2. j + 1 \in 1 .. n - i /\ i + (j + 1) = k + j
            BY <2>1
      <4>3. w[m + j] = t[m + (j + 1)]
            BY <4>1, <3>5, Zenon
      <4> QED BY <4>2, <4>3, <2>4, Zenon
    <3>9. Is(w, q, m, k)
          BY <3>6, <3>7, <3>8, <2>4, Zenon DEF Is
    <3> QED BY <3>3, <3>9, <2>1, <2>6, <2>7, Zenon DEF Left
  <2>8. CASE ~hides(c[k])
    <3>1. PICK x \in S : x = c[k]
          BY <1>1
    <3>2. Append(q, x) \in Seq(S)
          OBVIOUS
    <3>3. PICK r \in Seq(S) : r = Append(q, x)
          BY <3>2, Zenon
    <3>4. Len(r) = m + 1 /\ r[m + 1] = x /\ \A j \in 1 .. m : r[j] = q[j]
          BY <2>4, <3>3
    <3>5. ASSUME NEW j \in 1 .. m + 1 PROVE t[j] = r[j] /\ ~hides(r[j])
      <4>1. CASE j = m + 1
            BY <4>1, <3>1, <3>4, <2>5, <2>8, Zenon
      <4>2. CASE j # m + 1
        <5>1. j \in 1 .. m
              BY <4>2
        <5> QED BY <5>1, <3>4, <2>4, Zenon
      <4> QED BY <4>1, <4>2
    <3>6. ASSUME NEW j \in 1 .. n - k PROVE t[(m + 1) + j] = c[k + j]
      <4>1. j + 1 \in 1 .. n - i /\ i + (j + 1) = k + j /\ m + (j + 1) = (m + 1) + j
            BY <2>1
      <4> QED BY <4>1, <2>4, Zenon
    <3>7. Len(t) = (m + 1) + (n - k) /\ m + 1 \in Nat
          BY <2>1, <2>4
    <3>8. Is(t, r, m + 1, k)
          BY <3>4, <3>5, <3>6, <3>7, Zenon DEF Is
    <3> QED BY <3>1, <3>3, <3>7, <3>8, <2>1, <2>6, <2>8, Zenon DEF Left
  <2> QED BY <2>7, <2>8
<1>8. Nat \subseteq A
  <2> HIDE DEF A
  <2> QED BY <1>6, <1>7, SetInduction, Zenon
<1>9. g[n] = a[n]
  <2> HIDE DEF Left, Is
  <2>1. Left(n) /\ g[n] \in Seq(S) /\ a[n] \in Seq(S)
        BY <1>4, <1>5, <1>8
  <2>2. PICK p, q, k : /\ p \in Seq(S) /\ p = g[n] /\ q \in Seq(S) /\ q = a[n] /\ k \in Nat
                       /\ Is(p, q, k, n)
        BY <2>1, Zenon DEF Left
  <2>3. Len(q) = k /\ Len(p) = k + (n - n) /\ \A j \in 1 .. k : p[j] = q[j]
        BY <2>2, Zenon DEF Is
  <2>4. Len(p) = k
        BY <2>2, <2>3
  <2>5. p = q
        BY <2>2, <2>3, <2>4, SameElements, SMTT(30)
  <2> QED BY <2>2, <2>5
<1> QED BY <1>2, <1>3, <1>9, Zenon DEF T, hides

-----------------------------------------------------------------------------

\* What the setters keep: at most one user, with at most one object of custom attributes.
UserInv ==
    ldUser = <<>> \/ \E u \in [key: UserKeys \union {DeviceId}, anonymous: BOOLEAN,
                                strings: [Range(Fields) -> {<<>>} \union {<<x>> : x \in Texts}],
                                custom: {<<>>} \union {<<c>> : c \in Customs},
                                privateAttributeNames: Seq(Names)] : ldUser = <<u>>

\* LDUserNew and every setter keep it.
LEMMA UsersAreTyped == UserSpec => []UserInv
<1> DEFINE Strings == [Range(Fields) -> {<<>>} \union {<<x>> : x \in Texts}]
           Custom == {<<>>} \union {<<c>> : c \in Customs}
           Keys1 == UserKeys \union {DeviceId}
           Users1 == [key: Keys1, anonymous: BOOLEAN, strings: Strings, custom: Custom,
                      privateAttributeNames: Seq(Names)]
<1>1. UserInit => UserInv
      BY DEF UserInit, NULL, UserInv
<1>2. UserInv /\ [UserNext]_(userVars) => UserInv'
  <2> SUFFICES ASSUME UserInv, UserNext PROVE UserInv'
      BY DEF UserInv, userVars
  <2>1. ASSUME NEW v \in Users1, ldUser' = <<v>> PROVE UserInv'
        BY <2>1, Zenon DEF UserInv
  <2>2. CASE \E key \in UserKeys : LDUserNew(key)
    <3>1. PICK key \in UserKeys : LDUserNew(key)
          BY <2>2
    <3>2. [f \in Range(Fields) |-> <<>>] \in Strings /\ <<>> \in Custom /\ <<>> \in Seq(Names)
          OBVIOUS
    <3> HIDE DEF Strings, Custom
    <3>3. Fresh(DeviceId, TRUE) \in Users1 /\ Fresh(key, FALSE) \in Users1
          BY <3>2 DEF Fresh, NULL
    <3> HIDE DEF Users1
    <3> QED BY <3>1, <3>3, <2>1, Zenon DEF LDUserNew
  <2>3. CASE ldUser # <<>>
    <3>1. PICK u \in Users1 : ldUser = <<u>> /\ User = u
          BY <2>3 DEF UserInv, User
    <3> HIDE DEF Keys1
    <3>2. CASE \E f \in Range(Fields), v \in {<<>>} \union {<<x>> : x \in Texts} : SetString(f, v)
      <4>1. PICK f \in Range(Fields), v \in {<<>>} \union {<<x>> : x \in Texts} : SetString(f, v)
            BY <3>2
      <4>2. PICK s \in Strings : s = [u.strings EXCEPT ![f] = v]
            BY Zenon
      <4> HIDE DEF Strings, Custom
      <4>3. [u EXCEPT !.strings[f] = v] \in Users1
            BY <4>2
      <4> HIDE DEF Users1
      <4> QED BY <4>1, <4>3, <3>1, <2>1, Zenon DEF SetString
    <3>3. CASE \E anon \in BOOLEAN : LDUserSetAnonymous(anon)
      <4>1. PICK anon \in BOOLEAN : LDUserSetAnonymous(anon)
            BY <3>3
      <4> HIDE DEF Strings, Custom
      <4>2. [u EXCEPT !.anonymous = anon] \in Users1
            OBVIOUS
      <4> HIDE DEF Users1
      <4> QED BY <4>1, <4>2, <3>1, <2>1, Zenon DEF LDUserSetAnonymous
    <3>4. CASE \E c \in Customs : LDUserSetCustom(c)
      <4>1. PICK c \in Customs : LDUserSetCustom(c)
            BY <3>4
      <4>2. <<c>> \in Custom
            OBVIOUS
      <4> HIDE DEF Strings, Custom
      <4>3. [u EXCEPT !.custom = <<c>>] \in Users1
            BY <4>2
      <4> HIDE DEF Users1
      <4> QED BY <4>1, <4>3, <3>1, <2>1, Zenon DEF LDUserSetCustom
    <3>5. CASE \E n \in Names : LDUserSetPrivateAttributes(<<n>>) \/ LDUserAddPrivateAttribute(n)
      <4>1. PICK n \in Names : LDUserSetPrivateAttributes(<<n>>) \/ LDUserAddPrivateAttribute(n)
            BY <3>5
      <4>2. <<n>> \in Seq(Names) /\ Append(u.privateAttributeNames, n) \in Seq(Names)
            OBVIOUS
      <4> HIDE DEF Strings, Custom
      <4>3. /\ [u EXCEPT !.privateAttributeNames = <<n>>] \in Users1
            /\ [u EXCEPT !.privateAttributeNames = Append(@, n)] \in Users1
            BY <4>2, Zenon
      <4> HIDE DEF Users1
      <4> QED BY <4>1, <4>3, <3>1, <2>1, Zenon DEF LDUserSetPrivateAttributes, LDUserAddPrivateAttribute
    <3> QED BY <2>3, <3>2, <3>3, <3>4, <3>5, <2>2, Zenon DEF UserNext, NULL
  <2> QED BY <2>2, <2>3, Zenon DEF UserNext, NULL
<1> QED BY <1>1, <1>2, PTL DEF UserSpec

\* The code's test and the marks agree.
LEMMA PrivateIs ==
    ASSUME NEW u, NEW name
    PROVE  isPrivateAttr(u, name) <=> Private(u, name)
BY Zenon DEF isPrivateAttr, Private, Marked, LDi_textInArray

\* In every state the user's custom attributes, where there are some, are a sequence.
LEMMA CustomIsOrdered ==
    ASSUME MembersAreOrdered, UserInv, ldUser # <<>>, User.custom # <<>>
    PROVE  User.custom = <<User.custom[1]>> /\ User.custom[1] \in Seq(Range(User.custom[1]))
<1>1. PICK u : ldUser = <<u>> /\ User = u /\ u.custom \in {<<>>} \union {<<c>> : c \in Customs}
      BY DEF UserInv, User
<1>2. PICK c \in Customs : u.custom = <<c>>
      BY <1>1
<1> QED BY <1>1, <1>2 DEF MembersAreOrdered

\* Nothing private is sent.
THEOREM PrivacyCorrect ==
    ASSUME MembersAreOrdered
    PROVE  UserSpec => []PrivateStaysPrivate
<1>1. UserInv => PrivateStaysPrivate
  <2> SUFFICES ASSUME UserInv, ldUser # <<>> PROVE PrivateStaysPrivate
      BY Zenon DEF PrivateStaysPrivate, NULL
  <2> DEFINE u == User
             sent == LDi_createEventUser(u)
             c == u.custom[1]
             T == {m \in Range(c) : ~isPrivateAttr(u, m.key)}
  <2>1. /\ sent.strings = [f \in Range(Fields) |-> IF isPrivateAttr(u, f) THEN <<>> ELSE u.strings[f]]
        /\ sent.custom = IF u.custom = <<>> THEN <<>> ELSE <<Redacted(u, c)>>
        BY DEF LDi_createEventUser, NULL
  <2> HIDE DEF sent
  <2>2. ASSUME NEW f \in Range(Fields), Private(u, f) PROVE sent.strings[f] = <<>>
        BY <2>1, <2>2, PrivateIs, Zenon
  <2>3. ASSUME sent.custom # <<>>, NEW m \in Range(sent.custom[1]) PROVE ~Private(u, m.key)
    <3>1. u.custom # <<>> /\ sent.custom[1] = Redacted(u, c)
          BY <2>1, <2>3
    <3>2. c \in Seq(Range(c))
          BY <3>1, CustomIsOrdered, Zenon
    <3>3. Redacted(u, c) = Chosen(c, T)
      <4> HIDE DEF c, u
      <4> QED BY <3>2, RedactedIsChosen, Zenon
    <3>4. Range(Chosen(c, T)) = Range(c) \intersect T
      <4> HIDE DEF c, u, T
      <4> QED BY <3>2, RangeOfChosen, Zenon
    <3>5. m \in T
          BY <3>1, <3>3, <3>4, <2>3, Zenon
    <3> QED BY <3>5, PrivateIs, Zenon
  <2> QED BY <2>2, <2>3, Zenon DEF PrivateStaysPrivate, NULL, sent
<1> QED BY <1>1, UsersAreTyped, PTL

\* The elements of a concatenation.
LEMMA RangeOfConcatenation ==
    ASSUME NEW S, NEW a \in Seq(S), NEW b \in Seq(S)
    PROVE  Range(a \o b) = Range(a) \union Range(b)
<1>1. PICK m, k, t : /\ m \in Nat /\ k \in Nat /\ m = Len(a) /\ k = Len(b) /\ t = a \o b
                     /\ DOMAIN a = 1 .. m /\ DOMAIN b = 1 .. k
  <2>1. Len(a) \in Nat /\ Len(b) \in Nat /\ DOMAIN a = 1 .. Len(a) /\ DOMAIN b = 1 .. Len(b)
        OBVIOUS
  <2> QED BY <2>1, Zenon
<1>2. /\ t \in Seq(S) /\ Len(t) = m + k /\ \A j \in 1 .. m : t[j] = a[j]
      /\ \A j \in 1 .. k : t[m + j] = b[j]
  <2>1. IsConcatenation(a \o b, a, b, S)
        BY Concatenation, Zenon
  <2> QED BY <2>1, <1>1, Zenon DEF IsConcatenation
<1>3. DOMAIN t = 1 .. m + k
      BY <1>2
<1>4. ASSUME NEW i \in DOMAIN t PROVE t[i] \in Range(a) \union Range(b)
  <2>1. CASE i \in 1 .. m
        BY <2>1, <1>1, <1>2, Zenon DEF Range
  <2>2. CASE i \notin 1 .. m
    <3>1. PICK j \in 1 .. k : i = m + j
      <4>1. i - m \in 1 .. k /\ i = m + (i - m)
            BY <2>2, <1>1, <1>3
      <4> QED BY <4>1, Zenon
    <3> QED BY <3>1, <1>1, <1>2, Zenon DEF Range
  <2> QED BY <2>1, <2>2
<1>5. ASSUME NEW i \in 1 .. m PROVE i \in DOMAIN t
      BY <1>1, <1>3
<1>6. ASSUME NEW i \in 1 .. k PROVE m + i \in DOMAIN t
      BY <1>1, <1>3
<1>7. ASSUME NEW x \in Range(a) PROVE x \in Range(t)
  <2>1. PICK i \in 1 .. m : x = a[i]
        BY <1>1, Zenon DEF Range
  <2> QED BY <2>1, <1>2, <1>5, Zenon DEF Range
<1>8. ASSUME NEW x \in Range(b) PROVE x \in Range(t)
  <2>1. PICK i \in 1 .. k : x = b[i]
        BY <1>1, Zenon DEF Range
  <2> QED BY <2>1, <1>2, <1>6, Zenon DEF Range
<1>9. Range(t) \subseteq Range(a) \union Range(b)
      BY <1>4, Zenon DEF Range
<1> QED BY <1>1, <1>7, <1>8, <1>9, Zenon

\* The keys of a sequence of members.
LEMMA KeysOf ==
    ASSUME NEW S, NEW q \in Seq(S)
    PROVE  /\ [i \in DOMAIN q |-> q[i].key] \in Seq({m.key : m \in S})
           /\ Range([i \in DOMAIN q |-> q[i].key]) = {m.key : m \in Range(q)}
<1> DEFINE ks == [i \in DOMAIN q |-> q[i].key]
           K == {m.key : m \in S}
<1>1. PICK n \in Nat : DOMAIN q = 1 .. n /\ \A i \in 1 .. n : q[i] \in S
  <2>1. DOMAIN q = 1 .. Len(q) /\ Len(q) \in Nat /\ \A i \in 1 .. Len(q) : q[i] \in S
        OBVIOUS
  <2> QED BY <2>1, Zenon
<1>2. DOMAIN ks = 1 .. n /\ \A i \in 1 .. n : ks[i] = q[i].key /\ ks[i] \in K
      BY <1>1, Zenon
<1>3. ks = [i \in 1 .. n |-> ks[i]]
      BY <1>1, Zenon
<1> HIDE DEF ks, K
<1>4. ks \in Seq(K)
      BY <1>2, <1>3
<1>5. Range(ks) = {m.key : m \in Range(q)}
      BY <1>1, <1>2, Zenon DEF Range
<1> QED BY <1>4, <1>5 DEF ks, K

\* The names that are announced: of the attributes that are there and private.
LEMMA AnnouncedNames ==
    ASSUME MembersAreOrdered, UserInv, ldUser # <<>>
    PROVE  \A k : k \in Range(HiddenNames(User)) <=>
               \/ k \in Range(Fields) /\ User.strings[k] # <<>> /\ isPrivateAttr(User, k)
               \/ /\ User.custom # <<>>
                  /\ \E m \in Range(User.custom[1]) : m.key = k /\ isPrivateAttr(User, k)
<1> DEFINE u == User
           c == u.custom[1]
           F1 == {f \in Range(Fields) : u.strings[f] # <<>> /\ isPrivateAttr(u, f)}
           M1 == {x \in Range(c) : isPrivateAttr(u, x.key)}
           KS == [i \in DOMAIN HiddenMembers(u) |-> HiddenMembers(u)[i].key]
           R == Range(c)
<1>1. HiddenFields(u) \in Seq(Range(Fields)) /\ Range(HiddenFields(u)) = F1
  <2>1. HiddenFields(u) = Chosen(Fields, F1)
        BY Zenon DEF HiddenFields, NULL
  <2>2. F1 \subseteq Range(Fields)
        BY Zenon
  <2> HIDE DEF F1
  <2>3. Fields \in Seq(Range(Fields))
        BY Zenon DEF MembersAreOrdered
  <2>4. /\ Chosen(Fields, F1) \in Seq(Range(Fields))
        /\ Range(Chosen(Fields, F1)) = Range(Fields) \intersect F1
        BY <2>3, RangeOfChosen, Zenon
  <2> QED BY <2>1, <2>2, <2>4, Zenon
<1>2. HiddenNames(u) = HiddenFields(u) \o KS
      BY Zenon DEF HiddenNames
<1> HIDE DEF F1
<1>3. CASE u.custom = <<>>
  <2>1. HiddenMembers(u) = <<>>
        BY <1>3, Zenon DEF HiddenMembers, NULL
  <2>2. KS = <<>>
        BY <2>1
  <2> HIDE DEF u, KS
  <2>3. HiddenNames(u) = HiddenFields(u)
        BY <1>1, <1>2, <2>2
  <2> QED BY <1>1, <1>3, <2>3, Zenon DEF u, F1
<1>4. CASE u.custom # <<>>
  <2>1. c \in Seq(R)
        BY <1>4, CustomIsOrdered, Zenon
  <2>2. HiddenMembers(u) = Chosen(c, M1)
        BY <1>4, Zenon DEF HiddenMembers, NULL
  <2>3. M1 \subseteq R
        BY Zenon
  <2>4. HiddenMembers(u) \in Seq(R) /\ Range(HiddenMembers(u)) = M1
    <3> HIDE DEF M1, R
    <3>1. Chosen(c, M1) \in Seq(R) /\ Range(Chosen(c, M1)) = Range(c) \intersect M1
          BY <2>1, RangeOfChosen, Zenon
    <3> QED BY <3>1, <2>2, <2>3, Zenon DEF R
  <2>5. KS \in Seq({m.key : m \in R}) /\ Range(KS) = {m.key : m \in M1}
    <3> HIDE DEF M1, R
    <3> QED BY <2>4, KeysOf, Zenon
  <2> HIDE DEF KS, M1, R, c, u
  <2> DEFINE S == Range(Fields) \union {m.key : m \in R}
  <2>6. HiddenFields(u) \in Seq(S) /\ KS \in Seq(S)
        BY <1>1, <2>5
  <2>7. Range(HiddenFields(u) \o KS) = Range(HiddenFields(u)) \union Range(KS)
    <3> HIDE DEF S
    <3>1. PICK p \in Seq(S), q \in Seq(S) : p = HiddenFields(u) /\ q = KS
          BY <2>6, Zenon
    <3>2. Range(p \o q) = Range(p) \union Range(q)
          BY RangeOfConcatenation
    <3> QED BY <3>1, <3>2, Zenon
  <2>8. Range(HiddenNames(u)) = F1 \union {m.key : m \in M1}
        BY <2>5, <2>7, <1>1, <1>2, Zenon
  <2> QED BY <1>4, <2>8, Zenon DEF u, c, F1, M1
<1> QED BY <1>3, <1>4, Zenon

\* Everything that is not private is sent, unchanged and in order, and what is missing is named.
THEOREM CompletenessCorrect ==
    ASSUME MembersAreOrdered
    PROVE  UserSpec => []OnlyPrivateIsMissing
<1>1. UserInv => OnlyPrivateIsMissing
  <2> SUFFICES ASSUME UserInv, ldUser # <<>> PROVE OnlyPrivateIsMissing
      BY Zenon DEF OnlyPrivateIsMissing, NULL
  <2> DEFINE u == User
             sent == LDi_createEventUser(u)
             full == LDi_serializeUser(u)
             c == u.custom[1]
             hides(k) == isPrivateAttr(u, k)
             T == {m \in Range(c) : ~hides(m.key)}
             names == Range(sent.privateAttrs)
  <2>1. /\ sent.strings = [f \in Range(Fields) |-> IF hides(f) THEN <<>> ELSE u.strings[f]]
        /\ sent.custom = IF u.custom = <<>> THEN <<>> ELSE <<Redacted(u, c)>>
        /\ sent.privateAttrs = HiddenNames(u) /\ sent.key = u.key /\ sent.anonymous = u.anonymous
        BY DEF LDi_createEventUser, NULL
  <2>2. /\ full.key = u.key /\ full.anonymous = u.anonymous /\ full.strings = u.strings
        /\ full.custom = IF u.custom = <<<<>>>> THEN <<>> ELSE u.custom
        BY DEF LDi_serializeUser, NULL
  <2> HIDE DEF sent, full
  <2>3. \A k : k \in names <=>
              \/ k \in Range(Fields) /\ u.strings[k] # <<>> /\ hides(k)
              \/ u.custom # <<>> /\ \E m \in Range(c) : m.key = k /\ hides(k)
        BY <2>1, AnnouncedNames, Zenon
  <2> HIDE DEF names
  <2>4. ASSUME NEW f \in Range(Fields)
        PROVE  /\ full.strings[f] # <<>> => (sent.strings[f] = full.strings[f]) # (f \in names)
               /\ full.strings[f] = <<>> => sent.strings[f] = <<>>
    <3> HIDE DEF hides
    <3>1. sent.strings[f] = (IF hides(f) THEN <<>> ELSE u.strings[f]) /\ full.strings[f] = u.strings[f]
          BY <2>1, <2>2, Zenon
    <3>2. f \in names => hides(f)
          BY <2>3, Zenon
    <3>3. CASE hides(f)
          BY <3>1, <3>3, <2>3, Zenon
    <3>4. CASE ~hides(f)
          BY <3>1, <3>2, <3>4, Zenon
    <3> QED BY <3>3, <3>4
  <2>5. ASSUME full.custom # <<>>
        PROVE  sent.custom[1] = Chosen(full.custom[1],
                                         {m \in Range(full.custom[1]) : m.key \notin names})
    <3>1. u.custom # <<>> /\ full.custom[1] = c /\ sent.custom[1] = Redacted(u, c)
          BY <2>1, <2>2, <2>5
    <3>2. c \in Seq(Range(c))
          BY <3>1, CustomIsOrdered, Zenon
    <3>3. Redacted(u, c) = Chosen(c, T)
      <4> HIDE DEF c, u
      <4> QED BY <3>2, RedactedIsChosen, Zenon
    <3>4. ASSUME NEW m \in Range(c) PROVE hides(m.key) <=> m.key \in names
          BY <3>1, <2>3, Zenon
    <3>5. T = {m \in Range(c) : m.key \notin names}
          BY <3>4, Zenon
    <3> QED BY <3>1, <3>3, <3>5, Zenon
  <2> QED BY <2>1, <2>2, <2>4, <2>5, Zenon DEF OnlyPrivateIsMissing, NULL, sent, full, names
<1> QED BY <1>1, UsersAreTyped, PTL

-----------------------------------------------------------------------------
(* Evaluations *)

\* The flag is one of the server's, or there is none.
FlagIsTheServers == flag = <<>> \/ \E f \in Flags : flag = <<f>>

\* A sequence of at most one.
LEMMA AtMostOne ==
    ASSUME NEW x
    PROVE  Range(<<x>>) = {x} /\ Range(<<>>) = {} /\ <<x>>[1] = x /\ <<x>> # <<>>
  BY SMTT(20) DEF Range

\* An evaluation leaves details, and an event, that explain the value it returns.
LEMMA DetailsOfCall ==
    ASSUME ReasonsAreTheServers, FlagIsTheServers,
           NEW kind \in Kinds, NEW n, NEW detailed \in BOOLEAN, Variation(kind, n, detailed)
    PROVE  DetailsExplainValue'
<1> DEFINE value == LDi_evalInternal(kind, n)
           fallback == FallbackFor(kind, n)
           d == fillDetails(kind)
           e == FeatureEvent(fallback, value, detailed)
           call == [kind |-> kind, fallback |-> fallback, value |-> value,
                    details |-> IF detailed THEN <<d>> ELSE <<>>,
                    event |-> IF shouldGenerateFeatureEvent THEN <<e>> ELSE <<>>]
<1>1. last' = <<call>> /\ flag' = flag
      BY DEF Variation, NULL
<1>2. SUFFICES ASSUME detailed
               PROVE  IF d.reason \in {<<"FLAG_NOT_FOUND">>, <<"WRONG_TYPE">>}
                      THEN d.variationIndex = -1 /\ value = fallback
                      ELSE /\ flag # <<>>
                           /\ value = (IF kind # "json" /\ flag[1].value.type = "null"
                                       THEN fallback ELSE flag[1].value)
                           /\ shouldGenerateFeatureEvent => e.reason = d.reason
  <2>1. Range(last') = {call}
        BY <1>1, AtMostOne, ZenonT(30)
  <2>2. /\ call.kind = kind /\ call.fallback = fallback /\ call.value = value
        /\ call.details = (IF detailed THEN <<d>> ELSE <<>>)
        /\ call.event = (IF shouldGenerateFeatureEvent THEN <<e>> ELSE <<>>)
        OBVIOUS
  <2> HIDE DEF call, d, e, value, fallback
  <2>3. Range(call.details) = (IF detailed THEN {d} ELSE {})
        BY <2>2, AtMostOne, Zenon
  <2>4. Range(call.event) = (IF shouldGenerateFeatureEvent THEN {e} ELSE {})
        BY <2>2, AtMostOne, Zenon
  <2> QED BY <2>1, <2>2, <2>3, <2>4, <1>1 DEF DetailsExplainValue, NULL
<1>3. CASE flag = <<>>
  <2>1. value = fallback /\ d = Error("FLAG_NOT_FOUND")
        BY <1>3, SMTT(20) DEF LDi_evalInternal, TypeMatches, NULL, fillDetails
  <2> QED BY <2>1, SMTT(20) DEF Error
<1>4. ASSUME NEW f \in Flags, flag = <<f>>
      PROVE  IF d.reason \in {<<"FLAG_NOT_FOUND">>, <<"WRONG_TYPE">>}
             THEN d.variationIndex = -1 /\ value = fallback
             ELSE /\ flag # <<>>
                  /\ value = (IF kind # "json" /\ flag[1].value.type = "null"
                              THEN fallback ELSE flag[1].value)
                  /\ shouldGenerateFeatureEvent => e.reason = d.reason
  <2>1. flag[1] = f /\ flag # <<>>
        BY <1>4
  <2>2. e.reason = f.reason
        BY <1>2, <2>1 DEF FeatureEvent
  <2>3. value = IF TypeMatches(kind) THEN f.value ELSE fallback
        BY <2>1 DEF LDi_evalInternal
  <2>4. TypeMatches(kind) <=> kind = "json" \/ f.value.type = kind
        BY <2>1 DEF TypeMatches, NULL
  <2>5. d = IF TypeMatches(kind) \/ f.value.type = "null"
            THEN [reason |-> f.reason, variationIndex |-> f.variation] ELSE Error("WRONG_TYPE")
        BY <2>1 DEF fillDetails, NULL
  <2>6. f.reason \notin {<<"FLAG_NOT_FOUND">>, <<"WRONG_TYPE">>} /\ kind # "null"
        BY DEF ReasonsAreTheServers, Kinds
  <2>7. CASE TypeMatches(kind)
        BY <2>1, <2>2, <2>3, <2>4, <2>5, <2>6, <2>7, SMTT(20)
  <2>8. CASE ~TypeMatches(kind)
        BY <2>1, <2>2, <2>3, <2>4, <2>5, <2>6, <2>8 DEF Error
  <2> QED BY <2>7, <2>8
<1> QED BY <1>3, <1>4 DEF FlagIsTheServers

\* DetailsExplainValue, for every set of flags the server may give.
THEOREM DetailsCorrect ==
    ASSUME ReasonsAreTheServers
    PROVE  EvalSpec => []DetailsExplainValue
<1> DEFINE Inv == FlagIsTheServers /\ DetailsExplainValue
<1>1. EvalInit => Inv
      BY AtMostOne, Zenon DEF EvalInit, DetailsExplainValue, FlagIsTheServers, NULL
<1>2. Inv /\ [EvalNext]_evalVars => Inv'
  <2> SUFFICES ASSUME Inv, [EvalNext]_evalVars PROVE Inv'
      OBVIOUS
  <2>1. ASSUME NEW kind \in Kinds, NEW n \in Fallbacks, NEW detailed \in BOOLEAN,
               Variation(kind, n, detailed)
        PROVE  Inv'
    <3>1. flag' = flag
          BY <2>1 DEF Variation
    <3> QED BY <2>1, <3>1, DetailsOfCall DEF FlagIsTheServers
  <2>2. ASSUME NEW f \in {<<>>} \union {<<x>> : x \in Flags}, FlagChanges(f)
        PROVE  Inv'
    <3>1. last' = <<>> /\ flag' = f
          BY <2>2 DEF FlagChanges, NULL
    <3> QED BY <3>1, AtMostOne, Zenon DEF DetailsExplainValue, FlagIsTheServers
  <2>3. CASE SummaryTaken
    <3>1. last' = <<>> /\ flag' = flag
          BY <2>3, SMTT(20) DEF SummaryTaken, NULL
    <3> QED BY <3>1, AtMostOne, Zenon DEF DetailsExplainValue, FlagIsTheServers
  <2>4. CASE UNCHANGED evalVars
        BY <2>4 DEF evalVars, DetailsExplainValue, FlagIsTheServers
  <2> QED BY <2>1, <2>2, <2>3, <2>4 DEF EvalNext, NULL
<1> QED BY <1>1, <1>2, PTL DEF EvalSpec

-----------------------------------------------------------------------------

\* What a call can be counted under, can return, and what is remembered of it.
EvalKeys == {Unknown} \union {<<f.version, f.variation>> : f \in Flags}
EvalValues == {f.value : f \in Flags}
              \union {FallbackFor(kind, n) : kind \in Kinds, n \in Fallbacks}
EvalCalls == [key: EvalKeys, value: EvalValues, typed: BOOLEAN]

\* What every step keeps of calls and summary: every call has its entry, an entry counts the
\* calls with its key and has the value of one of them, and a call that found its type
\* returned the value of a state of the flag.
SummaryInv ==
    /\ FlagIsTheServers
    /\ calls \in Seq(EvalCalls)
    /\ summary \in [{calls[i].key : i \in DOMAIN calls} -> [count: Nat, value: EvalValues]]
    /\ \A k \in DOMAIN summary :
          /\ HasSize(Counted(k), summary[k].count)
          /\ \E i \in Counted(k) : calls[i].value = summary[k].value
    /\ \A i \in DOMAIN calls : calls[i].typed =>
          \E f \in Flags : calls[i].key = <<f.version, f.variation>> /\ calls[i].value = f.value

\* A set with one element.
LEMMA JustOne == ASSUME NEW x PROVE HasSize({x}, 1)
<1>1. [i \in 1 .. 1 |-> x] \in Bijection(1 .. 1, {x})
      BY DEF Bijection, Injection, Surjection, IsInjective
<1> QED BY <1>1, Zenon DEF HasSize, ExistsBijection

\* A set with one element more.
LEMMA OneMore ==
    ASSUME NEW S, NEW n \in Nat, HasSize(S, n), NEW x, x \notin S
    PROVE  HasSize(S \union {x}, n + 1)
<1>1. PICK f \in Bijection(1 .. n, S) : TRUE
      BY Zenon DEF HasSize, ExistsBijection
<1>2. /\ f \in [1 .. n -> S] /\ \A i, j \in 1 .. n : f[i] = f[j] => i = j
      /\ \A y \in S : \E i \in 1 .. n : f[i] = y
      BY <1>1, Zenon DEF Bijection, Injection, Surjection, IsInjective
<1> DEFINE g == [i \in 1 .. n + 1 |-> IF i = n + 1 THEN x ELSE f[i]]
<1>3. /\ g \in [1 .. n + 1 -> S \union {x}] /\ g[n + 1] = x
      /\ \A i \in 1 .. n : i \in 1 .. n + 1 /\ g[i] = f[i] /\ f[i] \in S
      /\ \A i \in 1 .. n + 1 : i = n + 1 \/ i \in 1 .. n
      /\ n + 1 \in 1 .. n + 1
      BY <1>2
<1> HIDE DEF g
<1>4. \A i, j \in 1 .. n + 1 : g[i] = g[j] => i = j
      BY <1>2, <1>3, Zenon
<1>5. \A y \in S \union {x} : \E i \in 1 .. n + 1 : g[i] = y
      BY <1>2, <1>3, Zenon
<1>6. g \in Bijection(1 .. n + 1, S \union {x})
      BY <1>3, <1>4, <1>5, Zenon DEF Bijection, Injection, Surjection, IsInjective
<1> QED BY <1>6, Zenon DEF HasSize, ExistsBijection

\* Then the summary is true.
LEMMA SummaryInvSuffices ==
    ASSUME ValuesByVersion, SummaryInv
    PROVE  SummaryIsTrue
<1>1. Range(calls) = {calls[i] : i \in DOMAIN calls}
      BY DEF Range
<1>2. DOMAIN summary = {calls[i].key : i \in DOMAIN calls}
      BY DEF SummaryInv
<1>3. {c.key : c \in Range(calls)} = DOMAIN summary
      BY <1>1, <1>2, Zenon
<1>4. ASSUME NEW k \in DOMAIN summary, \A i \in Counted(k) : calls[i].typed, NEW i \in Counted(k)
      PROVE  calls[i].value = summary[k].value
  <2>1. PICK j \in Counted(k) : calls[j].value = summary[k].value
        BY DEF SummaryInv
  <2>2. i \in DOMAIN calls /\ j \in DOMAIN calls /\ calls[i].key = k /\ calls[j].key = k
        BY DEF Counted
  <2>3. calls[i].typed /\ calls[j].typed
        BY <1>4
  <2>4. PICK f \in Flags : k = <<f.version, f.variation>> /\ calls[i].value = f.value
        BY <2>2, <2>3, Zenon DEF SummaryInv
  <2>5. PICK g \in Flags : k = <<g.version, g.variation>> /\ calls[j].value = g.value
        BY <2>2, <2>3, Zenon DEF SummaryInv
  <2>6. f.version = g.version /\ f.variation = g.variation
        BY <2>4, <2>5
  <2> QED BY <2>1, <2>4, <2>5, <2>6, Zenon DEF ValuesByVersion
<1>5. \A k \in DOMAIN summary : HasSize(Counted(k), summary[k].count)
      BY DEF SummaryInv
<1>6. SUFFICES ASSUME NEW k \in DOMAIN summary
               PROVE  /\ HasSize(Counted(k), summary[k].count)
                      /\ (\A i \in Counted(k) : calls[i].typed) =>
                             \A i \in Counted(k) : calls[i].value = summary[k].value
  <2>1. DOMAIN summary \union DOMAIN summary = DOMAIN summary
        BY Zenon
  <2> QED BY <1>3, <2>1 DEF SummaryIsTrue
<1> QED BY <1>4, <1>5, Zenon

\* The key, the value and the kind of answer of a call.
LEMMA AnswerOfCall ==
    ASSUME FlagIsTheServers, NEW kind \in Kinds, NEW n \in Fallbacks
    PROVE  /\ SummaryKey \in EvalKeys
           /\ LDi_evalInternal(kind, n) \in EvalValues
           /\ TypeMatches(kind) \in BOOLEAN
           /\ TypeMatches(kind) =>
                \E f \in Flags : /\ SummaryKey = <<f.version, f.variation>>
                                 /\ LDi_evalInternal(kind, n) = f.value
<1>1. TypeMatches(kind) \in BOOLEAN
      BY DEF TypeMatches
<1>2. FallbackFor(kind, n) \in EvalValues
      BY DEF EvalValues
<1>3. CASE flag = <<>>
      BY <1>1, <1>2, <1>3, Zenon DEF TypeMatches, SummaryKey, LDi_evalInternal, NULL, EvalKeys
<1>4. ASSUME NEW f \in Flags, flag = <<f>>
      PROVE  /\ SummaryKey = <<f.version, f.variation>>
             /\ LDi_evalInternal(kind, n) = IF TypeMatches(kind) THEN f.value
                                              ELSE FallbackFor(kind, n)
  <2>1. flag[1] = f /\ flag # NULL
        BY <1>4, AtMostOne, Zenon DEF NULL
  <2> QED BY <2>1, Zenon DEF SummaryKey, LDi_evalInternal
<1>5. \A f \in Flags : f.value \in EvalValues /\ <<f.version, f.variation>> \in EvalKeys
      BY DEF EvalValues, EvalKeys
<1> QED BY <1>1, <1>2, <1>3, <1>4, <1>5, Zenon DEF FlagIsTheServers

\* A call is counted under its key, and under no other.
LEMMA CallInv ==
    ASSUME SummaryInv, NEW kind \in Kinds, NEW n \in Fallbacks, NEW detailed \in BOOLEAN,
           Variation(kind, n, detailed)
    PROVE  SummaryInv'
<1>0. PICK K, v, t : K = SummaryKey /\ v = LDi_evalInternal(kind, n) /\ t = TypeMatches(kind)
      BY Zenon
<1>c. PICK c : c = [key |-> K, value |-> v, typed |-> t]
      BY Zenon
<1>1. calls' = Append(calls, c) /\ flag' = flag
      BY <1>0, <1>c DEF Variation
<1>2. summary' = IF K \in DOMAIN summary
                 THEN [summary EXCEPT ![K].count = @ + 1]
                 ELSE [k \in DOMAIN summary \union {K} |->
                         IF k = K THEN [count |-> 1, value |-> v] ELSE summary[k]]
      BY <1>0 DEF Variation, LDi_summarizeEvent
<1>3. /\ c \in EvalCalls /\ c.key = K /\ c.value = v /\ K \in EvalKeys /\ v \in EvalValues
      /\ c.typed => \E f \in Flags : c.key = <<f.version, f.variation>> /\ c.value = f.value
  <2>1. FlagIsTheServers
        BY DEF SummaryInv
  <2>2. c.key = K /\ c.value = v /\ c.typed = t
        BY <1>c
  <2>3. /\ K \in EvalKeys /\ v \in EvalValues /\ t \in BOOLEAN
        /\ t => \E f \in Flags : K = <<f.version, f.variation>> /\ v = f.value
        BY <2>1, <1>0, AnswerOfCall, Zenon
  <2>4. c \in EvalCalls
        BY <2>3, <1>c, SMTT(20) DEF EvalCalls
  <2> QED BY <2>2, <2>3, <2>4, Zenon
<1>4. PICK m \in Nat : m = Len(calls) /\ DOMAIN calls = 1 .. m
      BY SMTT(20) DEF SummaryInv
<1>5. /\ calls' \in Seq(EvalCalls) /\ DOMAIN calls' = 1 .. m + 1 /\ calls'[m + 1] = c
      /\ \A i \in 1 .. m : calls'[i] = calls[i]
      BY <1>1, <1>3, <1>4 DEF SummaryInv
<1>6. ASSUME NEW k
      PROVE  /\ Counted(k)' = IF k = K THEN Counted(k) \union {m + 1} ELSE Counted(k)
             /\ m + 1 \notin Counted(k)
  <2>1. Counted(k) = {i \in 1 .. m : calls[i].key = k}
        BY <1>4 DEF Counted
  <2>2. Counted(k)' = {i \in 1 .. m + 1 : calls'[i].key = k}
        BY <1>5, SMTT(20) DEF Counted
  <2>3. Counted(k)' = IF k = K THEN Counted(k) \union {m + 1} ELSE Counted(k)
        BY <2>1, <2>2, <1>3, <1>5, SMTT(20)
  <2> QED BY <2>1, <2>3
<1>7. /\ DOMAIN summary = {calls[i].key : i \in DOMAIN calls}
      /\ \A k \in DOMAIN summary : summary[k] \in [count: Nat, value: EvalValues]
      BY SMTT(20) DEF SummaryInv
<1>8. {calls'[i].key : i \in DOMAIN calls'} = DOMAIN summary \union {K}
      BY <1>3, <1>4, <1>5, <1>7
<1>9. /\ DOMAIN summary' = DOMAIN summary \union {K}
      /\ \A k \in DOMAIN summary \ {K} : summary'[k] = summary[k]
      /\ IF K \in DOMAIN summary
         THEN summary'[K] = [summary[K] EXCEPT !.count = @ + 1]
         ELSE summary'[K] = [count |-> 1, value |-> v]
      /\ summary' = [k \in DOMAIN summary' |-> summary'[k]]
      BY <1>2, Zenon
<1>10. ASSUME NEW k \in DOMAIN summary'
       PROVE  /\ summary'[k] \in [count: Nat, value: EvalValues]
              /\ HasSize(Counted(k)', summary'[k].count)
              /\ \E i \in Counted(k)' : calls'[i].value = summary'[k].value
  <2>1. CASE k # K
    <3>1. k \in DOMAIN summary /\ summary'[k] = summary[k] /\ Counted(k)' = Counted(k)
          BY <2>1, <1>6, <1>9
    <3>2. \A i \in Counted(k) : calls'[i] = calls[i]
          BY <1>4, <1>5, SMTT(20) DEF Counted
    <3>3. /\ HasSize(Counted(k), summary[k].count)
          /\ \E i \in Counted(k) : calls[i].value = summary[k].value
          BY <3>1 DEF SummaryInv
    <3> QED BY <3>1, <3>2, <3>3, <1>7, Zenon
  <2>2. CASE k = K /\ K \in DOMAIN summary
    <3>1. summary[K] \in [count: Nat, value: EvalValues]
          BY <2>2, <1>7
    <3>2. /\ summary'[K] \in [count: Nat, value: EvalValues]
          /\ summary'[K].count = summary[K].count + 1 /\ summary'[K].value = summary[K].value
          BY <3>1, <2>2, <1>9
    <3>3. Counted(K)' = Counted(K) \union {m + 1} /\ m + 1 \notin Counted(K)
          BY <1>6
    <3>4. HasSize(Counted(K), summary[K].count)
          BY <2>2, Zenon DEF SummaryInv
    <3>5. PICK i \in Counted(K) : calls[i].value = summary[K].value
          BY <2>2, Zenon DEF SummaryInv
    <3>6. i \in Counted(K)' /\ calls'[i] = calls[i]
          BY <3>3, <1>4, <1>5 DEF Counted
    <3>7. HasSize(Counted(K)', summary[K].count + 1)
      <4>1. PICK N \in Nat : N = summary[K].count
            BY <3>1
      <4>2. PICK A : A = Counted(K)
            BY Zenon
      <4>3. HasSize(A, N) /\ m + 1 \notin A
            BY <4>1, <4>2, <3>3, <3>4, Zenon
      <4>4. HasSize(A \union {m + 1}, N + 1)
            BY <4>3, OneMore, Zenon
      <4> QED BY <4>1, <4>2, <4>4, <3>3, Zenon
    <3>8. calls'[i].value = summary'[K].value /\ HasSize(Counted(K)', summary'[K].count)
          BY <3>2, <3>5, <3>6, <3>7, Zenon
    <3> QED BY <2>2, <3>2, <3>6, <3>8, Zenon
  <2>3. CASE k = K /\ K \notin DOMAIN summary
    <3>1. summary'[K] = [count |-> 1, value |-> v]
          BY <2>3, <1>9
    <3>2. Counted(K) = {}
          BY <2>3, <1>7 DEF Counted
    <3>3. Counted(K)' = {m + 1}
          BY <3>2, <1>6
    <3>4. HasSize(Counted(K)', 1)
          BY <3>3, JustOne, Zenon
    <3>5. /\ summary'[K] \in [count: Nat, value: EvalValues]
          /\ summary'[K].count = 1 /\ summary'[K].value = v
          BY <3>1, <1>3
    <3>6. m + 1 \in Counted(K)' /\ calls'[m + 1].value = v
          BY <3>3, <1>3, <1>5, Zenon
    <3> QED BY <2>3, <3>4, <3>5, <3>6, Zenon
  <2> QED BY <2>1, <2>2, <2>3
<1>11. summary' \in [{calls'[i].key : i \in DOMAIN calls'} -> [count: Nat, value: EvalValues]]
       BY <1>8, <1>9, <1>10, SMTT(20)
<1>12. ASSUME NEW i \in DOMAIN calls', calls'[i].typed
       PROVE  \E f \in Flags : calls'[i].key = <<f.version, f.variation>> /\ calls'[i].value = f.value
  <2>1. CASE i = m + 1
        BY <2>1, <1>3, <1>5, <1>12, SMTT(20)
  <2>2. CASE i # m + 1
    <3>1. i \in DOMAIN calls /\ calls'[i] = calls[i]
          BY <2>2, <1>4, <1>5, SMTT(20)
    <3> QED BY <3>1, <1>12, SMTT(20) DEF SummaryInv
  <2> QED BY <2>1, <2>2
<1>13. FlagIsTheServers'
       BY <1>1 DEF SummaryInv, FlagIsTheServers
<1> QED BY <1>5, <1>10, <1>11, <1>12, <1>13, Zenon DEF SummaryInv

\* Other steps leave calls and summary alone.
LEMMA SummaryStays ==
    ASSUME SummaryInv, calls' = calls, summary' = summary, FlagIsTheServers'
    PROVE  SummaryInv'
<1>1. \A k : Counted(k)' = Counted(k)
      BY DEF Counted
<1>2. \A k \in DOMAIN summary' :
         /\ HasSize(Counted(k)', summary'[k].count)
         /\ \E i \in Counted(k)' : calls'[i].value = summary'[k].value
      BY <1>1, SMTT(20) DEF SummaryInv
<1>3. \A i \in DOMAIN calls' : calls'[i].typed =>
          \E f \in Flags : calls'[i].key = <<f.version, f.variation>> /\ calls'[i].value = f.value
      BY DEF SummaryInv
<1>4. /\ calls' \in Seq(EvalCalls)
      /\ summary' \in [{calls'[i].key : i \in DOMAIN calls'} -> [count: Nat, value: EvalValues]]
      BY DEF SummaryInv
<1> QED BY <1>2, <1>3, <1>4, Zenon DEF SummaryInv

\* SummaryIsTrue, for every set of flags whose versions and variations tell their values.
THEOREM SummaryCorrect ==
    ASSUME ValuesByVersion
    PROVE  EvalSpec => []SummaryIsTrue
<1>1. ASSUME calls = <<>>, summary = [k \in {} |-> 0], FlagIsTheServers
      PROVE  SummaryInv
  <2>1. calls \in Seq(EvalCalls) /\ DOMAIN calls = {}
        BY <1>1
  <2>2. summary \in [{calls[i].key : i \in DOMAIN calls} -> [count: Nat, value: EvalValues]]
        BY <1>1, <2>1
  <2> QED BY <1>1, <2>1, <2>2 DEF SummaryInv
<1>2. EvalInit => SummaryInv
      BY <1>1 DEF EvalInit, FlagIsTheServers, NULL
<1>3. SummaryInv /\ [EvalNext]_evalVars => SummaryInv'
  <2> SUFFICES ASSUME SummaryInv, [EvalNext]_evalVars PROVE SummaryInv'
      OBVIOUS
  <2>1. ASSUME NEW f \in {<<>>} \union {<<x>> : x \in Flags}, FlagChanges(f)
        PROVE  SummaryInv'
    <3>1. calls' = calls /\ summary' = summary /\ FlagIsTheServers'
          BY <2>1, SMTT(20) DEF FlagChanges, FlagIsTheServers
    <3> QED BY <3>1, SummaryStays
  <2>2. CASE SummaryTaken
    <3>1. calls' = <<>> /\ summary' = [k \in {} |-> 0] /\ FlagIsTheServers'
          BY <2>2 DEF SummaryTaken, FlagIsTheServers, SummaryInv
    <3>2. calls' \in Seq(EvalCalls) /\ DOMAIN calls' = {}
          BY <3>1
    <3>3. summary' \in [{calls'[i].key : i \in DOMAIN calls'} -> [count: Nat, value: EvalValues]]
          BY <3>1, <3>2
    <3> QED BY <3>1, <3>2, <3>3, SMTT(20) DEF SummaryInv
  <2>3. CASE UNCHANGED evalVars
    <3>1. calls' = calls /\ summary' = summary /\ FlagIsTheServers'
          BY <2>3 DEF evalVars, FlagIsTheServers, SummaryInv
    <3> QED BY <3>1, SummaryStays, SMTT(20)
  <2> QED BY <2>1, <2>2, <2>3, CallInv DEF EvalNext, NULL
<1>4. SummaryInv => SummaryIsTrue
      BY SummaryInvSuffices
<1> QED BY <1>2, <1>3, <1>4, PTL DEF EvalSpec
=============================================================================
