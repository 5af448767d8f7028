---------------------------- MODULE CommandProofs ----------------------------
(***************************************************************************)
(* Proofs about what the command line starts or asks of a daemon: daemons  *)
(* around one socket (DaemonStart), enrolment links (Enrollment), and the  *)
(* installer (Installer).                                                  *)
(*                                                                         *)
(* First what Those, the loop that filters a list, does to the parts of a  *)
(* list.  The library's induction theorems take an operator, which none of *)
(* the provers can give them; here the cases for which something holds are *)
(* a set, and a set of numbers that is not empty has a least element.      *)
(***************************************************************************)
EXTENDS DaemonStart, Enrollment, Installer, FiniteSetTheorems, WellFoundedInduction, TLAPS

\* Every set of natural numbers that is not empty has a least element.
LEMMA Least ==
    ASSUME NEW S \in SUBSET Nat, S # {}
    PROVE  \E n \in S : \A m \in S : n <= m
<1>1. \E x \in S : \A y \in S : ~(<<y, x>> \in OpToRel(<, Nat))
  BY NatLessThanWellFounded, WFMin
<1>2. \E x \in S : \A y \in S : ~(y < x)
  BY <1>1 DEF OpToRel
<1>3. QED
  BY <1>2

\* Induction over the natural numbers, for a set of them.
LEMMA NatSetInduction ==
    ASSUME NEW N \in Nat, NEW S, 0 \in S, \A n \in 1 .. N : n - 1 \in S => n \in S
    PROVE  0 .. N \subseteq S
<1>1. SUFFICES ASSUME (0 .. N) \ S # {} PROVE FALSE
  OBVIOUS
<1>2. PICK n \in (0 .. N) \ S : \A m \in (0 .. N) \ S : n <= m
  <2>1. (0 .. N) \ S \in SUBSET Nat
    OBVIOUS
  <2>2. QED
    BY <1>1, <2>1, Least
<1>3. n # 0 /\ n \in 1 .. N /\ n - 1 \in 0 .. N /\ n - 1 < n
  BY <1>2
<1>4. n - 1 \in S
  BY <1>2, <1>3
<1>5. QED
  BY <1>2, <1>3, <1>4

\* Induction over sequences, for a set of them: from the empty one, by appending.
LEMMA SeqSetInduction ==
    ASSUME NEW T, NEW Q, <<>> \in Q, \A s \in Seq(T), x \in T : s \in Q => Append(s, x) \in Q
    PROVE  Seq(T) \subseteq Q
<1> SUFFICES ASSUME NEW s \in Seq(T) PROVE s \in Q
  OBVIOUS
<1> DEFINE S == {n \in 0 .. Len(s) : SubSeq(s, 1, n) \in Q}
<1>1. 0 \in S
  <2>1. SubSeq(s, 1, 0) = <<>> /\ 0 \in 0 .. Len(s)
    OBVIOUS
  <2>2. QED
    BY <2>1
<1>2. ASSUME NEW n \in 1 .. Len(s), n - 1 \in S PROVE n \in S
  <2>1. SubSeq(s, 1, n - 1) \in Seq(T) /\ s[n] \in T /\ n \in 0 .. Len(s)
    OBVIOUS
  <2>2. SubSeq(s, 1, n) = Append(SubSeq(s, 1, n - 1), s[n])
    <3>1. Len(SubSeq(s, 1, n)) = n /\ Len(SubSeq(s, 1, n - 1)) = n - 1
      OBVIOUS
    <3>2. \A i \in 1 .. n : SubSeq(s, 1, n)[i] = s[i]
      OBVIOUS
    <3>3. \A i \in 1 .. n - 1 : Append(SubSeq(s, 1, n - 1), s[n])[i] = s[i]
      OBVIOUS
    <3>4. Append(SubSeq(s, 1, n - 1), s[n])[n] = s[n] /\ Len(Append(SubSeq(s, 1, n - 1), s[n])) = n
      BY <3>1
    <3>5. \A i \in 1 .. n : i \in 1 .. n - 1 \/ i = n
      OBVIOUS
    <3>6. QED
      BY <3>1, <3>2, <3>3, <3>4, <3>5
  <2>3. SubSeq(s, 1, n - 1) \in Q
    BY <1>2
  <2>4. SubSeq(s, 1, n) \in Q
    BY <2>1, <2>2, <2>3
  <2>5. QED
    BY <2>1, <2>4
<1>3. Len(s) \in Nat /\ SubSeq(s, 1, Len(s)) = s
  OBVIOUS
<1> HIDE DEF S
<1>4. 0 .. Len(s) \subseteq S
  BY <1>1, <1>2, <1>3, NatSetInduction
<1>5. Len(s) \in S
  BY <1>3, <1>4
<1>6. QED
  BY <1>3, <1>5 DEF S

\* The recursive function that Those is the last value of exists.
LEMMA ThoseExists ==
    ASSUME NEW T, NEW q \in Seq(T), NEW S
    PROVE  \E f : /\ f = [n \in 0 .. Len(q) |->
                             IF n = 0 THEN <<>>
                             ELSE IF q[n] \in S THEN Append(f[n - 1], q[n]) ELSE f[n - 1]]
                  /\ Those(q, S) = f[Len(q)]
<1> DEFINE Value(g, n) == IF n = 0 THEN <<>> ELSE IF q[n] \in S THEN Append(g[n - 1], q[n]) ELSE g[n - 1]
           Upto(g, m) == g = [n \in 0 .. m |-> Value(g, n)]
           Good == {m \in 0 .. Len(q) : \E g : Upto(g, m)}
<1>1. 0 \in Good
  <2>1. Upto([n \in 0 .. 0 |-> <<>>], 0)
    <3> DEFINE g == [n \in 0 .. 0 |-> <<>>]
    <3>1. \A n \in 0 .. 0 : Value(g, n) = <<>>
      OBVIOUS
    <3>2. QED
      BY <3>1
  <2>2. 0 \in 0 .. Len(q)
    OBVIOUS
  <2> HIDE DEF Upto
  <2>3. QED
    BY <2>1, <2>2
<1>2. ASSUME NEW m \in 1 .. Len(q), m - 1 \in Good PROVE m \in Good
  <2>1. PICK g : Upto(g, m - 1)
    BY <1>2
  <2> DEFINE h == [n \in 0 .. m |-> IF n < m THEN g[n] ELSE Value(g, n)]
  <2>2. \A n \in 0 .. m - 1 : g[n] = Value(g, n)
    BY <2>1
  <2>3. \A n \in 0 .. m - 1 : h[n] = g[n]
    OBVIOUS
  <2>4. ASSUME NEW n \in 0 .. m PROVE h[n] = Value(h, n)
    <3>1. CASE n = 0
      BY <2>2, <3>1
    <3>2. CASE n # 0
      <4>1. n - 1 \in 0 .. m - 1 /\ h[n - 1] = g[n - 1]
        BY <2>3, <3>2
      <4>2. Value(h, n) = Value(g, n)
        BY <3>2, <4>1
      <4>3. n < m => n \in 0 .. m - 1
        OBVIOUS
      <4>4. QED
        BY <2>2, <4>2, <4>3
    <3>3. QED
      BY <3>1, <3>2
  <2>5. h = [n \in 0 .. m |-> h[n]]
    OBVIOUS
  <2> HIDE DEF h, Value
  <2>6. Upto(h, m)
    BY <2>4, <2>5
  <2>7. QED
    BY <2>6
<1>3. Len(q) \in Nat
  OBVIOUS
<1> HIDE DEF Good
<1>4. Len(q) \in Good
  <2>1. 0 .. Len(q) \subseteq Good
    BY <1>1, <1>2, <1>3, NatSetInduction
  <2>2. QED
    BY <1>3, <2>1
<1>5. \E g : g = [n \in 0 .. Len(q) |->
                     IF n = 0 THEN <<>> ELSE IF q[n] \in S THEN Append(g[n - 1], q[n]) ELSE g[n - 1]]
  BY <1>4 DEF Good
<1> DEFINE kept == CHOOSE g : g = [n \in 0 .. Len(q) |->
                     IF n = 0 THEN <<>> ELSE IF q[n] \in S THEN Append(g[n - 1], q[n]) ELSE g[n - 1]]
<1>6. kept = [n \in 0 .. Len(q) |->
                     IF n = 0 THEN <<>> ELSE IF q[n] \in S THEN Append(kept[n - 1], q[n]) ELSE kept[n - 1]]
  BY <1>5
<1>7. Those(q, S) = kept[Len(q)]
  BY Zenon DEF Those
<1> HIDE DEF kept
<1>8. QED
  BY <1>6, <1>7

\* One element more.
LEMMA ThoseAppend ==
    ASSUME NEW T, NEW q \in Seq(T), NEW x \in T, NEW S
    PROVE  Those(Append(q, x), S) = IF x \in S THEN Append(Those(q, S), x) ELSE Those(q, S)
<1> DEFINE r == Append(q, x)
<1>1. /\ r \in Seq(T) /\ Len(r) = Len(q) + 1 /\ Len(q) \in Nat /\ r[Len(q) + 1] = x
      /\ \A n \in 1 .. Len(q) : r[n] = q[n]
  OBVIOUS
<1> HIDE DEF r
<1>2. PICK f : /\ f = [n \in 0 .. Len(q) |->
                          IF n = 0 THEN <<>> ELSE IF q[n] \in S THEN Append(f[n - 1], q[n]) ELSE f[n - 1]]
               /\ Those(q, S) = f[Len(q)]
  BY ThoseExists
<1>3. PICK g : /\ g = [n \in 0 .. Len(r) |->
                          IF n = 0 THEN <<>> ELSE IF r[n] \in S THEN Append(g[n - 1], r[n]) ELSE g[n - 1]]
               /\ Those(r, S) = g[Len(r)]
  BY <1>1, ThoseExists
<1>4. \A n \in 0 .. Len(q) :
          f[n] = IF n = 0 THEN <<>> ELSE IF q[n] \in S THEN Append(f[n - 1], q[n]) ELSE f[n - 1]
  BY <1>2
<1>5. \A n \in 0 .. Len(r) :
          g[n] = IF n = 0 THEN <<>> ELSE IF r[n] \in S THEN Append(g[n - 1], r[n]) ELSE g[n - 1]
  BY <1>3
<1> DEFINE Same == {n \in 0 .. Len(q) : f[n] = g[n]}
<1>6. 0 \in Same
  <2>1. 0 \in 0 .. Len(q) /\ 0 \in 0 .. Len(r)
    BY <1>1
  <2>2. QED
    BY <1>4, <1>5, <2>1
<1>7. ASSUME NEW n \in 1 .. Len(q), n - 1 \in Same PROVE n \in Same
  <2>1. n \in 0 .. Len(q) /\ n \in 0 .. Len(r) /\ n # 0
    BY <1>1
  <2>2. f[n - 1] = g[n - 1] /\ r[n] = q[n]
    BY <1>1, <1>7
  <2>3. QED
    BY <1>4, <1>5, <2>1, <2>2
<1> HIDE DEF Same
<1>8. 0 .. Len(q) \subseteq Same
  BY <1>1, <1>6, <1>7, NatSetInduction
<1>9. f[Len(q)] = g[Len(q)]
  <2>1. Len(q) \in 0 .. Len(q)
    BY <1>1
  <2>2. QED
    BY <1>8, <2>1 DEF Same
<1>10. /\ Len(q) + 1 \in 0 .. Len(r) /\ Len(q) + 1 # 0 /\ (Len(q) + 1) - 1 = Len(q)
  BY <1>1
<1>11. g[Len(q) + 1] = IF x \in S THEN Append(g[Len(q)], x) ELSE g[Len(q)]
  BY <1>1, <1>5, <1>10
<1>12. QED
  BY <1>1, <1>2, <1>3, <1>9, <1>11 DEF r

LEMMA ThoseEmpty == ASSUME NEW S PROVE Those(<<>>, S) = <<>>
<1>1. <<>> \in Seq({}) /\ Len(<<>>) = 0
  OBVIOUS
<1>2. PICK f : /\ f = [n \in 0 .. Len(<<>>) |->
                          IF n = 0 THEN <<>> ELSE IF <<>>[n] \in S THEN Append(f[n - 1], <<>>[n]) ELSE f[n - 1]]
               /\ Those(<<>>, S) = f[Len(<<>>)]
  BY <1>1, ThoseExists
<1>3. f[0] = <<>>
  BY <1>1, <1>2
<1>4. QED
  BY <1>1, <1>2, <1>3

\* What is kept is in both sets.
LEMMA ThoseType ==
    ASSUME NEW T, NEW q \in Seq(T), NEW S
    PROVE  Those(q, S) \in Seq(T \cap S)
<1> DEFINE Q == {s \in Seq(T) : Those(s, S) \in Seq(T \cap S)}
<1>1. <<>> \in Q
  <2>1. <<>> \in Seq(T) /\ <<>> \in Seq(T \cap S)
    OBVIOUS
  <2>2. QED
    BY <2>1, ThoseEmpty
<1>2. ASSUME NEW s \in Seq(T), NEW x \in T, s \in Q PROVE Append(s, x) \in Q
  <2>1. Append(s, x) \in Seq(T) /\ Those(s, S) \in Seq(T \cap S)
    BY <1>2
  <2>2. Those(Append(s, x), S) = IF x \in S THEN Append(Those(s, S), x) ELSE Those(s, S)
    BY ThoseAppend
  <2>3. Those(Append(s, x), S) \in Seq(T \cap S)
    <3>1. CASE x \in S
      BY <2>1, <2>2, <3>1
    <3>2. CASE x \notin S
      BY <2>1, <2>2, <3>2
    <3>3. QED
      BY <3>1, <3>2
  <2>4. QED
    BY <2>1, <2>3
<1> HIDE DEF Q
<1>3. Seq(T) \subseteq Q
  BY <1>1, <1>2, SeqSetInduction
<1>4. QED
  BY <1>3 DEF Q

\* A list is filtered part by part.  (Both and Push stand for \o and Append, which the
\* provers would rather look into than leave alone.)
LEMMA ThoseConcat ==
    ASSUME NEW T, NEW a \in Seq(T), NEW b \in Seq(T), NEW S
    PROVE  Those(a \o b, S) = Those(a, S) \o Those(b, S)
<1> DEFINE Both(p, r) == p \o r
           Push(p, y) == Append(p, y)
           Q == {s \in Seq(T) : Those(Both(a, s), S) = Both(Those(a, S), Those(s, S))}
<1>1. \A p, r \in Seq(T), y \in T : Push(Both(p, r), y) = Both(p, Push(r, y))
  <2> SUFFICES ASSUME NEW p \in Seq(T), NEW r \in Seq(T), NEW y \in T
               PROVE  Append(p \o r, y) = p \o Append(r, y)
    OBVIOUS
  <2> DEFINE one == Append(p \o r, y)
             other == p \o Append(r, y)
  <2>1. /\ Len(p) \in Nat /\ Len(r) \in Nat /\ one \in Seq(T) /\ other \in Seq(T)
        /\ Len(one) = Len(p) + Len(r) + 1 /\ Len(other) = Len(p) + Len(r) + 1
    OBVIOUS
  <2>2. \A i \in 1 .. Len(p) : one[i] = p[i] /\ other[i] = p[i]
    OBVIOUS
  <2>3. \A i \in Len(p) + 1 .. Len(p) + Len(r) : one[i] = r[i - Len(p)] /\ other[i] = r[i - Len(p)]
    OBVIOUS
  <2>4. one[Len(p) + Len(r) + 1] = y /\ other[Len(p) + Len(r) + 1] = y
    OBVIOUS
  <2> HIDE DEF one, other
  <2>5. ASSUME NEW i \in 1 .. Len(p) + Len(r) + 1 PROVE one[i] = other[i]
    <3>1. i \in 1 .. Len(p) \/ i \in Len(p) + 1 .. Len(p) + Len(r) \/ i = Len(p) + Len(r) + 1
      BY <2>1
    <3>2. QED
      BY <2>2, <2>3, <2>4, <3>1
  <2>6. one = other
    BY <2>1, <2>5
  <2>7. QED
    BY <2>6 DEF one, other
<1>2. \A p, r \in Seq(T), y \in T : Both(p, r) \in Seq(T) /\ Push(p, y) \in Seq(T)
  OBVIOUS
<1>3. \A p \in Seq(T) : Both(p, <<>>) = p
  OBVIOUS
<1>4. \A p \in Seq(T), y \in T : Those(Push(p, y), S) = IF y \in S THEN Push(Those(p, S), y) ELSE Those(p, S)
  BY ThoseAppend
<1>5. \A p \in Seq(T) : Those(p, S) \in Seq(T)
  <2> SUFFICES ASSUME NEW p \in Seq(T) PROVE Those(p, S) \in Seq(T)
    OBVIOUS
  <2>1. Those(p, S) \in Seq(T \cap S)
    BY ThoseType
  <2>2. QED
    BY <2>1
<1>6. <<>> \in Seq(T) /\ Those(<<>>, S) = <<>>
  BY ThoseEmpty
<1> HIDE DEF Both, Push
<1>7. <<>> \in Q
  BY <1>3, <1>5, <1>6
<1>8. \A s \in Seq(T), x \in T : s \in Q => Push(s, x) \in Q
  <2> SUFFICES ASSUME NEW s \in Seq(T), NEW x \in T, Those(Both(a, s), S) = Both(Those(a, S), Those(s, S))
               PROVE  Those(Both(a, Push(s, x)), S) = Both(Those(a, S), Those(Push(s, x), S))
    BY <1>2
  <2>1. Those(Both(a, Push(s, x)), S) = Those(Push(Both(a, s), x), S) /\ Both(a, s) \in Seq(T)
    BY <1>1, <1>2
  <2>2. Those(a, S) \in Seq(T) /\ Those(s, S) \in Seq(T)
    BY <1>5
  <2>3. CASE x \in S
    BY <1>1, <1>4, <2>1, <2>2, <2>3
  <2>4. CASE x \notin S
    BY <1>4, <2>1, <2>4
  <2>5. QED
    BY <2>3, <2>4
<1>9. Seq(T) \subseteq Q
  <2> HIDE DEF Q
  <2>1. \A s \in Seq(T), x \in T : s \in Q => Append(s, x) \in Q
    BY <1>8 DEF Push
  <2>2. QED
    BY <1>7, <2>1, SeqSetInduction
<1>10. QED
  BY <1>9 DEF Both

\* A list of such elements only is kept, and one of none is emptied.
LEMMA ThoseAll ==
    ASSUME NEW T, NEW q \in Seq(T), NEW S, T \subseteq S
    PROVE  Those(q, S) = q
<1> DEFINE Q == {s \in Seq(T) : Those(s, S) = s}
<1>1. <<>> \in Q
  BY ThoseEmpty
<1>2. ASSUME NEW s \in Seq(T), NEW x \in T, s \in Q PROVE Append(s, x) \in Q
  BY <1>2, ThoseAppend
<1> HIDE DEF Q
<1>3. Seq(T) \subseteq Q
  BY <1>1, <1>2, SeqSetInduction
<1>4. QED
  BY <1>3 DEF Q

LEMMA ThoseNone ==
    ASSUME NEW T, NEW q \in Seq(T), NEW S, T \cap S = {}
    PROVE  Those(q, S) = <<>>
<1> DEFINE Q == {s \in Seq(T) : Those(s, S) = <<>>}
<1>1. <<>> \in Q
  BY ThoseEmpty
<1>2. ASSUME NEW s \in Seq(T), NEW x \in T, s \in Q PROVE Append(s, x) \in Q
  BY <1>2, ThoseAppend
<1> HIDE DEF Q
<1>3. Seq(T) \subseteq Q
  BY <1>1, <1>2, SeqSetInduction
<1>4. QED
  BY <1>3 DEF Q

\* A list is what comes before a place in it and what comes from there on.
LEMMA SplitAt ==
    ASSUME NEW T, NEW q \in Seq(T), NEW k \in 0 .. Len(q)
    PROVE  /\ q = SubSeq(q, 1, k) \o SubSeq(q, k + 1, Len(q))
           /\ SubSeq(q, 1, k) \in Seq(T) /\ Len(SubSeq(q, 1, k)) = k
           /\ \A i \in 1 .. k : SubSeq(q, 1, k)[i] = q[i]
           /\ SubSeq(q, k + 1, Len(q)) \in Seq(T) /\ Len(SubSeq(q, k + 1, Len(q))) = Len(q) - k
           /\ \A i \in 1 .. Len(q) - k : SubSeq(q, k + 1, Len(q))[i] = q[k + i]
<1> DEFINE a == SubSeq(q, 1, k)
           b == SubSeq(q, k + 1, Len(q))
<1>1. Len(q) \in Nat /\ k \in Nat /\ k <= Len(q)
  OBVIOUS
<1>2. a \in Seq(T) /\ Len(a) = k /\ \A i \in 1 .. k : a[i] = q[i]
  OBVIOUS
<1>3. b \in Seq(T) /\ Len(b) = Len(q) - k /\ \A i \in 1 .. Len(q) - k : b[i] = q[k + i]
  OBVIOUS
<1> DEFINE c == a \o b
<1> HIDE DEF a, b
<1>4. /\ c \in Seq(T) /\ Len(c) = Len(q)
      /\ \A i \in 1 .. Len(q) : c[i] = IF i <= k THEN a[i] ELSE b[i - k]
  BY <1>1, <1>2, <1>3
<1>5. ASSUME NEW i \in 1 .. Len(q) PROVE c[i] = q[i]
  <2>1. CASE i <= k
    <3>1. i \in 1 .. k
      BY <1>1, <2>1
    <3>2. QED
      BY <1>2, <1>4, <2>1, <3>1
  <2>2. CASE ~(i <= k)
    <3>1. i - k \in 1 .. Len(q) - k /\ k + (i - k) = i
      BY <1>1, <2>2
    <3>2. QED
      BY <1>3, <1>4, <2>2, <3>1
  <2>3. QED
    BY <2>1, <2>2
<1> HIDE DEF c
<1>6. q = c
  BY <1>4, <1>5
<1>7. QED
  BY <1>2, <1>3, <1>6 DEF a, b, c

\* What lies behind a limit is, in a list in order, its end.
LEMMA ThoseBehind ==
    ASSUME NEW T \in SUBSET Int, NEW q \in Seq(T), NEW limit \in Int,
           \A i, j \in 1 .. Len(q) : i < j => q[i] <= q[j]
    PROVE  \E k \in 0 .. Len(q) :
               /\ Those(q, {t \in T : t > limit}) = SubSeq(q, k + 1, Len(q))
               /\ \A i \in 1 .. k : q[i] <= limit
               /\ \A i \in k + 1 .. Len(q) : q[i] > limit
<1> DEFINE S == {t \in T : t > limit}
           Behind == {k \in 0 .. Len(q) : \A i \in k + 1 .. Len(q) : q[i] > limit}
<1>1. Len(q) \in Nat /\ \A i \in 1 .. Len(q) : q[i] \in T /\ q[i] \in Int
  <2>1. Len(q) \in Nat /\ \A i \in 1 .. Len(q) : q[i] \in T
    OBVIOUS
  <2>2. \A x \in T : x \in Int
    OBVIOUS
  <2>3. QED
    BY <2>1, <2>2
<1>2. Behind # {} /\ Behind \in SUBSET Nat
  <2>1. Len(q) \in Behind
    BY <1>1
  <2>2. QED
    BY <1>1, <2>1
<1>3. PICK k \in Behind : \A m \in Behind : k <= m
  <2> HIDE DEF Behind
  <2>1. QED
    BY <1>2, Least
<1>4. k \in 0 .. Len(q) /\ \A i \in k + 1 .. Len(q) : q[i] > limit
  BY <1>3
<1>5. ASSUME NEW i \in 1 .. k PROVE q[i] <= limit
  <2>1. k - 1 \in 0 .. Len(q) /\ k - 1 < k /\ (k - 1) + 1 = k /\ k \in 1 .. Len(q) /\ i \in 1 .. Len(q)
    BY <1>1, <1>4, <1>5
  <2>2. k - 1 \notin Behind
    <3> HIDE DEF Behind
    <3>1. QED
      BY <1>3, <1>4, <2>1
  <2>3. PICK j \in k .. Len(q) : ~(q[j] > limit)
    BY <2>1, <2>2
  <2>4. j = k
    BY <1>1, <1>4, <2>1, <2>3
  <2>5. q[k] <= limit
    BY <1>1, <2>1, <2>3, <2>4
  <2>6. i = k \/ i < k
    BY <1>4
  <2>7. QED
    BY <1>1, <2>1, <2>5, <2>6
<1> DEFINE a == SubSeq(q, 1, k)
           b == SubSeq(q, k + 1, Len(q))
<1>6. a \in Seq(T \ S) /\ a \in Seq(T)
  <2>1. Len(a) = k /\ (\A i \in 1 .. k : a[i] = q[i]) /\ a \in Seq(T)
    BY <1>4, SplitAt
  <2>2. \A i \in 1 .. k : a[i] \in T \ S
    BY <1>1, <1>4, <1>5, <2>1
  <2> HIDE DEF a, S
  <2>3. QED
    BY <2>1, <2>2
<1>7. b \in Seq(T \cap S) /\ b \in Seq(T)
  <2>1. Len(b) = Len(q) - k /\ (\A i \in 1 .. Len(q) - k : b[i] = q[k + i]) /\ b \in Seq(T)
    BY <1>4, SplitAt
  <2>2. \A i \in 1 .. Len(q) - k : k + i \in k + 1 .. Len(q) /\ k + i \in 1 .. Len(q)
    BY <1>1, <1>4
  <2>3. \A i \in 1 .. Len(q) - k : b[i] \in T \cap S
    BY <1>1, <1>4, <2>1, <2>2
  <2> HIDE DEF b, S
  <2>4. QED
    BY <2>1, <2>3
<1>8. q = a \o b
  BY <1>4, SplitAt
<1>9. Those(a, S) = <<>> /\ Those(b, S) = b
  <2>1. (T \ S) \cap S = {} /\ T \cap S \subseteq S
    OBVIOUS
  <2> HIDE DEF a, b, S
  <2>2. QED
    BY <1>6, <1>7, <2>1, ThoseNone, ThoseAll
<1>10. Those(a \o b, S) = Those(a, S) \o Those(b, S)
  <2> HIDE DEF a, b, S
  <2>1. QED
    BY <1>6, <1>7, ThoseConcat
<1>11. Those(q, S) = b
  <2> HIDE DEF a, b, S
  <2>1. <<>> \o b = b
    BY <1>7
  <2>2. QED
    BY <1>8, <1>9, <1>10, <2>1
<1>12. QED
  BY <1>4, <1>5, <1>11

-----------------------------------------------------------------------------
(* Daemons.  Any number of them, under the assumption that their starts    *)
(* and stops do not overlap (Serial): with Serial = FALSE in MCDaemonStart *)
(* TLC shows that it cannot be dropped.                                    *)
(*                                                                         *)
(* That the file is what was enrolled and not revoked (FileIsTrue) needs   *)
(* every daemon that can write it to have the whole of it in memory        *)
(* (MemoryIsFile): the one that read it before another one wrote it still  *)
(* finds that one behind the admin path (OneServes), and gives up.         *)
(*                                                                         *)
(* One lemma per conjunct of DaemonInv, one step per action in each.       *)

\* The initial state satisfies the invariant.
LEMMA DaemonInitFits == DaemonInit => DaemonInv
BY DEF DaemonInit, DaemonInv, DaemonTypeOK, Places, OneInTransit, OneServes, PathIsOwn, MemoryIsFile, FileIsTrue,
       RevokedWasEnrolled, Settled

\* Every action keeps every variable in its type.
LEMMA DaemonTypeStep ==
    ASSUME DaemonTypeOK, [DaemonNext]_daemonVars
    PROVE  DaemonTypeOK'
<1> USE NobodyAssumption DEF DaemonTypeOK, Places, Accepting, Settled, Undisturbed, daemonVars
<1>1. ASSUME NEW p \in Process, Open(p) PROVE DaemonTypeOK'
  BY <1>1 DEF Open, Goto
<1>2. ASSUME NEW p \in Process, InspectAbsent(p) PROVE DaemonTypeOK'
  BY <1>2 DEF InspectAbsent, Goto
<1>3. ASSUME NEW p \in Process, DialInUse(p) PROVE DaemonTypeOK'
  BY <1>3 DEF DialInUse, Goto
<1>4. ASSUME NEW p \in Process, DialRefused(p) PROVE DaemonTypeOK'
  BY <1>4 DEF DialRefused, Goto
<1>5. ASSUME NEW p \in Process, RemoveStale(p) PROVE DaemonTypeOK'
  BY <1>5 DEF RemoveStale, Goto
<1>6. ASSUME NEW p \in Process, Bind(p) PROVE DaemonTypeOK'
  BY <1>6 DEF Bind, Goto
<1>7. ASSUME NEW p \in Process, Listen(p) PROVE DaemonTypeOK'
  BY <1>7 DEF Listen, Goto
<1>8. ASSUME NEW p \in Process, Chmod(p) PROVE DaemonTypeOK'
  BY <1>8 DEF Chmod, Goto
<1>9. ASSUME NEW p \in Process, ChmodFails(p) PROVE DaemonTypeOK'
  BY <1>9 DEF ChmodFails, Goto
<1>10. ASSUME NEW p \in Process, BindPort(p) PROVE DaemonTypeOK'
  BY <1>10 DEF BindPort, Goto
<1>11. ASSUME NEW p \in Process, PortTaken(p) PROVE DaemonTypeOK'
  BY <1>11 DEF PortTaken, Goto
<1>12. ASSUME NEW p \in Process, Stop(p) PROVE DaemonTypeOK'
  BY <1>12 DEF Stop, Goto
<1>13. ASSUME NEW p \in Process, Close(p) PROVE DaemonTypeOK'
  BY <1>13 DEF Close, Goto
<1>14. ASSUME NEW p \in Process, Kill(p) PROVE DaemonTypeOK'
  BY <1>14 DEF Kill, Goto
<1>15. ASSUME NEW p \in Process, Touch(p) PROVE DaemonTypeOK'
  BY <1>15 DEF Touch, Persist
<1>16. ASSUME NEW p \in Process, NEW d \in Device, Enroll(p, d) PROVE DaemonTypeOK'
  BY <1>16 DEF Enroll, Persist
<1>17. ASSUME NEW p \in Process, NEW d \in Device, Revoke(p, d) PROVE DaemonTypeOK'
  BY <1>17 DEF Revoke, Persist
<1>18. CASE UNCHANGED daemonVars
  BY <1>18
<1>19. QED
  BY <1>1, <1>2, <1>3, <1>4, <1>5, <1>6, <1>7, <1>8, <1>9, <1>10, <1>11,
     <1>12, <1>13, <1>14, <1>15, <1>16, <1>17, <1>18
     DEF DaemonNext, Serve

\* Nobody sets out while another is on its way.
LEMMA TransitStep ==
    ASSUME Serial, DaemonInv, [DaemonNext]_daemonVars
    PROVE  OneInTransit'
<1> USE NobodyAssumption DEF DaemonInv, DaemonTypeOK, Places, Accepting, Settled, Undisturbed, daemonVars,
   OneInTransit, OneServes
<1>1. ASSUME NEW p \in Process, Open(p) PROVE OneInTransit'
  BY <1>1 DEF Open, Goto
<1>2. ASSUME NEW p \in Process, InspectAbsent(p) PROVE OneInTransit'
  BY <1>2 DEF InspectAbsent, Goto
<1>3. ASSUME NEW p \in Process, DialInUse(p) PROVE OneInTransit'
  BY <1>3 DEF DialInUse, Goto
<1>4. ASSUME NEW p \in Process, DialRefused(p) PROVE OneInTransit'
  BY <1>4 DEF DialRefused, Goto
<1>5. ASSUME NEW p \in Process, RemoveStale(p) PROVE OneInTransit'
  BY <1>5 DEF RemoveStale, Goto
<1>6. ASSUME NEW p \in Process, Bind(p) PROVE OneInTransit'
  BY <1>6 DEF Bind, Goto
<1>7. ASSUME NEW p \in Process, Listen(p) PROVE OneInTransit'
  BY <1>7 DEF Listen, Goto
<1>8. ASSUME NEW p \in Process, Chmod(p) PROVE OneInTransit'
  BY <1>8 DEF Chmod, Goto
<1>9. ASSUME NEW p \in Process, ChmodFails(p) PROVE OneInTransit'
  BY <1>9 DEF ChmodFails, Goto
<1>10. ASSUME NEW p \in Process, BindPort(p) PROVE OneInTransit'
  BY <1>10 DEF BindPort, Goto
<1>11. ASSUME NEW p \in Process, PortTaken(p) PROVE OneInTransit'
  BY <1>11 DEF PortTaken, Goto
<1>12. ASSUME NEW p \in Process, Stop(p) PROVE OneInTransit'
  BY <1>12 DEF Stop, Goto
<1>13. ASSUME NEW p \in Process, Close(p) PROVE OneInTransit'
  BY <1>13 DEF Close, Goto
<1>14. ASSUME NEW p \in Process, Kill(p) PROVE OneInTransit'
  BY <1>14 DEF Kill, Goto
<1>15. ASSUME NEW p \in Process, Touch(p) PROVE OneInTransit'
  BY <1>15 DEF Touch, Persist
<1>16. ASSUME NEW p \in Process, NEW d \in Device, Enroll(p, d) PROVE OneInTransit'
  BY <1>16 DEF Enroll, Persist
<1>17. ASSUME NEW p \in Process, NEW d \in Device, Revoke(p, d) PROVE OneInTransit'
  BY <1>17 DEF Revoke, Persist
<1>18. CASE UNCHANGED daemonVars
  BY <1>18
<1>19. QED
  BY <1>1, <1>2, <1>3, <1>4, <1>5, <1>6, <1>7, <1>8, <1>9, <1>10, <1>11,
     <1>12, <1>13, <1>14, <1>15, <1>16, <1>17, <1>18
     DEF DaemonNext, Serve

\* The daemon that serves keeps the path: nobody else gets to removing it.
LEMMA ServesStep ==
    ASSUME Serial, DaemonInv, [DaemonNext]_daemonVars
    PROVE  OneServes'
<1> USE NobodyAssumption DEF DaemonInv, DaemonTypeOK, Places, Accepting, Settled, Undisturbed, daemonVars,
   OneInTransit, OneServes, PathIsOwn
<1>1. ASSUME NEW p \in Process, Open(p) PROVE OneServes'
  BY <1>1 DEF Open, Goto
<1>2. ASSUME NEW p \in Process, InspectAbsent(p) PROVE OneServes'
  BY <1>2 DEF InspectAbsent, Goto
<1>3. ASSUME NEW p \in Process, DialInUse(p) PROVE OneServes'
  BY <1>3 DEF DialInUse, Goto
<1>4. ASSUME NEW p \in Process, DialRefused(p) PROVE OneServes'
  BY <1>4 DEF DialRefused, Goto
<1>5. ASSUME NEW p \in Process, RemoveStale(p) PROVE OneServes'
  BY <1>5 DEF RemoveStale, Goto
<1>6. ASSUME NEW p \in Process, Bind(p) PROVE OneServes'
  BY <1>6 DEF Bind, Goto
<1>7. ASSUME NEW p \in Process, Listen(p) PROVE OneServes'
  BY <1>7 DEF Listen, Goto
<1>8. ASSUME NEW p \in Process, Chmod(p) PROVE OneServes'
  BY <1>8 DEF Chmod, Goto
<1>9. ASSUME NEW p \in Process, ChmodFails(p) PROVE OneServes'
  BY <1>9 DEF ChmodFails, Goto
<1>10. ASSUME NEW p \in Process, BindPort(p) PROVE OneServes'
  BY <1>10 DEF BindPort, Goto
<1>11. ASSUME NEW p \in Process, PortTaken(p) PROVE OneServes'
  BY <1>11 DEF PortTaken, Goto
<1>12. ASSUME NEW p \in Process, Stop(p) PROVE OneServes'
  BY <1>12 DEF Stop, Goto
<1>13. ASSUME NEW p \in Process, Close(p) PROVE OneServes'
  BY <1>13 DEF Close, Goto
<1>14. ASSUME NEW p \in Process, Kill(p) PROVE OneServes'
  BY <1>14 DEF Kill, Goto
<1>15. ASSUME NEW p \in Process, Touch(p) PROVE OneServes'
  BY <1>15 DEF Touch, Persist
<1>16. ASSUME NEW p \in Process, NEW d \in Device, Enroll(p, d) PROVE OneServes'
  BY <1>16 DEF Enroll, Persist
<1>17. ASSUME NEW p \in Process, NEW d \in Device, Revoke(p, d) PROVE OneServes'
  BY <1>17 DEF Revoke, Persist
<1>18. CASE UNCHANGED daemonVars
  BY <1>18
<1>19. QED
  BY <1>1, <1>2, <1>3, <1>4, <1>5, <1>6, <1>7, <1>8, <1>9, <1>10, <1>11,
     <1>12, <1>13, <1>14, <1>15, <1>16, <1>17, <1>18
     DEF DaemonNext, Serve

\* Only its owner takes a live socket file away.
LEMMA OwnStep ==
    ASSUME Serial, DaemonInv, [DaemonNext]_daemonVars
    PROVE  PathIsOwn'
<1> USE NobodyAssumption DEF DaemonInv, DaemonTypeOK, Places, Accepting, Settled, Undisturbed, daemonVars,
   OneInTransit, OneServes, PathIsOwn
<1>1. ASSUME NEW p \in Process, Open(p) PROVE PathIsOwn'
  BY <1>1 DEF Open, Goto
<1>2. ASSUME NEW p \in Process, InspectAbsent(p) PROVE PathIsOwn'
  BY <1>2 DEF InspectAbsent, Goto
<1>3. ASSUME NEW p \in Process, DialInUse(p) PROVE PathIsOwn'
  BY <1>3 DEF DialInUse, Goto
<1>4. ASSUME NEW p \in Process, DialRefused(p) PROVE PathIsOwn'
  BY <1>4 DEF DialRefused, Goto
<1>5. ASSUME NEW p \in Process, RemoveStale(p) PROVE PathIsOwn'
  BY <1>5 DEF RemoveStale, Goto
<1>6. ASSUME NEW p \in Process, Bind(p) PROVE PathIsOwn'
  BY <1>6 DEF Bind, Goto
<1>7. ASSUME NEW p \in Process, Listen(p) PROVE PathIsOwn'
  BY <1>7 DEF Listen, Goto
<1>8. ASSUME NEW p \in Process, Chmod(p) PROVE PathIsOwn'
  BY <1>8 DEF Chmod, Goto
<1>9. ASSUME NEW p \in Process, ChmodFails(p) PROVE PathIsOwn'
  BY <1>9 DEF ChmodFails, Goto
<1>10. ASSUME NEW p \in Process, BindPort(p) PROVE PathIsOwn'
  BY <1>10 DEF BindPort, Goto
<1>11. ASSUME NEW p \in Process, PortTaken(p) PROVE PathIsOwn'
  BY <1>11 DEF PortTaken, Goto
<1>12. ASSUME NEW p \in Process, Stop(p) PROVE PathIsOwn'
  BY <1>12 DEF Stop, Goto
<1>13. ASSUME NEW p \in Process, Close(p) PROVE PathIsOwn'
  BY <1>13 DEF Close, Goto
<1>14. ASSUME NEW p \in Process, Kill(p) PROVE PathIsOwn'
  BY <1>14 DEF Kill, Goto
<1>15. ASSUME NEW p \in Process, Touch(p) PROVE PathIsOwn'
  BY <1>15 DEF Touch, Persist
<1>16. ASSUME NEW p \in Process, NEW d \in Device, Enroll(p, d) PROVE PathIsOwn'
  BY <1>16 DEF Enroll, Persist
<1>17. ASSUME NEW p \in Process, NEW d \in Device, Revoke(p, d) PROVE PathIsOwn'
  BY <1>17 DEF Revoke, Persist
<1>18. CASE UNCHANGED daemonVars
  BY <1>18
<1>19. QED
  BY <1>1, <1>2, <1>3, <1>4, <1>5, <1>6, <1>7, <1>8, <1>9, <1>10, <1>11,
     <1>12, <1>13, <1>14, <1>15, <1>16, <1>17, <1>18
     DEF DaemonNext, Serve

\* Whoever may write the file knows all of it.
LEMMA MemoryStep ==
    ASSUME Serial, DaemonInv, [DaemonNext]_daemonVars
    PROVE  MemoryIsFile'
<1> USE NobodyAssumption DEF DaemonInv, DaemonTypeOK, Places, Accepting, Settled, Undisturbed, daemonVars,
   OneInTransit, OneServes, MemoryIsFile
<1>1. ASSUME NEW p \in Process, Open(p) PROVE MemoryIsFile'
  BY <1>1 DEF Open, Goto
<1>2. ASSUME NEW p \in Process, InspectAbsent(p) PROVE MemoryIsFile'
  BY <1>2 DEF InspectAbsent, Goto
<1>3. ASSUME NEW p \in Process, DialInUse(p) PROVE MemoryIsFile'
  BY <1>3 DEF DialInUse, Goto
<1>4. ASSUME NEW p \in Process, DialRefused(p) PROVE MemoryIsFile'
  BY <1>4 DEF DialRefused, Goto
<1>5. ASSUME NEW p \in Process, RemoveStale(p) PROVE MemoryIsFile'
  BY <1>5 DEF RemoveStale, Goto
<1>6. ASSUME NEW p \in Process, Bind(p) PROVE MemoryIsFile'
  BY <1>6 DEF Bind, Goto
<1>7. ASSUME NEW p \in Process, Listen(p) PROVE MemoryIsFile'
  BY <1>7 DEF Listen, Goto
<1>8. ASSUME NEW p \in Process, Chmod(p) PROVE MemoryIsFile'
  BY <1>8 DEF Chmod, Goto
<1>9. ASSUME NEW p \in Process, ChmodFails(p) PROVE MemoryIsFile'
  BY <1>9 DEF ChmodFails, Goto
<1>10. ASSUME NEW p \in Process, BindPort(p) PROVE MemoryIsFile'
  BY <1>10 DEF BindPort, Goto
<1>11. ASSUME NEW p \in Process, PortTaken(p) PROVE MemoryIsFile'
  BY <1>11 DEF PortTaken, Goto
<1>12. ASSUME NEW p \in Process, Stop(p) PROVE MemoryIsFile'
  BY <1>12 DEF Stop, Goto
<1>13. ASSUME NEW p \in Process, Close(p) PROVE MemoryIsFile'
  BY <1>13 DEF Close, Goto
<1>14. ASSUME NEW p \in Process, Kill(p) PROVE MemoryIsFile'
  BY <1>14 DEF Kill, Goto
<1>15. ASSUME NEW p \in Process, Touch(p) PROVE MemoryIsFile'
  BY <1>15 DEF Touch, Persist
<1>16. ASSUME NEW p \in Process, NEW d \in Device, Enroll(p, d) PROVE MemoryIsFile'
  BY <1>16 DEF Enroll, Persist
<1>17. ASSUME NEW p \in Process, NEW d \in Device, Revoke(p, d) PROVE MemoryIsFile'
  BY <1>17 DEF Revoke, Persist
<1>18. CASE UNCHANGED daemonVars
  BY <1>18
<1>19. QED
  BY <1>1, <1>2, <1>3, <1>4, <1>5, <1>6, <1>7, <1>8, <1>9, <1>10, <1>11,
     <1>12, <1>13, <1>14, <1>15, <1>16, <1>17, <1>18
     DEF DaemonNext, Serve

\* Every write tells the truth.
LEMMA FileStep ==
    ASSUME Serial, DaemonInv, [DaemonNext]_daemonVars
    PROVE  (FileIsTrue /\ RevokedWasEnrolled)'
<1> USE NobodyAssumption DEF DaemonInv, DaemonTypeOK, Places, Accepting, Settled, Undisturbed, daemonVars,
   OneInTransit, OneServes, MemoryIsFile, FileIsTrue, RevokedWasEnrolled
<1>1. ASSUME NEW p \in Process, Open(p) PROVE (FileIsTrue /\ RevokedWasEnrolled)'
  BY <1>1 DEF Open, Goto
<1>2. ASSUME NEW p \in Process, InspectAbsent(p) PROVE (FileIsTrue /\ RevokedWasEnrolled)'
  BY <1>2 DEF InspectAbsent, Goto
<1>3. ASSUME NEW p \in Process, DialInUse(p) PROVE (FileIsTrue /\ RevokedWasEnrolled)'
  BY <1>3 DEF DialInUse, Goto
<1>4. ASSUME NEW p \in Process, DialRefused(p) PROVE (FileIsTrue /\ RevokedWasEnrolled)'
  BY <1>4 DEF DialRefused, Goto
<1>5. ASSUME NEW p \in Process, RemoveStale(p) PROVE (FileIsTrue /\ RevokedWasEnrolled)'
  BY <1>5 DEF RemoveStale, Goto
<1>6. ASSUME NEW p \in Process, Bind(p) PROVE (FileIsTrue /\ RevokedWasEnrolled)'
  BY <1>6 DEF Bind, Goto
<1>7. ASSUME NEW p \in Process, Listen(p) PROVE (FileIsTrue /\ RevokedWasEnrolled)'
  BY <1>7 DEF Listen, Goto
<1>8. ASSUME NEW p \in Process, Chmod(p) PROVE (FileIsTrue /\ RevokedWasEnrolled)'
  BY <1>8 DEF Chmod, Goto
<1>9. ASSUME NEW p \in Process, ChmodFails(p) PROVE (FileIsTrue /\ RevokedWasEnrolled)'
  BY <1>9 DEF ChmodFails, Goto
<1>10. ASSUME NEW p \in Process, BindPort(p) PROVE (FileIsTrue /\ RevokedWasEnrolled)'
  BY <1>10 DEF BindPort, Goto
<1>11. ASSUME NEW p \in Process, PortTaken(p) PROVE (FileIsTrue /\ RevokedWasEnrolled)'
  BY <1>11 DEF PortTaken, Goto
<1>12. ASSUME NEW p \in Process, Stop(p) PROVE (FileIsTrue /\ RevokedWasEnrolled)'
  BY <1>12 DEF Stop, Goto
<1>13. ASSUME NEW p \in Process, Close(p) PROVE (FileIsTrue /\ RevokedWasEnrolled)'
  BY <1>13 DEF Close, Goto
<1>14. ASSUME NEW p \in Process, Kill(p) PROVE (FileIsTrue /\ RevokedWasEnrolled)'
  BY <1>14 DEF Kill, Goto
<1>15. ASSUME NEW p \in Process, Touch(p) PROVE (FileIsTrue /\ RevokedWasEnrolled)'
  BY <1>15 DEF Touch, Persist
<1>16. ASSUME NEW p \in Process, NEW d \in Device, Enroll(p, d) PROVE (FileIsTrue /\ RevokedWasEnrolled)'
  BY <1>16 DEF Enroll, Persist
<1>17. ASSUME NEW p \in Process, NEW d \in Device, Revoke(p, d) PROVE (FileIsTrue /\ RevokedWasEnrolled)'
  BY <1>17 DEF Revoke, Persist
<1>18. CASE UNCHANGED daemonVars
  BY <1>18
<1>19. QED
  BY <1>1, <1>2, <1>3, <1>4, <1>5, <1>6, <1>7, <1>8, <1>9, <1>10, <1>11,
     <1>12, <1>13, <1>14, <1>15, <1>16, <1>17, <1>18
     DEF DaemonNext, Serve

\* The invariant holds throughout when starts are serial.
THEOREM DaemonInvariance == ASSUME Serial PROVE DaemonSpec => []DaemonInv
<1>1. DaemonInv /\ [DaemonNext]_daemonVars => DaemonInv'
  BY DaemonTypeStep, TransitStep, ServesStep, OwnStep, MemoryStep, FileStep DEF DaemonInv
<1>2. QED
  BY DaemonInitFits, <1>1, PTL DEF DaemonSpec

\* Every variable keeps its type, also when starts overlap.
THEOREM DaemonTypes == DaemonSpec => []DaemonTypeOK
<1>1. DaemonInit => DaemonTypeOK
  BY DaemonInitFits DEF DaemonInv
<1>2. DaemonTypeOK /\ [DaemonNext]_daemonVars => DaemonTypeOK'
  BY DaemonTypeStep
<1>3. QED
  BY <1>1, <1>2, PTL DEF DaemonSpec

\* Two daemons are never up at once behind the admin socket.
THEOREM OneDaemonIsUp == ASSUME Serial PROVE DaemonSpec => []OneDaemon
<1>1. DaemonInv => OneDaemon
  BY DEF DaemonInv, OneDaemon, OneInTransit, OneServes, Accepting, Settled
<1>2. QED
  BY <1>1, DaemonInvariance, PTL

\* The command line reaches the daemon that serves.
THEOREM AdminIsReachable == ASSUME Serial PROVE DaemonSpec => []AdminReachable
<1>1. DaemonInv => AdminReachable
  BY DEF DaemonInv, AdminReachable, OneServes
<1>2. QED
  BY <1>1, DaemonInvariance, PTL

\* No enrolment and no revocation is undone by starts, stops and deaths.
THEOREM DevicesSurvive == ASSUME Serial PROVE DaemonSpec => []FileIsTrue
<1>1. DaemonInv => FileIsTrue
  BY DEF DaemonInv
<1>2. QED
  BY <1>1, DaemonInvariance, PTL

-----------------------------------------------------------------------------
(* Enrolment links, for every set of links, every lifetime and every       *)
(* limit.  The limiter keeps the newest failures only, and fewer than the  *)
(* limit only if all the others are out of the window (ListIsNewest): what *)
(* it finds in the window is therefore all there is, or enough.            *)

\* The part of the invariant that is about the links.
LinksInv == LinksTypeOK /\ UnusedUntilRedeemed /\ SingleUse /\ GoodLinksArePending

\* Every step keeps it: one step per action.
LEMMA LinksStep ==
    ASSUME LinksInv, [EnrollNext]_enrollVars
    PROVE  LinksInv'
<1> USE LimitsAssumption
    DEF LinksInv, LinksTypeOK, UnusedUntilRedeemed, SingleUse, GoodLinksArePending, Expired, Time
<1>1. ASSUME NEW l \in Link, Mint(l) PROVE LinksInv'
  BY <1>1 DEF Mint, Unexpired
<1>2. ASSUME NEW token \in Link \cup {Bogus}, RedeemUnknown(token) PROVE LinksInv'
  BY <1>2 DEF RedeemUnknown
<1>3. ASSUME NEW l \in Link, RedeemExpired(l) PROVE LinksInv'
  BY <1>3 DEF RedeemExpired
<1>4. ASSUME NEW l \in Link, RedeemUnsaved(l) PROVE LinksInv'
  BY <1>4 DEF RedeemUnsaved
<1>5. ASSUME NEW l \in Link, RedeemSaved(l) PROVE LinksInv'
  BY <1>5 DEF RedeemSaved
<1>6. CASE Tick
  BY <1>6 DEF Tick
<1>7. CASE Restart
  BY <1>7 DEF Restart
<1>8. CASE UNCHANGED enrollVars
  BY <1>8 DEF enrollVars
<1>9. QED
  BY <1>1, <1>2, <1>3, <1>4, <1>5, <1>6, <1>7, <1>8 DEF EnrollNext

\* The part of it that is about the limiter.
LimiterInv ==
    /\ failures \in Seq(Time) /\ Len(failures) <= MaxRedeemFailures
    /\ log \in Seq(Time)
    /\ reply \in [token : Link \cup {Bogus}, status : Status]
    /\ InOrderOfTime /\ ListIsNewest /\ LimiterCountsTheWindow

LEMMA EnrollInvParts == EnrollInv <=> LinksInv /\ LimiterInv
BY DEF EnrollInv, EnrollTypeOK, LinksInv, LimiterInv

\* What the limiter finds is the end of the log, and it misses nothing in the window
\* unless its list is full of what is.
LEMMA RecentIsNewest ==
    ASSUME now \in Time, LimiterInv
    PROVE  \E m \in 0 .. Len(failures) :
               /\ Recent(failures) \in Seq(Time) /\ Len(Recent(failures)) = m /\ m <= Len(log)
               /\ \A i \in 1 .. m : Recent(failures)[i] = log[Len(log) - m + i]
               /\ \A i \in Len(log) - m + 1 .. Len(log) : log[i] > now - RedeemFailureWindow
               /\ \/ m = MaxRedeemFailures
                  \/ \A i \in 1 .. Len(log) - m : log[i] <= now - RedeemFailureWindow
<1> DEFINE limit == now - RedeemFailureWindow
           n == Len(failures)
           all == Len(log)
<1>1. /\ n \in Nat /\ all \in Nat /\ n <= all /\ limit \in Int /\ n <= MaxRedeemFailures
      /\ MaxRedeemFailures \in Nat /\ Time \in SUBSET Int /\ failures \in Seq(Time) /\ log \in Seq(Time)
  BY LimitsAssumption DEF LimiterInv, ListIsNewest, Time
<1>2. \A i \in 1 .. n : failures[i] = log[all - n + i]
  BY DEF LimiterInv, ListIsNewest
<1>3. \A i, j \in 1 .. all : i < j => log[i] <= log[j]
  BY DEF LimiterInv, InOrderOfTime
<1>4. n = MaxRedeemFailures \/ \A i \in 1 .. all - n : log[i] <= limit
  BY DEF LimiterInv, ListIsNewest
<1>5. \A i \in 1 .. all : log[i] \in Int
  <2>1. \A i \in 1 .. all : log[i] \in Time
    BY <1>1
  <2>2. \A t \in Time : t \in Int
    BY <1>1
  <2>3. QED
    BY <2>1, <2>2
<1> HIDE DEF limit
<1>6. \A i \in 1 .. n : all - n + i \in 1 .. all
  BY <1>1
<1>7. \A i, j \in 1 .. n : i < j => failures[i] <= failures[j]
  <2> SUFFICES ASSUME NEW i \in 1 .. n, NEW j \in 1 .. n, i < j PROVE failures[i] <= failures[j]
    OBVIOUS
  <2>1. all - n + i \in 1 .. all /\ all - n + j \in 1 .. all /\ all - n + i < all - n + j
    BY <1>1, <1>6
  <2>2. QED
    BY <1>2, <1>3, <2>1
<1>8. PICK k \in 0 .. n :
          /\ Those(failures, {t \in Time : t > limit}) = SubSeq(failures, k + 1, n)
          /\ \A i \in 1 .. k : failures[i] <= limit
          /\ \A i \in k + 1 .. n : failures[i] > limit
  BY <1>1, <1>7, ThoseBehind
<1>9. Recent(failures) = SubSeq(failures, k + 1, n)
  BY <1>8 DEF Recent, limit
<1> DEFINE m == n - k
           r == SubSeq(failures, k + 1, n)
<1>10. m \in 0 .. n /\ m <= all /\ k \in Nat
  BY <1>1, <1>8
<1>11. /\ r \in Seq(Time) /\ Len(r) = m
       /\ \A i \in 1 .. m : r[i] = failures[k + i]
  BY <1>1, <1>8
<1> HIDE DEF r
<1>12. \A i \in 1 .. m : k + i \in 1 .. n /\ all - n + (k + i) = all - m + i
  BY <1>1, <1>8
<1>13. \A i \in 1 .. m : r[i] = log[all - m + i]
  BY <1>2, <1>11, <1>12
<1>14. ASSUME NEW i \in all - m + 1 .. all PROVE log[i] > limit
  <2>1. i - (all - n) \in k + 1 .. n /\ i - (all - n) \in 1 .. n /\ all - n + (i - (all - n)) = i
    BY <1>1, <1>8
  <2>2. QED
    BY <1>2, <1>8, <2>1
<1>15. m = MaxRedeemFailures \/ \A i \in 1 .. all - m : log[i] <= limit
  <2>1. CASE k = 0
    <3>1. m = n
      BY <1>1, <2>1
    <3>2. QED
      BY <1>4, <3>1
  <2>2. CASE k # 0
    <3>1. k \in 1 .. k /\ k \in 1 .. n /\ all - n + k = all - m /\ all - m \in 1 .. all
      BY <1>1, <1>8, <2>2
    <3>2. log[all - m] <= limit
      BY <1>2, <1>8, <3>1
    <3>3. ASSUME NEW i \in 1 .. all - m PROVE log[i] <= limit
      <4>1. i \in 1 .. all /\ (i = all - m \/ i < all - m)
        BY <1>1, <3>1
      <4>2. i < all - m => log[i] <= log[all - m]
        BY <1>3, <3>1, <4>1
      <4>3. log[i] \in Int /\ log[all - m] \in Int /\ limit \in Int
        BY <1>1, <1>5, <3>1, <4>1
      <4>4. QED
        BY <3>2, <4>1, <4>2, <4>3
    <3>4. QED
      BY <3>3
  <2>3. QED
    BY <2>1, <2>2
<1>16. /\ Recent(failures) \in Seq(Time) /\ Len(Recent(failures)) = m
       /\ \A i \in 1 .. m : Recent(failures)[i] = log[all - m + i]
  <2>1. Recent(failures) = r
    BY <1>9 DEF r
  <2>2. QED
    BY <1>11, <1>13, <2>1
<1> HIDE DEF m
<1>17. QED
  BY <1>10, <1>14, <1>15, <1>16 DEF limit

\* One list is the end of another.
IsEnd(p, all) ==
    Len(p) <= Len(all) /\ \A i \in 1 .. Len(p) : p[i] = all[Len(all) - Len(p) + i]

\* What is cut to its newest entries, at most so many.
Newest(kept, limit) ==
    IF Len(kept) - limit >= 0 THEN SubSeq(kept, Len(kept) - limit + 1, Len(kept)) ELSE kept

LEMMA NewestFits ==
    ASSUME NEW T, NEW kept \in Seq(T), NEW all \in Seq(T), NEW limit \in Nat,
           IsEnd(kept, all)
    PROVE  /\ Newest(kept, limit) \in Seq(T) /\ IsEnd(Newest(kept, limit), all)
           /\ Len(Newest(kept, limit)) <= limit
           /\ \/ Len(Newest(kept, limit)) = limit
              \/ Len(Newest(kept, limit)) = Len(kept) /\ Len(kept) < limit
<1> USE DEF IsEnd
<1> DEFINE n == Len(kept)
           over == n - limit
<1>1. n \in Nat /\ Len(all) \in Nat /\ over \in Int
  OBVIOUS
<1>2. CASE over >= 0
  <2> DEFINE new == SubSeq(kept, over + 1, n)
  <2>1. over \in 0 .. n /\ n - over = limit /\ limit <= n
    BY <1>1, <1>2
  <2>2. Newest(kept, limit) = new
    BY <1>2 DEF Newest
  <2> HIDE DEF over
  <2>3. new \in Seq(T) /\ Len(new) = n - over /\ \A i \in 1 .. n - over : new[i] = kept[over + i]
    BY <2>1, SplitAt
  <2> HIDE DEF new
  <2>4. ASSUME NEW i \in 1 .. limit PROVE new[i] = all[Len(all) - limit + i]
    <3>1. over + i \in 1 .. n /\ Len(all) - n + (over + i) = Len(all) - limit + i
      BY <1>1, <2>1
    <3>2. new[i] = kept[over + i]
      BY <2>1, <2>3
    <3>3. QED
      BY <3>1, <3>2
  <2>5. Len(new) = limit
    BY <2>1, <2>3
  <2>6. limit <= Len(all)
    BY <1>1, <2>1
  <2> HIDE DEF n
  <2>7. QED
    BY <2>2, <2>3, <2>4, <2>5, <2>6
<1>3. CASE ~(over >= 0)
  <2>1. Newest(kept, limit) = kept /\ n < limit
    BY <1>1, <1>3 DEF Newest
  <2>2. QED
    BY <2>1
<1>4. QED
  BY <1>2, <1>3

\* A failed redemption keeps the limiter's part.
LEMMA RecordFailureStep ==
    ASSUME now \in Time, now' = now, LimiterInv,
           NEW token \in Link \cup {Bogus}, NEW status \in {"invalid", "expired"},
           RecordFailure(token, status)
    PROVE  LimiterInv'
<1> DEFINE limit == now - RedeemFailureWindow
           all == Len(log)
           kept == Append(Recent(failures), now)
           over == Len(kept) - MaxRedeemFailures
<1>1. PICK m \in 0 .. Len(failures) :
          /\ Recent(failures) \in Seq(Time) /\ Len(Recent(failures)) = m /\ m <= all
          /\ \A i \in 1 .. m : Recent(failures)[i] = log[all - m + i]
          /\ \A i \in all - m + 1 .. all : log[i] > limit
          /\ \/ m = MaxRedeemFailures
             \/ \A i \in 1 .. all - m : log[i] <= limit
  BY RecentIsNewest
<1>2. /\ all \in Nat /\ m \in Nat /\ limit \in Int /\ limit < now /\ now \in Int
      /\ MaxRedeemFailures \in Nat \ {0} /\ log \in Seq(Time) /\ m <= MaxRedeemFailures
  BY <1>1, LimitsAssumption DEF LimiterInv, Time
<1>3. /\ log' = Append(log, now)
      /\ failures' = IF over >= 0 THEN SubSeq(kept, over + 1, Len(kept)) ELSE kept
      /\ reply' = [token |-> token, status |-> IF over >= 0 THEN "busy" ELSE status]
  BY DEF RecordFailure, Reply
<1>4. /\ kept \in Seq(Time) /\ Len(kept) = m + 1 /\ kept[m + 1] = now
      /\ \A i \in 1 .. m : kept[i] = Recent(failures)[i]
  BY <1>1, <1>2
<1>5. /\ log' \in Seq(Time) /\ Len(log') = all + 1 /\ log'[all + 1] = now
      /\ \A i \in 1 .. all : log'[i] = log[i]
  BY <1>2, <1>3
<1> DEFINE all1 == all + 1
<1> HIDE DEF limit, kept, over, all, all1
<1>6. over = m + 1 - MaxRedeemFailures /\ over <= 1 /\ over \in Int
  BY <1>2, <1>4 DEF over
<1>7. \A i \in 1 .. m + 1 : kept[i] = log'[all + 1 - (m + 1) + i]
  <2> SUFFICES ASSUME NEW i \in 1 .. m + 1 PROVE kept[i] = log'[all + 1 - (m + 1) + i]
    OBVIOUS
  <2>1. CASE i \in 1 .. m
    <3>1. all - m + i \in 1 .. all /\ all + 1 - (m + 1) + i = all - m + i
      BY <1>1, <1>2, <2>1
    <3>2. QED
      BY <1>1, <1>4, <1>5, <2>1, <3>1
  <2>2. CASE i \notin 1 .. m
    <3>1. i = m + 1 /\ all + 1 - (m + 1) + i = all + 1
      BY <1>2, <2>2
    <3>2. QED
      BY <1>4, <1>5, <3>1
  <2>3. QED
    BY <2>1, <2>2
<1>8. /\ failures' \in Seq(Time) /\ Len(failures') <= MaxRedeemFailures /\ Len(failures') <= Len(log')
      /\ \A i \in 1 .. Len(failures') : failures'[i] = log'[Len(log') - Len(failures') + i]
      /\ \/ Len(failures') = MaxRedeemFailures
         \/ Len(failures') = m + 1 /\ m + 1 < MaxRedeemFailures
  <2>1. PICK long \in Seq(Time) : long = log'
    BY <1>5
  <2>2. Len(kept) = m + 1 /\ Len(long) = all + 1 /\ m + 1 <= all + 1
    BY <1>1, <1>2, <1>4, <1>5, <2>1
  <2>3. \A i \in 1 .. m + 1 : kept[i] = long[all + 1 - (m + 1) + i]
    BY <1>7, <2>1
  <2>4. IsEnd(kept, long)
    BY <1>2, <2>2, <2>3 DEF IsEnd
  <2> DEFINE short == Newest(kept, MaxRedeemFailures)
  <2>5. failures' = short
    BY <1>3 DEF Newest, over
  <2>6. kept \in Seq(Time) /\ long \in Seq(Time) /\ MaxRedeemFailures \in Nat
    BY <1>2, <1>4
  <2>7. /\ short \in Seq(Time) /\ IsEnd(short, long) /\ Len(short) <= MaxRedeemFailures
        /\ Len(short) = MaxRedeemFailures \/ (Len(short) = Len(kept) /\ Len(kept) < MaxRedeemFailures)
    BY <2>4, <2>6, NewestFits
  <2> HIDE DEF short
  <2>8. QED
    BY <2>1, <2>2, <2>5, <2>7 DEF IsEnd
<1>9. InOrderOfTime'
  <2>1. \A i \in 1 .. all : log[i] <= now
    BY DEF LimiterInv, InOrderOfTime, all
  <2>2. \A i, j \in 1 .. all : i < j => log[i] <= log[j]
    BY DEF LimiterInv, InOrderOfTime, all
  <2>3. ASSUME NEW i \in 1 .. all + 1 PROVE log'[i] <= now
    <3>1. i \in 1 .. all \/ i = all + 1
      BY <1>2
    <3>2. QED
      BY <1>2, <1>5, <2>1, <3>1
  <2>4. ASSUME NEW i \in 1 .. all + 1, NEW j \in 1 .. all + 1, i < j PROVE log'[i] <= log'[j]
    <3>1. i \in 1 .. all /\ (j \in 1 .. all \/ j = all + 1)
      BY <1>2, <2>4
    <3>2. CASE j \in 1 .. all
      BY <1>5, <2>2, <2>4, <3>1, <3>2
    <3>3. CASE j = all + 1
      BY <1>5, <2>1, <3>1, <3>3
    <3>4. QED
      BY <3>1, <3>2, <3>3
  <2>5. QED
    BY <1>5, <2>3, <2>4 DEF InOrderOfTime
<1>10. \/ m = MaxRedeemFailures
       \/ \A i \in 1 .. all + 1 - (m + 1) : log'[i] <= limit
  <2>1. \A i \in 1 .. all + 1 - (m + 1) : i \in 1 .. all - m /\ i \in 1 .. all
    BY <1>1, <1>2
  <2>2. QED
    BY <1>1, <1>5, <2>1
<1>11. ListIsNewest'
  <2>1. /\ Len(log') = all + 1 /\ limit = now' - RedeemFailureWindow
    BY <1>5 DEF limit
  <2> HIDE DEF limit
  <2>2. \/ Len(failures') = MaxRedeemFailures
        \/ \A i \in 1 .. Len(log') - Len(failures') : log'[i] <= now' - RedeemFailureWindow
    BY <1>2, <1>8, <1>10, <2>1
  <2>3. QED
    BY <1>8, <2>2 DEF ListIsNewest
<1> DEFINE recent == {i \in DOMAIN log' : now - RedeemFailureWindow < log'[i]}
           newest == all + 1 - m .. all + 1
<1>12. newest \subseteq recent
  <2> SUFFICES ASSUME NEW i \in newest PROVE i \in DOMAIN log' /\ limit < log'[i]
    BY DEF limit
  <2>1. i \in 1 .. all + 1
    BY <1>1, <1>2
  <2>2. CASE i = all + 1
    BY <1>2, <1>5, <2>1, <2>2
  <2>3. CASE i # all + 1
    <3>1. i \in all - m + 1 .. all /\ i \in 1 .. all
      BY <1>1, <1>2, <2>1, <2>3
    <3>2. log[i] > limit /\ log'[i] = log[i] /\ DOMAIN log' = 1 .. all + 1
      BY <1>1, <1>5, <3>1
    <3>3. log[i] \in Int
      <4>1. log[i] \in Time
        BY <1>2, <3>1 DEF all
      <4>2. QED
        BY <4>1, LimitsAssumption DEF Time
    <3>4. QED
      BY <1>2, <2>1, <3>2, <3>3
  <2>4. QED
    BY <2>2, <2>3
<1>13. m + 1 < MaxRedeemFailures => recent \subseteq newest
  <2> SUFFICES ASSUME m + 1 < MaxRedeemFailures, NEW i \in DOMAIN log', limit < log'[i]
               PROVE  i \in newest
    BY DEF limit
  <2>1. i \in 1 .. all + 1
    BY <1>5
  <2>2. \A j \in 1 .. all + 1 - (m + 1) : log'[j] <= limit
    BY <1>2, <1>10
  <2>3. log'[i] \in Int
    <3>1. log'[i] \in Time
      BY <1>5, <2>1
    <3>2. QED
      BY <3>1, LimitsAssumption DEF Time
  <2>4. i \notin 1 .. all + 1 - (m + 1)
    BY <1>2, <2>2, <2>3
  <2>5. QED
    BY <1>1, <1>2, <2>1, <2>4
<1>14. IsFiniteSet(newest) /\ Cardinality(newest) = m + 1
  <2>1. all + 1 - m \in Int /\ all + 1 \in Int /\ all + 1 - m <= all + 1 /\ (all + 1) - (all + 1 - m) + 1 = m + 1
    BY <1>2
  <2>2. QED
    BY <2>1, FS_Interval
<1>15. IsFiniteSet(recent)
  <2>1. recent \subseteq 1 .. all + 1
    BY <1>5
  <2>2. IsFiniteSet(1 .. all + 1)
    BY <1>2, FS_Interval
  <2> HIDE DEF recent
  <2>3. QED
    BY <2>1, <2>2, FS_Subset
<1>16. /\ Cardinality(recent) \in Nat /\ Cardinality(recent) >= m + 1
       /\ m + 1 < MaxRedeemFailures => Cardinality(recent) = m + 1
  <2> HIDE DEF recent, newest
  <2>1. Cardinality(recent) \in Nat /\ m + 1 <= Cardinality(recent)
    BY <1>2, <1>12, <1>14, <1>15, FS_CardinalityType, FS_Subset
  <2>2. m + 1 < MaxRedeemFailures => recent = newest
    BY <1>12, <1>13
  <2>3. QED
    BY <1>2, <1>14, <2>1, <2>2
<1>17. LimiterCountsTheWindow'
  <2> HIDE DEF recent
  <2>1. reply'.status = "busy" => Cardinality(recent) >= MaxRedeemFailures
    BY <1>2, <1>3, <1>6, <1>16
  <2>2. reply'.status \in {"invalid", "expired"} => Cardinality(recent) < MaxRedeemFailures
    BY <1>2, <1>3, <1>6, <1>16
  <2>3. QED
    BY <2>1, <2>2 DEF LimiterCountsTheWindow, recent
<1>18. reply' \in [token : Link \cup {Bogus}, status : Status]
  BY <1>3 DEF Status
<1>19. QED
  BY <1>5, <1>8, <1>9, <1>11, <1>17, <1>18 DEF LimiterInv, Time

\* The other steps: they answer nothing that the limiter had to say.
LEMMA LimiterStep ==
    ASSUME EnrollInv, [EnrollNext]_enrollVars
    PROVE  LimiterInv'
<1>1. now \in Time /\ LimiterInv
  BY EnrollInvParts DEF LinksInv, LinksTypeOK
<1>2. ASSUME NEW token \in Link \cup {Bogus}, RedeemUnknown(token) PROVE LimiterInv'
  BY <1>1, <1>2, RecordFailureStep DEF RedeemUnknown
<1>3. ASSUME NEW l \in Link, RedeemExpired(l) PROVE LimiterInv'
  BY <1>1, <1>3, RecordFailureStep DEF RedeemExpired
<1>4. ASSUME now' = now, failures' = failures, log' = log,
             reply' \in [token : Link \cup {Bogus}, status : {"none", "unsaved", "device"}]
      PROVE  LimiterInv'
  <2>1. reply' \in [token : Link \cup {Bogus}, status : Status]
    BY <1>4 DEF Status
  <2>2. LimiterCountsTheWindow'
    <3>1. reply'.status \notin {"busy", "invalid", "expired"}
      BY <1>4
    <3>2. QED
      BY <3>1 DEF LimiterCountsTheWindow
  <2>3. QED
    BY <1>1, <1>4, <2>1, <2>2 DEF LimiterInv, InOrderOfTime, ListIsNewest, Time
<1>5. ASSUME NEW l \in Link, Mint(l) \/ RedeemUnsaved(l) \/ RedeemSaved(l) PROVE LimiterInv'
  BY <1>4, <1>5 DEF Mint, RedeemUnsaved, RedeemSaved, Reply, NoReply
<1>6. CASE Tick
  <2>1. /\ now' = now + 1 /\ failures' = failures /\ log' = log /\ reply' = NoReply
        /\ now \in Int /\ RedeemFailureWindow \in Int
    BY <1>1, <1>6, LimitsAssumption DEF Tick, Time
  <2>2. /\ failures' \in Seq(Time) /\ log' \in Seq(Time) /\ Len(failures') <= MaxRedeemFailures
        /\ reply' \in [token : Link \cup {Bogus}, status : Status]
        /\ reply'.status = "none"
    BY <1>1, <2>1 DEF LimiterInv, NoReply, Status
  <2>3. \A i \in 1 .. Len(log) : log[i] \in Int
    <3>1. \A i \in 1 .. Len(log) : log[i] \in Time
      BY <1>1 DEF LimiterInv
    <3>2. \A t \in Time : t \in Int
      BY LimitsAssumption DEF Time
    <3>3. QED
      BY <3>1, <3>2
  <2>4. InOrderOfTime'
    BY <1>1, <2>1, <2>3 DEF LimiterInv, InOrderOfTime
  <2>5. ListIsNewest'
    <3>1. \A i \in 1 .. Len(log) - Len(failures) : i \in 1 .. Len(log)
      BY <1>1 DEF LimiterInv
    <3>2. \A i \in 1 .. Len(log) - Len(failures) :
              log[i] <= now - RedeemFailureWindow => log[i] <= (now + 1) - RedeemFailureWindow
      BY <2>1, <2>3, <3>1
    <3>3. QED
      BY <1>1, <2>1, <3>2 DEF LimiterInv, ListIsNewest
  <2>6. LimiterCountsTheWindow'
    BY <2>2 DEF LimiterCountsTheWindow
  <2>7. QED
    BY <2>2, <2>4, <2>5, <2>6 DEF LimiterInv, Time
<1>7. CASE Restart
  <2>1. failures' = <<>> /\ log' = <<>> /\ reply' = NoReply /\ MaxRedeemFailures \in Nat /\ Len(<<>>) = 0
    BY <1>7, LimitsAssumption DEF Restart
  <2>2. reply' \in [token : Link \cup {Bogus}, status : Status] /\ reply'.status = "none"
    BY <2>1 DEF NoReply, Status
  <2>3. InOrderOfTime'
    BY <2>1 DEF InOrderOfTime
  <2>4. ListIsNewest'
    BY <2>1 DEF ListIsNewest
  <2>5. LimiterCountsTheWindow'
    BY <2>2 DEF LimiterCountsTheWindow
  <2>6. failures' \in Seq(Time') /\ log' \in Seq(Time') /\ Len(failures') <= MaxRedeemFailures
    BY <2>1
  <2>7. QED
    BY <2>2, <2>3, <2>4, <2>5, <2>6 DEF LimiterInv
<1>8. CASE UNCHANGED enrollVars
  BY <1>1, <1>8 DEF enrollVars, LimiterInv, InOrderOfTime, ListIsNewest, LimiterCountsTheWindow, Time
<1>9. QED
  BY <1>2, <1>3, <1>5, <1>6, <1>7, <1>8 DEF EnrollNext

\* The invariant holds throughout: the links' part and the limiter's.
THEOREM EnrollInvariance == EnrollSpec => []EnrollInv
<1>1. EnrollInit => EnrollInv
  <2> SUFFICES ASSUME EnrollInit PROVE EnrollInv
    OBVIOUS
  <2>1. LinksInv
    BY LimitsAssumption DEF EnrollInit, LinksInv, LinksTypeOK, UnusedUntilRedeemed, SingleUse,
       GoodLinksArePending, Expired, Time
  <2>2. failures = <<>> /\ log = <<>> /\ reply = NoReply /\ MaxRedeemFailures \in Nat /\ Len(<<>>) = 0
    BY LimitsAssumption DEF EnrollInit
  <2>3. reply \in [token : Link \cup {Bogus}, status : Status] /\ reply.status = "none"
    BY <2>2 DEF NoReply, Status
  <2>4. InOrderOfTime
    BY <2>2 DEF InOrderOfTime
  <2>5. ListIsNewest
    BY <2>2 DEF ListIsNewest
  <2>6. LimiterCountsTheWindow
    BY <2>3 DEF LimiterCountsTheWindow
  <2>7. failures \in Seq(Time) /\ log \in Seq(Time) /\ Len(failures) <= MaxRedeemFailures
    BY <2>2
  <2>8. LimiterInv
    BY <2>3, <2>4, <2>5, <2>6, <2>7 DEF LimiterInv
  <2>9. QED
    BY <2>1, <2>8, EnrollInvParts
<1>2. EnrollInv /\ [EnrollNext]_enrollVars => EnrollInv'
  <2> SUFFICES ASSUME EnrollInv, [EnrollNext]_enrollVars PROVE EnrollInv'
    OBVIOUS
  <2>1. LinksInv' /\ LimiterInv'
    BY EnrollInvParts, LinksStep, LimiterStep
  <2>2. QED
    BY <2>1 DEF EnrollInv, EnrollTypeOK, LinksInv, LimiterInv
<1>3. QED
  BY <1>1, <1>2, PTL DEF EnrollSpec

\* No link ever enrolls two devices.
THEOREM LinksAreSingleUse == EnrollSpec => []SingleUse
<1>1. EnrollInv => SingleUse
  BY DEF EnrollInv
<1>2. QED
  BY <1>1, EnrollInvariance, PTL

\* A good link stays redeemable until it is redeemed.
THEOREM GoodLinksStay == EnrollSpec => []GoodLinksArePending
<1>1. EnrollInv => GoodLinksArePending
  BY DEF EnrollInv
<1>2. QED
  BY <1>1, EnrollInvariance, PTL

\* The limiter counts the failures of the last window and no others, for every
\* window and every limit, although it never keeps more than the limit.
THEOREM LimiterIsExact == EnrollSpec => []LimiterCountsTheWindow
<1>1. EnrollInv => LimiterCountsTheWindow
  BY DEF EnrollInv
<1>2. QED
  BY <1>1, EnrollInvariance, PTL

\* However full the limiter is, it refuses no link that is good.
THEOREM GoodLinksAreSpared == EnrollSpec => LimiterSparesGoodLinks
<1>1. ASSUME [EnrollNext]_enrollVars
      PROVE  [SparesGoodLinks]_enrollVars
  <2> USE <1>1 DEF SparesGoodLinks, Reply, NoReply
  <2>1. ASSUME NEW l \in Link, Mint(l) PROVE SparesGoodLinks
    BY <2>1 DEF Mint
  <2>2. ASSUME NEW token \in Link \cup {Bogus}, RedeemUnknown(token) PROVE SparesGoodLinks
    BY <2>2 DEF RedeemUnknown, RecordFailure
  <2>3. ASSUME NEW l \in Link, RedeemExpired(l) PROVE SparesGoodLinks
    BY <2>3 DEF RedeemExpired, RecordFailure
  <2>4. ASSUME NEW l \in Link, RedeemUnsaved(l) \/ RedeemSaved(l) PROVE SparesGoodLinks
    BY <2>4 DEF RedeemUnsaved, RedeemSaved
  <2>5. CASE Tick \/ Restart
    BY <2>5 DEF Tick, Restart
  <2>6. QED
    BY <2>1, <2>2, <2>3, <2>4, <2>5 DEF EnrollNext
<1>2. QED
  BY <1>1, PTL DEF EnrollSpec, LimiterSparesGoodLinks

-----------------------------------------------------------------------------
(* The installer.  A merge keeps the user's entries and leaves one of ours *)
(* or none (MergeFits); so does a plan, for as long as it is not written   *)
(* (PlansSpareHisOwn, PlansAreAsAsked); and a run is at any point as far   *)
(* as its place says (HalfDone), unless it was disturbed.                  *)

Entry == Own \cup Ours

\* The entries before the first of ours are the user's.
LEMMA LeadingFits ==
    ASSUME NEW q \in Seq(Entry)
    PROVE  /\ Leading(q) \in 0 .. Len(q)
           /\ \A i \in 1 .. Leading(q) : q[i] \in Own
<1> DEFINE Fits(n) == (\A i \in 1 .. n : q[i] \in Own) /\ (n < Len(q) => q[n + 1] \notin Own)
           Stops == {n \in 0 .. Len(q) : n < Len(q) => q[n + 1] \notin Own}
<1>1. Len(q) \in Nat /\ Len(q) \in Stops /\ Stops \in SUBSET Nat
  OBVIOUS
<1>2. PICK n \in Stops : \A m \in Stops : n <= m
  <2> HIDE DEF Stops
  <2>1. QED
    BY <1>1, Least
<1>3. n \in 0 .. Len(q) /\ (n < Len(q) => q[n + 1] \notin Own)
  BY <1>2
<1>4. ASSUME NEW i \in 1 .. n PROVE q[i] \in Own
  <2>1. i - 1 \in 0 .. Len(q) /\ i - 1 < n /\ (i - 1) + 1 = i
    BY <1>1, <1>3
  <2>2. i - 1 \notin Stops
    <3> HIDE DEF Stops
    <3>1. QED
      BY <1>2, <1>3, <2>1
  <2>3. QED
    BY <2>1, <2>2
<1>5. \E m \in 0 .. Len(q) : Fits(m)
  BY <1>3, <1>4
<1> DEFINE l == CHOOSE m \in 0 .. Len(q) : Fits(m)
<1>6. Leading(q) = l
  BY Zenon DEF Leading
<1> HIDE DEF Fits
<1>7. l \in 0 .. Len(q) /\ Fits(l)
  BY <1>5
<1> HIDE DEF l
<1>8. QED
  BY <1>6, <1>7 DEF Fits

\* What the merge of one event leaves and puts: the user's own entries as they are, in
\* their order, and of ours the one this version wants.
LEMMA MergeFits ==
    ASSUME NEW q \in Seq(Entry), NEW wanted \in BOOLEAN
    PROVE  /\ Merge(q, wanted) \in Seq(Entry)
           /\ OwnEntries(Merge(q, wanted)) = OwnEntries(q)
           /\ OurEntries(Merge(q, wanted)) = IF wanted THEN <<"ours">> ELSE <<>>
<1>1. /\ Own \cap Ours = {} /\ Entry \cap Own = Own /\ Own \subseteq Entry /\ Own \subseteq Own
      /\ {"ours"} \subseteq Ours /\ {"ours"} \cap Own = {} /\ {"ours"} \subseteq Entry
  BY OwnAssumption DEF Entry, Ours
<1>2. ASSUME NEW p \in Seq(Own) PROVE p \in Seq(Entry) /\ Those(p, Own) = p /\ Those(p, Ours) = <<>>
  BY <1>1, ThoseAll, ThoseNone
<1>3. ASSUME NEW p \in Seq(Entry) PROVE Those(p, Own) \in Seq(Own)
  BY <1>1, ThoseType
<1>4. CASE ~wanted
  <2>1. Merge(q, wanted) = Those(q, Own)
    BY <1>4 DEF Merge, OwnEntries
  <2>2. QED
    BY <1>2, <1>3, <1>4, <2>1 DEF OwnEntries, OurEntries
<1>5. CASE wanted
  <2> DEFINE n == Leading(q)
             a == SubSeq(q, 1, n)
             rest == SubSeq(q, n + 1, Len(q))
             c == Those(rest, Own)
             b == <<"ours">>
             ab == a \o b
             m == ab \o c
  <2>1. n \in 0 .. Len(q) /\ \A i \in 1 .. n : q[i] \in Own
    BY LeadingFits
  <2>2. Merge(q, wanted) = m
    BY <1>5 DEF Merge, OwnEntries
  <2> HIDE DEF n
  <2>3. q = a \o rest /\ a \in Seq(Entry) /\ rest \in Seq(Entry) /\ Len(a) = n /\ \A i \in 1 .. n : a[i] = q[i]
    BY <2>1, SplitAt
  <2> HIDE DEF a, rest
  <2>4. a \in Seq(Own)
    <3>1. \A i \in 1 .. Len(a) : a[i] \in Own
      BY <2>1, <2>3
    <3>2. QED
      BY <2>3, <3>1
  <2>5. b \in Seq({"ours"}) /\ b \in Seq(Entry)
    BY <1>1
  <2> HIDE DEF b
  <2>6. Those(b, Own) = <<>> /\ Those(b, Ours) = b
    BY <1>1, <2>5, ThoseNone, ThoseAll
  <2>7. c \in Seq(Own)
    BY <1>3, <2>3
  <2>8. ab \in Seq(Entry) /\ a \in Seq(Entry) /\ c \in Seq(Entry)
    <3>1. a \in Seq(Entry) /\ c \in Seq(Entry)
      BY <1>2, <2>4, <2>7
    <3> HIDE DEF c
    <3>2. QED
      BY <2>5, <3>1
  <2> HIDE DEF c
  <2>9. Those(q, Own) = a \o c
    <3>1. Those(a \o rest, Own) = Those(a, Own) \o Those(rest, Own)
      BY <2>3, ThoseConcat
    <3>2. QED
      BY <1>2, <2>3, <2>4, <3>1 DEF c
  <2>10. Those(ab, Own) = a /\ Those(ab, Ours) = b
    <3>1. Those(ab, Own) = Those(a, Own) \o Those(b, Own)
      BY <2>5, <2>8, ThoseConcat
    <3>2. Those(ab, Ours) = Those(a, Ours) \o Those(b, Ours)
      BY <2>5, <2>8, ThoseConcat
    <3>3. a \o <<>> = a /\ <<>> \o b = b
      BY <2>4, <2>5
    <3> HIDE DEF ab
    <3>4. QED
      BY <1>2, <2>4, <2>6, <3>1, <3>2, <3>3
  <2> HIDE DEF ab
  <2>11. m \in Seq(Entry)
    BY <2>8
  <2>12. Those(m, Own) = a \o c /\ Those(m, Ours) = b
    <3>1. Those(m, Own) = Those(ab, Own) \o Those(c, Own)
      BY <2>8, ThoseConcat
    <3>2. Those(m, Ours) = Those(ab, Ours) \o Those(c, Ours)
      BY <2>8, ThoseConcat
    <3>3. b \o <<>> = b
      BY <2>5
    <3> HIDE DEF m
    <3>4. QED
      BY <1>2, <2>7, <2>10, <3>1, <3>2, <3>3
  <2> HIDE DEF m
  <2>13. QED
    BY <1>5, <2>2, <2>9, <2>11, <2>12 DEF OwnEntries, OurEntries, b
<1>6. QED
  BY <1>4, <1>5

\* The same for all events.
LEMMA MergeAllFits ==
    ASSUME InstallTypeOK, NEW r \in Run
    PROVE  /\ MergeAll(r) \in Settings
           /\ \A e \in Event : OwnEntries(MergeAll(r)[e]) = OwnEntries(settings[e])
           /\ EntriesAsAsked(r, MergeAll(r))
<1>1. ASSUME NEW e \in Event
      PROVE  /\ Merge(settings[e], e \in Wants(r)) \in Seq(Entry)
             /\ OwnEntries(Merge(settings[e], e \in Wants(r))) = OwnEntries(settings[e])
             /\ OurEntries(Merge(settings[e], e \in Wants(r))) = IF e \in Wants(r) THEN <<"ours">> ELSE <<>>
  <2>1. settings[e] \in Seq(Entry) /\ (e \in Wants(r)) \in BOOLEAN
    BY DEF InstallTypeOK, Settings, Entry
  <2>2. QED
    BY <2>1, MergeFits
<1>2. MergeAll(r) \in [Event -> Seq(Entry)] /\ \A e \in Event : MergeAll(r)[e] = Merge(settings[e], e \in Wants(r))
  BY <1>1 DEF MergeAll
<1>3. QED
  BY <1>1, <1>2 DEF EntriesAsAsked, Settings, Entry

Place == {"idle", "check", "merge", "confirm", "apply", "done", "over"}

\* What is fixed: what the files are called, and what a run is asked for.
LEMMA FilesFit ==
    /\ Len(Files) \in Nat /\ Len(Files) >= 1
    /\ \A i \in 1 .. Len(Files) : Files[i] \in File
    /\ \A f \in File : \E i \in 1 .. Len(Files) : f = Files[i]
<1>1. Files \in Seq(STRING) /\ Files # <<>>
  BY FilesAssumption
<1>2. QED
  BY <1>1 DEF File

LEMMA TargetsFit ==
    ASSUME InstallTypeOK, NEW r \in Run
    PROVE  Target(r) \in Contents /\ Target(r) # Foreign
<1>1. ask[r] \in [version : Version, remove : BOOLEAN]
  BY DEF InstallTypeOK
<1>2. QED
  BY <1>1, VersionAssumption DEF Target, Contents, Absent, Foreign

LEMMA EndKeepsTypes ==
    ASSUME InstallTypeOK, NEW r \in Run, NEW how \in Place, End(r, how)
    PROVE  at' \in [Run -> Place] /\ plan' \in [Run -> Plan]
<1>1. NoPlan \in Plan
  <2>1. 1 \in 1 .. Len(Files) + 1 /\ <<>> \in Seq(Own \cup Ours)
    BY FilesFit
  <2>2. QED
    BY <2>1 DEF NoPlan, NoSettings, Plan, Settings
<1>2. QED
  BY <1>1 DEF End, InstallTypeOK, Place

\* A run's steps change where it is and what it plans, and of the others neither.
RunStep(r) ==
    \/ Start(r) \/ Check(r) \/ PlanSettings(r) \/ Confirm(r)
    \/ ApplyFile(r) \/ ApplySettings(r) \/ Abandon(r)

LEMMA OthersStay ==
    ASSUME InstallTypeOK, NEW r \in Run, RunStep(r)
    PROVE  /\ ask' = ask /\ own' = own /\ foreign' = foreign /\ edits' = edits
           /\ \A q \in Run \ {r} : at'[q] = at[q] /\ plan'[q] = plan[q]
<1> USE DEF InstallTypeOK, userVars, End
<1>1. CASE Start(r)
  BY <1>1 DEF Start
<1>2. CASE Check(r)
  BY <1>2 DEF Check
<1>3. CASE PlanSettings(r)
  BY <1>3 DEF PlanSettings
<1>4. CASE Confirm(r)
  BY <1>4 DEF Confirm
<1>5. CASE ApplyFile(r)
  BY <1>5 DEF ApplyFile
<1>6. CASE ApplySettings(r)
  BY <1>6 DEF ApplySettings
<1>7. CASE Abandon(r)
  BY <1>7 DEF Abandon
<1>8. QED
  BY <1>1, <1>2, <1>3, <1>4, <1>5, <1>6, <1>7 DEF RunStep

\* What an edit of the user's makes of the list of an event.
LEMMA EditedFits ==
    ASSUME NEW q \in Seq(Entry), NEW p \in Edited(q)
    PROVE  p \in Seq(Entry)
<1>1. Ours \subseteq Entry /\ Own \subseteq Entry /\ "edited" \in Entry
  BY DEF Entry, Ours
<1>2. \A i \in 1 .. Len(q) : q[i] \in Entry
  OBVIOUS
<1>3. CASE \E o \in Own : p = <<o>> \o q \/ p = Append(q, o)
  <2>1. PICK o \in Own : p = <<o>> \o q \/ p = Append(q, o)
    BY <1>3
  <2>2. o \in Entry /\ <<o>> \in Seq(Entry)
    BY <1>1
  <2>3. <<o>> \o q \in Seq(Entry) /\ Append(q, o) \in Seq(Entry)
    BY <2>2
  <2>4. QED
    BY <2>1, <2>3
<1>4. CASE \E i \in 1 .. Len(q) : p = Append(q, q[i])
  BY <1>2, <1>4
<1>5. CASE \E i \in 1 .. Len(q) : p = [q EXCEPT ![i] = "edited"]
  BY <1>1, <1>5
<1>6. CASE \E i \in 1 .. Len(q) : p = SubSeq(q, 1, i - 1) \o SubSeq(q, i + 1, Len(q))
  <2>1. PICK i \in 1 .. Len(q) : p = SubSeq(q, 1, i - 1) \o SubSeq(q, i + 1, Len(q))
    BY <1>6
  <2>2. SubSeq(q, 1, i - 1) \in Seq(Entry) /\ SubSeq(q, i + 1, Len(q)) \in Seq(Entry)
    OBVIOUS
  <2>3. QED
    BY <2>1, <2>2
<1>7. QED
  BY <1>3, <1>4, <1>5, <1>6 DEF Edited

\* Every action keeps every variable in its type.
LEMMA InstallTypeStep ==
    ASSUME InstallTypeOK, PlansFit, [InstallNext]_installVars
    PROVE  InstallTypeOK'
<1> USE DEF userVars, Place
<1>0. /\ owned \in [File -> Contents] /\ settings \in Settings /\ broken \in BOOLEAN
      /\ at \in [Run -> Place] /\ plan \in [Run -> Plan]
      /\ ask \in [Run -> [version : Version, remove : BOOLEAN]]
      /\ own \in [Event -> Seq(Own)] /\ foreign \subseteq File
      /\ quiet \in [Run -> BOOLEAN] /\ edits \in 0 .. MaxEdits
  BY DEF InstallTypeOK
<1>1. ASSUME NEW r \in Run, Start(r) PROVE InstallTypeOK'
  BY <1>0, <1>1 DEF Start, InstallTypeOK
<1>2. ASSUME NEW r \in Run, Check(r) PROVE InstallTypeOK'
  <2>1. CASE End(r, "over")
    BY <1>2, <2>1, EndKeepsTypes DEF Check, InstallTypeOK
  <2>2. CASE ~End(r, "over")
    <3> DEFINE i == plan[r].next
               f == Files[i]
               found == plan[r].found \cup IF owned[f] = Absent THEN {} ELSE {f}
               Looked(next) == [next |-> next, found |-> found, writes |-> FALSE, merged |-> NoSettings]
    <3>1. /\ at[r] = "check"
          /\ \/ i < Len(Files) /\ plan' = [plan EXCEPT ![r] = Looked(i + 1)] /\ at' = at
             \/ plan' = [plan EXCEPT ![r] = Looked(1)] /\ at' = [at EXCEPT ![r] = "merge"]
          /\ UNCHANGED <<owned, settings, broken, ask, userVars, quiet>>
      BY <1>2, <2>2 DEF Check
    <3>2. plan[r] \in Plan /\ i \in 1 .. Len(Files)
      BY <1>0, <3>1, FilesFit DEF Plan, PlansFit
    <3>3. found \subseteq File
      BY <3>2, FilesFit DEF Plan
    <3>4. \A n \in 1 .. Len(Files) + 1 : Looked(n) \in Plan
      <4>1. NoSettings \in Settings
        BY DEF NoSettings, Settings
      <4> HIDE DEF found
      <4>2. QED
        BY <3>3, <4>1 DEF Plan
    <3>5. 1 \in 1 .. Len(Files) + 1 /\ (i < Len(Files) => i + 1 \in 1 .. Len(Files) + 1)
      BY <3>2, FilesFit
    <3> HIDE DEF Looked
    <3>6. plan' \in [Run -> Plan]
      BY <1>0, <3>1, <3>4, <3>5
    <3>7. at' \in [Run -> Place]
      BY <1>0, <3>1
    <3>8. QED
      BY <1>0, <3>1, <3>6, <3>7 DEF InstallTypeOK
  <2>3. QED
    BY <2>1, <2>2
<1>3. ASSUME NEW r \in Run, PlanSettings(r) PROVE InstallTypeOK'
  <2>1. CASE End(r, "over") \/ End(r, "done")
    BY <1>3, <2>1, EndKeepsTypes DEF PlanSettings, InstallTypeOK
  <2>2. CASE ~(End(r, "over") \/ End(r, "done"))
    <3> DEFINE changed == MergeAll(r) # settings
    <3>1. MergeAll(r) \in Settings
      BY MergeAllFits
    <3> DEFINE settled == [next |-> 1, found |-> plan[r].found, writes |-> changed,
                           merged |-> IF changed THEN MergeAll(r) ELSE NoSettings]
    <3>2. /\ at' = [at EXCEPT ![r] = "confirm"] /\ plan' = [plan EXCEPT ![r] = settled]
          /\ UNCHANGED <<owned, settings, broken, ask, userVars, quiet>>
      BY <1>3, <2>2 DEF PlanSettings
    <3>3. settled \in Plan
      <4>1. NoSettings \in Settings /\ 1 \in 1 .. Len(Files) + 1 /\ plan[r].found \subseteq File
        BY <1>0, FilesFit DEF NoSettings, Settings, Plan
      <4>2. QED
        BY <3>1, <4>1 DEF Plan
    <3> HIDE DEF settled
    <3>4. QED
      BY <1>0, <3>2, <3>3 DEF InstallTypeOK
  <2>3. QED
    BY <2>1, <2>2
<1>4. ASSUME NEW r \in Run, Confirm(r) PROVE InstallTypeOK'
  <2>1. CASE End(r, "over")
    BY <1>4, <2>1, EndKeepsTypes DEF Confirm, InstallTypeOK
  <2>2. CASE ~End(r, "over")
    BY <1>0, <1>4, <2>2 DEF Confirm, InstallTypeOK
  <2>3. QED
    BY <2>1, <2>2
<1>5. ASSUME NEW r \in Run, ApplyFile(r) PROVE InstallTypeOK'
  <2>1. plan[r] \in Plan /\ plan[r].next + 1 \in 1 .. Len(Files) + 1
    BY <1>0, <1>5, FilesFit DEF ApplyFile, Plan
  <2>2. plan' \in [Run -> Plan]
    BY <1>0, <1>5, <2>1 DEF ApplyFile, Plan
  <2>3. owned' \in [File -> Contents] /\ quiet' \in [Run -> BOOLEAN]
    <3>1. Target(r) \in Contents
      BY TargetsFit
    <3>2. \/ owned' = owned /\ quiet' = quiet
          \/ /\ owned' = [owned EXCEPT ![Files[plan[r].next]] = Target(r)]
             /\ quiet' = [q \in Run |-> quiet[q] /\ (at[q] = "idle" \/ ask[q] = ask[r])]
      BY <1>5 DEF ApplyFile, Disturb, Target
    <3>3. QED
      BY <1>0, <3>1, <3>2
  <2>4. QED
    BY <1>0, <1>5, <2>2, <2>3 DEF ApplyFile, InstallTypeOK
<1>6. ASSUME NEW r \in Run, ApplySettings(r) PROVE InstallTypeOK'
  <2>1. at' \in [Run -> Place] /\ plan' \in [Run -> Plan]
    BY <1>6, EndKeepsTypes DEF ApplySettings
  <2>2. plan[r].merged \in Settings
    BY <1>0 DEF Plan
  <2>3. settings' \in Settings /\ broken' \in BOOLEAN /\ quiet' \in [Run -> BOOLEAN]
    BY <1>0, <1>6, <2>2 DEF ApplySettings, Disturb
  <2>4. QED
    BY <1>0, <1>6, <2>1, <2>3 DEF ApplySettings, InstallTypeOK
<1>7. ASSUME NEW r \in Run, Abandon(r) PROVE InstallTypeOK'
  BY <1>7, EndKeepsTypes DEF Abandon, InstallTypeOK
<1>8. ASSUME Edit PROVE /\ edits' \in 0 .. MaxEdits /\ quiet' \in [Run -> BOOLEAN]
                        /\ at' = at /\ ask' = ask /\ plan' = plan
  BY <1>0, <1>8, BoundAssumption DEF Edit
<1>9. CASE PutFile
  BY <1>0, <1>8, <1>9 DEF PutFile, InstallTypeOK, Contents
<1>10. CASE EditHooks
  <2>0. PICK e \in Event : \E q \in Edited(settings[e]) :
            settings' = [settings EXCEPT ![e] = q] /\ own' = [own EXCEPT ![e] = OwnEntries(q)]
    BY <1>10 DEF EditHooks
  <2>1. PICK q \in Edited(settings[e]) :
            settings' = [settings EXCEPT ![e] = q] /\ own' = [own EXCEPT ![e] = OwnEntries(q)]
    BY <2>0
  <2>2. q \in Seq(Entry)
    BY <1>0, EditedFits DEF Settings, Entry
  <2>3. OwnEntries(q) \in Seq(Own)
    <3>1. Those(q, Own) \in Seq(Entry \cap Own) /\ Entry \cap Own = Own
      BY <2>2, ThoseType DEF Entry
    <3>2. QED
      BY <3>1 DEF OwnEntries
  <2>4. QED
    BY <1>0, <1>8, <1>10, <2>1, <2>2, <2>3 DEF EditHooks, InstallTypeOK, Settings, Entry
<1>11. CASE BreakSettings
  BY <1>0, <1>8, <1>11 DEF BreakSettings, InstallTypeOK
<1>12. CASE UNCHANGED installVars
  BY <1>0, <1>12 DEF installVars, InstallTypeOK
<1>13. QED
  BY <1>1, <1>2, <1>3, <1>4, <1>5, <1>6, <1>7, <1>9, <1>10, <1>11, <1>12 DEF InstallNext

\* Where a run is, and how far, fits together.
LEMMA PlansFitStep ==
    ASSUME InstallTypeOK, PlansFit, [InstallNext]_installVars
    PROVE  PlansFit'
<1> USE DEF InstallTypeOK, PlansFit
<1>1. ASSUME NEW r \in Run, RunStep(r) PROVE PlansFit'
  <2> DEFINE Fits(q) == /\ at'[q] = "idle" => plan'[q] = NoPlan
                        /\ at'[q] = "check" => plan'[q].next <= Len(Files)
                        /\ at'[q] \in {"merge", "confirm"} => plan'[q].next = 1
  <2>1. ASSUME NEW q \in Run \ {r} PROVE Fits(q)
    BY <1>1, OthersStay
  <2>2. Fits(r)
    <3>1. CASE Start(r)
      BY <3>1, FilesFit DEF Start, NoPlan
    <3>2. CASE Check(r)
      <4>1. plan[r].next \in Int
        BY DEF Plan
      <4>2. QED
        BY <3>2, <4>1, FilesFit DEF Check, End
    <3>3. CASE PlanSettings(r)
      BY <3>3 DEF PlanSettings, End
    <3>4. CASE Confirm(r)
      BY <3>4 DEF Confirm, End
    <3>5. CASE ApplyFile(r)
      BY <3>5 DEF ApplyFile
    <3>6. CASE ApplySettings(r) \/ Abandon(r)
      BY <3>6 DEF ApplySettings, Abandon, End
    <3>7. QED
      BY <1>1, <3>1, <3>2, <3>3, <3>4, <3>5, <3>6 DEF RunStep
  <2>3. QED
    BY <2>1, <2>2
<1>2. CASE PutFile \/ EditHooks \/ BreakSettings
  BY <1>2 DEF PutFile, EditHooks, BreakSettings, Edit
<1>3. CASE UNCHANGED installVars
  BY <1>3 DEF installVars
<1>4. QED
  BY <1>1, <1>2, <1>3 DEF InstallNext, RunStep

\* What a run was asked for does not change.
LEMMA AskedForLasts ==
    ASSUME InstallTypeOK, [InstallNext]_installVars
    PROVE  ask' = ask
<1>1. ASSUME NEW r \in Run, RunStep(r) PROVE ask' = ask
  BY <1>1, OthersStay
<1>2. CASE PutFile \/ EditHooks \/ BreakSettings
  BY <1>2 DEF PutFile, EditHooks, BreakSettings, Edit
<1>3. CASE UNCHANGED installVars
  BY <1>3 DEF installVars
<1>4. QED
  BY <1>1, <1>2, <1>3 DEF InstallNext, RunStep

\* What a step of a run does to the settings it has planned: they are the merge of
\* those it found, and stay what they are until they are written.
LEMMA PlanLasts ==
    ASSUME InstallTypeOK, NEW r \in Run, RunStep(r), Planned(r)'
    PROVE  \/ /\ PlanSettings(r) /\ plan'[r].merged = MergeAll(r)
              /\ settings' = settings
           \/ Planned(r) /\ plan'[r].merged = plan[r].merged
<1> USE DEF InstallTypeOK, Planned
<1>1. CASE Start(r) \/ Check(r)
  BY <1>1 DEF Start, Check, End
<1>2. CASE PlanSettings(r)
  <2> DEFINE changed == MergeAll(r) # settings
             settled == [next |-> 1, found |-> plan[r].found, writes |-> changed,
                         merged |-> IF changed THEN MergeAll(r) ELSE NoSettings]
  <2>1. ~(End(r, "over") \/ End(r, "done"))
    BY DEF End
  <2>2. plan' = [plan EXCEPT ![r] = settled] /\ settings' = settings
    BY <1>2, <2>1 DEF PlanSettings
  <2>3. settled.writes = changed /\ settled.merged = IF changed THEN MergeAll(r) ELSE NoSettings
    OBVIOUS
  <2> HIDE DEF settled, changed
  <2>4. plan'[r] = settled
    BY <2>2
  <2>5. changed
    BY <2>3, <2>4
  <2>6. QED
    BY <1>2, <2>2, <2>3, <2>4, <2>5
<1>3. CASE Confirm(r)
  BY <1>3 DEF Confirm, End
<1>4. CASE ApplyFile(r)
  BY <1>4 DEF ApplyFile, Plan
<1>5. CASE ApplySettings(r) \/ Abandon(r)
  BY <1>5 DEF ApplySettings, Abandon, End
<1>6. QED
  BY <1>1, <1>2, <1>3, <1>4, <1>5 DEF RunStep

\* A plan stays what it was asked to be.
LEMMA PlansAreAsAskedStep ==
    ASSUME InstallTypeOK, PlansAreAsAsked, [InstallNext]_installVars
    PROVE  PlansAreAsAsked'
<1>1. ASSUME NEW q \in Run, NEW hooks, EntriesAsAsked(q, hooks) PROVE EntriesAsAsked(q, hooks)'
  <2>1. Wants(q)' = Wants(q)
    BY AskedForLasts DEF Wants
  <2>2. QED
    BY <1>1, <2>1 DEF EntriesAsAsked
<1>2. ASSUME NEW r \in Run, RunStep(r), NEW q \in Run, Planned(q)'
      PROVE  EntriesAsAsked(q, plan'[q].merged)
  <2>1. CASE q # r
    BY <1>2, <2>1, OthersStay DEF PlansAreAsAsked, Planned
  <2>2. CASE q = r
    BY <1>2, <2>2, PlanLasts, MergeAllFits DEF PlansAreAsAsked
  <2>3. QED
    BY <2>1, <2>2
<1>3. ASSUME at' = at, plan' = plan, NEW q \in Run, Planned(q)'
      PROVE  EntriesAsAsked(q, plan'[q].merged)
  BY <1>3 DEF PlansAreAsAsked, Planned
<1>4. ASSUME NEW q \in Run, Planned(q)' PROVE EntriesAsAsked(q, plan'[q].merged)
  <2>1. CASE PutFile \/ EditHooks \/ BreakSettings
    BY <1>3, <1>4, <2>1 DEF PutFile, EditHooks, BreakSettings, Edit
  <2>2. CASE UNCHANGED installVars
    BY <1>3, <1>4, <2>2 DEF installVars
  <2>3. QED
    BY <1>2, <1>4, <2>1, <2>2 DEF InstallNext, RunStep
<1>5. QED
  <2> SUFFICES ASSUME NEW q \in Run, Planned(q)' PROVE EntriesAsAsked(q, plan[q].merged)'
    BY DEF PlansAreAsAsked
  <2>1. EntriesAsAsked(q, plan'[q].merged)
    BY <1>4
  <2>2. Wants(q)' = Wants(q)
    BY AskedForLasts DEF Wants
  <2>3. QED
    BY <2>1, <2>2 DEF EntriesAsAsked

\* The files a run has looked at, after a step of its own.
LEMMA CheckedGrows ==
    ASSUME InstallTypeOK, PlansFit, NEW r \in Run, RunStep(r), NEW f \in Checked(r)'
    PROVE  \/ f \in Checked(r)
           \/ /\ Check(r) /\ owned[f] # Foreign
              /\ owned[f] # Absent => f \in plan'[r].found
<1>1. PICK j \in 1 .. Len(Files) :
          /\ f = Files[j]
          /\ (at'[r] = "check" /\ j < plan'[r].next) \/ at'[r] \in {"merge", "confirm", "apply"}
  BY DEF Checked
<1>2. SUFFICES ASSUME ~((at[r] = "check" /\ j < plan[r].next) \/ at[r] \in {"merge", "confirm", "apply"})
               PROVE  Check(r) /\ owned[f] # Foreign /\ (owned[f] # Absent => f \in plan'[r].found)
  BY <1>1 DEF Checked
<1>3. CASE Start(r)
  <2>1. at'[r] = "check" /\ plan'[r].next = 1
    BY <1>3 DEF Start, InstallTypeOK, PlansFit, NoPlan
  <2>2. QED
    BY <1>1, <2>1
<1>4. CASE Check(r)
  <2> DEFINE i == plan[r].next
             found == plan[r].found \cup IF owned[Files[i]] = Absent THEN {} ELSE {Files[i]}
             Looked(next) == [next |-> next, found |-> found, writes |-> FALSE, merged |-> NoSettings]
  <2>1. /\ at[r] = "check" /\ owned[Files[i]] # Foreign
        /\ \/ i < Len(Files) /\ plan' = [plan EXCEPT ![r] = Looked(i + 1)] /\ at' = at
           \/ ~(i < Len(Files)) /\ plan' = [plan EXCEPT ![r] = Looked(1)]
    BY <1>1, <1>4 DEF Check, End, InstallTypeOK
  <2>2. i \in 1 .. Len(Files)
    BY <2>1 DEF InstallTypeOK, PlansFit, Plan
  <2>3. \A n : Looked(n).next = n /\ Looked(n).found = found
    OBVIOUS
  <2> HIDE DEF Looked, found
  <2>4. /\ plan'[r].found = found
        /\ (i < Len(Files) /\ plan'[r].next = i + 1 /\ at'[r] = "check") \/ i = Len(Files)
    BY <2>1, <2>2, <2>3, FilesFit DEF InstallTypeOK
  <2>5. j = i
    BY <1>1, <1>2, <2>1, <2>2, <2>4, FilesFit
  <2>6. QED
    BY <1>1, <1>4, <2>1, <2>4, <2>5 DEF found
<1>5. CASE PlanSettings(r) \/ Confirm(r) \/ ApplyFile(r) \/ ApplySettings(r) \/ Abandon(r)
  BY <1>1, <1>2, <1>5 DEF PlanSettings, Confirm, ApplyFile, ApplySettings, Abandon, End, InstallTypeOK
<1>6. QED
  BY <1>3, <1>4, <1>5 DEF RunStep

\* A run that applies has looked at all its files.
LEMMA AllChecked ==
    ASSUME NEW r \in Run, at[r] \in {"merge", "confirm", "apply"}
    PROVE  Checked(r) = File
BY DEF Checked, File

\* What a step of a run writes: the file it comes to, its own or none, or the settings
\* it planned; and who is disturbed by it.
LEMMA WhatIsWritten ==
    ASSUME InstallTypeOK, NEW r \in Run, RunStep(r)
    PROVE  \/ UNCHANGED <<owned, settings, broken, quiet>>
           \/ /\ ApplyFile(r) /\ at[r] = "apply" /\ plan[r].next \in 1 .. Len(Files)
              /\ owned' = [owned EXCEPT ![Files[plan[r].next]] = Target(r)]
              /\ UNCHANGED <<settings, broken>> /\ Disturb(r)
           \/ /\ ApplySettings(r) /\ Planned(r)
              /\ settings' = plan[r].merged /\ broken' = FALSE
              /\ UNCHANGED owned /\ Disturb(r)
<1> USE DEF InstallTypeOK
<1>1. CASE Start(r) \/ Check(r) \/ PlanSettings(r) \/ Confirm(r) \/ Abandon(r)
  BY <1>1 DEF Start, Check, PlanSettings, Confirm, Abandon
<1>2. CASE ApplyFile(r)
  <2>1. plan[r].next \in 1 .. Len(Files)
    BY <1>2, FilesFit DEF ApplyFile, Plan
  <2>2. QED
    BY <1>2, <2>1 DEF ApplyFile, Target
<1>3. CASE ApplySettings(r)
  BY <1>3 DEF ApplySettings, Planned
<1>4. QED
  BY <1>1, <1>2, <1>3 DEF RunStep

\* Plans spare what is the user's, unless he edits while they are made.
LEMMA SparingStep ==
    ASSUME InstallTypeOK, PlansFit, PlansSpareHisOwn, UserKeepsHisOwn, ~EditsMeanwhile,
           [InstallNext]_installVars
    PROVE  PlansSpareHisOwn'
<1> DEFINE Spares(q) == /\ Checked(q)' \cap foreign' = {}
                        /\ Planned(q)' => \A e \in Event : OwnEntries(plan'[q].merged[e]) = own'[e]
<1>1. ASSUME NEW r \in Run, RunStep(r), NEW q \in Run PROVE Spares(q)
  <2>1. own' = own /\ foreign' = foreign
    BY <1>1, OthersStay
  <2>2. CASE q # r
    <3>1. at'[q] = at[q] /\ plan'[q] = plan[q]
      BY <1>1, <2>2, OthersStay
    <3>2. Checked(q)' = Checked(q) /\ (Planned(q)' => Planned(q))
      BY <3>1 DEF Checked, Planned
    <3>3. QED
      BY <2>1, <3>1, <3>2 DEF PlansSpareHisOwn
  <2>3. CASE q = r
    <3>1. ASSUME NEW f \in Checked(r)' PROVE f \notin foreign
      <4>1. f \in Checked(r) \/ owned[f] # Foreign
        BY <1>1, <3>1, CheckedGrows
      <4>2. QED
        BY <4>1 DEF PlansSpareHisOwn, UserKeepsHisOwn
    <3>2. ASSUME Planned(r)', NEW e \in Event PROVE OwnEntries(plan'[r].merged[e]) = own[e]
      <4>1. CASE plan'[r].merged = MergeAll(r)
        BY <4>1, MergeAllFits DEF UserKeepsHisOwn
      <4>2. CASE Planned(r) /\ plan'[r].merged = plan[r].merged
        BY <4>2 DEF PlansSpareHisOwn
      <4>3. QED
        BY <1>1, <3>2, <4>1, <4>2, PlanLasts
    <3>3. QED
      BY <2>1, <2>3, <3>1, <3>2
  <2>4. QED
    BY <2>2, <2>3
<1>2. ASSUME Edit, NEW q \in Run PROVE Spares(q)
  <2>1. at[q] \notin {"check", "merge", "confirm", "apply"} /\ at' = at
    BY <1>2 DEF Edit, UnderWay
  <2>2. Checked(q)' = {} /\ ~Planned(q)'
    BY <2>1 DEF Checked, Planned
  <2>3. QED
    BY <2>2
<1>3. CASE UNCHANGED installVars
  BY <1>3 DEF installVars, userVars, PlansSpareHisOwn, Checked, Planned
<1>4. CASE \E r \in Run : RunStep(r)
  BY <1>1, <1>4 DEF PlansSpareHisOwn
<1>5. CASE Edit
  BY <1>2, <1>5 DEF PlansSpareHisOwn
<1>6. QED
  BY <1>3, <1>4, <1>5 DEF InstallNext, RunStep, PutFile, EditHooks, BreakSettings

\* So runs leave him what is his.
LEMMA KeepingStep ==
    ASSUME InstallTypeOK, PlansSpareHisOwn, UserKeepsHisOwn, [InstallNext]_installVars
    PROVE  UserKeepsHisOwn'
<1> USE DEF UserKeepsHisOwn
<1>1. ASSUME NEW r \in Run, RunStep(r) PROVE UserKeepsHisOwn'
  <2>1. own' = own /\ foreign' = foreign
    BY <1>1, OthersStay
  <2>2. CASE UNCHANGED <<owned, settings, broken, quiet>>
    BY <2>1, <2>2
  <2>3. CASE /\ at[r] = "apply" /\ plan[r].next \in 1 .. Len(Files)
             /\ owned' = [owned EXCEPT ![Files[plan[r].next]] = Target(r)]
             /\ settings' = settings
    <3> DEFINE f == Files[plan[r].next]
    <3>1. f \in File /\ f \notin foreign
      BY <2>3, FilesFit, AllChecked DEF PlansSpareHisOwn
    <3>2. Target(r) # Foreign /\ owned \in [File -> Contents]
      BY TargetsFit DEF InstallTypeOK
    <3> HIDE DEF f
    <3>3. \A g \in File : owned'[g] = Foreign <=> owned[g] = Foreign
      <4>1. owned[f] # Foreign /\ owned'[f] = Target(r)
        BY <2>3, <3>1, <3>2 DEF f
      <4>2. \A g \in File \ {f} : owned'[g] = owned[g]
        BY <2>3, <3>2 DEF f
      <4>3. QED
        BY <3>2, <4>1, <4>2
    <3>4. {g \in File : owned'[g] = Foreign} = {g \in File : owned[g] = Foreign}
      BY <3>3
    <3>5. QED
      BY <2>1, <2>3, <3>4
  <2>4. CASE Planned(r) /\ settings' = plan[r].merged /\ owned' = owned
    BY <2>1, <2>4 DEF PlansSpareHisOwn
  <2>5. QED
    BY <1>1, <2>2, <2>3, <2>4, WhatIsWritten
<1>2. CASE PutFile
  <2>1. PICK f \in File : \E c \in {Absent, Foreign} :
           /\ owned' = [owned EXCEPT ![f] = c]
           /\ foreign' = IF c = Foreign THEN foreign \cup {f} ELSE foreign \ {f}
    BY <1>2 DEF PutFile
  <2>2. PICK c \in {Absent, Foreign} :
           /\ owned' = [owned EXCEPT ![f] = c]
           /\ foreign' = IF c = Foreign THEN foreign \cup {f} ELSE foreign \ {f}
    BY <2>1
  <2>3. owned'[f] = c /\ \A g \in File \ {f} : owned'[g] = owned[g]
    BY <2>2 DEF InstallTypeOK
  <2>4. foreign \subseteq File /\ Absent # Foreign
    BY DEF InstallTypeOK, Absent, Foreign
  <2>5. {g \in File : owned'[g] = Foreign} = foreign'
    BY <2>2, <2>3, <2>4
  <2>6. QED
    BY <1>2, <2>5 DEF PutFile
<1>3. CASE EditHooks
  <2>1. PICK e \in Event : \E q \in Edited(settings[e]) :
            settings' = [settings EXCEPT ![e] = q] /\ own' = [own EXCEPT ![e] = OwnEntries(q)]
    BY <1>3 DEF EditHooks
  <2>2. PICK q \in Edited(settings[e]) :
            settings' = [settings EXCEPT ![e] = q] /\ own' = [own EXCEPT ![e] = OwnEntries(q)]
    BY <2>1
  <2>3. \A d \in Event : OwnEntries(settings'[d]) = own'[d]
    BY <2>2 DEF InstallTypeOK, Settings
  <2>4. QED
    BY <1>3, <2>3 DEF EditHooks
<1>4. CASE BreakSettings
  BY <1>4 DEF BreakSettings
<1>5. CASE UNCHANGED installVars
  BY <1>5 DEF installVars, userVars
<1>6. QED
  BY <1>1, <1>2, <1>3, <1>4, <1>5 DEF InstallNext, RunStep

\* The parts of what a run has done of what it was asked for: it is about to leave, or
\* to write, the right settings; and every file it will not touch, or has, is right.
SettingsFit(q) ==
    at[q] \in {"confirm", "apply"} => ~broken /\ (plan[q].writes \/ EntriesAsAsked(q, settings))
FilesLeftFit(q) == ask[q].remove => \A f \in Checked(q) \ plan[q].found : owned[f] = Absent
FilesDoneFit(q) == at[q] = "apply" => \A i \in 1 .. plan[q].next - 1 : owned[Files[i]] = Target(q)

LEMMA HalfDoneParts ==
    HalfDone <=> \A q \in Run : quiet[q] => SettingsFit(q) /\ FilesLeftFit(q) /\ FilesDoneFit(q)
BY DEF HalfDone, SettingsFit, FilesLeftFit, FilesDoneFit

\* The step of one run does not undo another one's, unless it disturbs it.
LEMMA OthersHalfDone ==
    ASSUME InstallTypeOK, PlansAreAsAsked, HalfDone, DoneIsDone,
           NEW r \in Run, RunStep(r), NEW q \in Run \ {r}, quiet'[q]
    PROVE  /\ SettingsFit(q)' /\ FilesLeftFit(q)' /\ FilesDoneFit(q)'
           /\ at'[q] = "done" => AsAsked(q)'
<1>1. at'[q] = at[q] /\ plan'[q] = plan[q] /\ ask' = ask
  BY OthersStay
<1>2. Checked(q)' = Checked(q) /\ Target(q)' = Target(q) /\ Wants(q)' = Wants(q)
  BY <1>1 DEF Checked, Target, Wants
<1>3. ASSUME UNCHANGED <<owned, settings, broken, quiet>>
      PROVE  /\ SettingsFit(q)' /\ FilesLeftFit(q)' /\ FilesDoneFit(q)'
             /\ at'[q] = "done" => AsAsked(q)'
  <2>1. SettingsFit(q) /\ FilesLeftFit(q) /\ FilesDoneFit(q) /\ (at[q] = "done" => AsAsked(q))
    BY <1>3, HalfDoneParts DEF DoneIsDone
  <2>2. EntriesAsAsked(q, settings)' <=> EntriesAsAsked(q, settings)
    BY <1>2, <1>3 DEF EntriesAsAsked
  <2>3. QED
    BY <1>1, <1>2, <1>3, <2>1, <2>2 DEF SettingsFit, FilesLeftFit, FilesDoneFit, AsAsked
<1>4. ASSUME Disturb(r)
      PROVE  /\ at[q] = "idle" \/ (Target(q) = Target(r) /\ Wants(q) = Wants(r) /\ ask[q] = ask[r])
             /\ SettingsFit(q) /\ FilesLeftFit(q) /\ FilesDoneFit(q) /\ (at[q] = "done" => AsAsked(q))
  <2>1. quiet[q] /\ (at[q] = "idle" \/ ask[q] = ask[r])
    BY <1>4 DEF Disturb
  <2>2. QED
    BY <2>1, HalfDoneParts DEF DoneIsDone, Target, Wants
<1>5. ASSUME at[q] = "idle"
      PROVE  /\ SettingsFit(q)' /\ FilesLeftFit(q)' /\ FilesDoneFit(q)'
             /\ at'[q] = "done" => AsAsked(q)'
  BY <1>1, <1>5 DEF SettingsFit, FilesLeftFit, FilesDoneFit, Checked
<1>6. ASSUME Disturb(r), at[q] # "idle", plan[r].next \in 1 .. Len(Files),
             owned' = [owned EXCEPT ![Files[plan[r].next]] = Target(r)],
             UNCHANGED <<settings, broken>>
      PROVE  /\ SettingsFit(q)' /\ FilesLeftFit(q)' /\ FilesDoneFit(q)'
             /\ at'[q] = "done" => AsAsked(q)'
  <2> DEFINE g == Files[plan[r].next]
  <2>1. /\ owned'[g] = Target(q) /\ \A f \in File \ {g} : owned'[f] = owned[f]
        /\ g \in File
    BY <1>4, <1>6, FilesFit DEF InstallTypeOK
  <2> HIDE DEF g
  <2>2. EntriesAsAsked(q, settings)' <=> EntriesAsAsked(q, settings)
    BY <1>2, <1>6 DEF EntriesAsAsked
  <2>3. SettingsFit(q)'
    BY <1>1, <1>4, <1>6, <2>2 DEF SettingsFit
  <2>4. FilesLeftFit(q)'
    <3>1. Checked(q) \subseteq File
      BY FilesFit DEF Checked
    <3>2. ask[q].remove => Target(q) = Absent
      BY DEF Target
    <3>3. QED
      BY <1>1, <1>2, <1>4, <1>6, <2>1, <3>1, <3>2 DEF FilesLeftFit
  <2>5. FilesDoneFit(q)'
    <3>1. ASSUME at[q] = "apply", NEW i \in 1 .. plan[q].next - 1 PROVE owned'[Files[i]] = Target(q)
      <4>1. owned[Files[i]] = Target(q)
        BY <1>4, <1>6, <3>1 DEF FilesDoneFit
      <4>2. Files[i] \in File
        <5>1. plan[q].next \in 1 .. Len(Files) + 1
          BY DEF InstallTypeOK, Plan
        <5>2. QED
          BY <5>1, FilesFit
      <4>3. QED
        BY <2>1, <4>1, <4>2
    <3>2. QED
      BY <1>1, <1>2, <3>1 DEF FilesDoneFit
  <2>6. at'[q] = "done" => AsAsked(q)'
    BY <1>1, <1>2, <1>4, <1>6, <2>1, <2>2 DEF AsAsked
  <2>7. QED
    BY <2>3, <2>4, <2>5, <2>6
<1>7. ASSUME Disturb(r), at[q] # "idle", Planned(r), settings' = plan[r].merged, broken' = FALSE, owned' = owned
      PROVE  /\ SettingsFit(q)' /\ FilesLeftFit(q)' /\ FilesDoneFit(q)'
             /\ at'[q] = "done" => AsAsked(q)'
  <2>1. EntriesAsAsked(r, plan[r].merged) /\ Wants(q) = Wants(r)
    BY <1>4, <1>7 DEF PlansAreAsAsked
  <2>2. EntriesAsAsked(q, settings)'
    BY <1>2, <1>7, <2>1 DEF EntriesAsAsked
  <2>3. SettingsFit(q)'
    BY <1>7, <2>2 DEF SettingsFit
  <2>4. FilesLeftFit(q)' /\ FilesDoneFit(q)'
    BY <1>1, <1>2, <1>4, <1>7 DEF FilesLeftFit, FilesDoneFit
  <2>5. at'[q] = "done" => AsAsked(q)'
    BY <1>1, <1>2, <1>4, <1>7, <2>2 DEF AsAsked
  <2>6. QED
    BY <2>3, <2>4, <2>5
<1>8. QED
  BY <1>3, <1>4, <1>5, <1>6, <1>7, WhatIsWritten

\* Its own step takes it further.
LEMMA OwnHalfDone ==
    ASSUME InstallTypeOK, PlansFit, PlansAreAsAsked, HalfDone, NEW r \in Run, RunStep(r), quiet'[r]
    PROVE  /\ SettingsFit(r)' /\ FilesLeftFit(r)' /\ FilesDoneFit(r)'
           /\ at[r] # "done" /\ at'[r] = "done" => AsAsked(r)'
<1>1. ask' = ask /\ Target(r)' = Target(r) /\ Wants(r)' = Wants(r)
  BY OthersStay DEF Target, Wants
<1>2. quiet[r]
  BY WhatIsWritten DEF Disturb, InstallTypeOK
<1>3. SettingsFit(r) /\ FilesLeftFit(r) /\ FilesDoneFit(r)
  BY <1>2, HalfDoneParts
<1>4. plan[r].next \in 1 .. Len(Files) + 1 /\ plan[r].next \in Int
  BY FilesFit DEF InstallTypeOK, Plan
<1>5. ASSUME NEW s, EntriesAsAsked(r, s), settings' = s PROVE EntriesAsAsked(r, settings)'
  BY <1>1, <1>5 DEF EntriesAsAsked
\* The files left alone: looked at now, or before.
<1>6. ASSUME owned' = owned, Start(r) \/ Check(r) PROVE FilesLeftFit(r)'
  <2> SUFFICES ASSUME ask[r].remove, NEW f \in Checked(r)', f \notin plan'[r].found
               PROVE  owned[f] = Absent
    BY <1>1, <1>6 DEF FilesLeftFit
  <2>1. f \in Checked(r) \/ owned[f] = Absent
    BY CheckedGrows
  <2>2. CASE f \in Checked(r)
    <3>1. at[r] = "check" /\ Check(r)
      <4>1. at[r] # "idle"
        BY <2>2 DEF Checked
      <4>2. ~Start(r)
        BY <4>1 DEF Start
      <4>3. Check(r) => at[r] = "check"
        BY DEF Check
      <4>4. QED
        BY <1>6, <4>2, <4>3
    <3>2. ~End(r, "over")
      BY DEF End, Checked, InstallTypeOK
    <3>3. plan[r].found \subseteq plan'[r].found
      <4> DEFINE i == plan[r].next
                 found == plan[r].found \cup IF owned[Files[i]] = Absent THEN {} ELSE {Files[i]}
                 Looked(next) == [next |-> next, found |-> found, writes |-> FALSE, merged |-> NoSettings]
      <4>1. plan' = [plan EXCEPT ![r] = Looked(i + 1)] \/ plan' = [plan EXCEPT ![r] = Looked(1)]
        BY <3>1, <3>2 DEF Check
      <4>2. \A n : Looked(n).found = found
        OBVIOUS
      <4> HIDE DEF Looked
      <4>3. plan'[r].found = found
        BY <4>1, <4>2 DEF InstallTypeOK
      <4>4. QED
        BY <4>3
    <3>4. QED
      BY <1>3, <2>2, <3>3 DEF FilesLeftFit
  <2>3. QED
    BY <2>1, <2>2
<1>7. CASE Start(r) \/ Check(r)
  <2>1. owned' = owned /\ at'[r] \in {"check", "merge", "over"}
    BY <1>7 DEF Start, Check, End, InstallTypeOK
  <2>2. QED
    BY <1>6, <1>7, <2>1 DEF SettingsFit, FilesDoneFit
<1>8. CASE PlanSettings(r)
  <2>1. at[r] = "merge" /\ UNCHANGED <<owned, settings, broken>>
    BY <1>8 DEF PlanSettings
  <2> DEFINE changed == MergeAll(r) # settings
             settled == [next |-> 1, found |-> plan[r].found, writes |-> changed,
                         merged |-> IF changed THEN MergeAll(r) ELSE NoSettings]
             empty == ask[r].remove /\ plan[r].found = {} /\ ~changed
  <2>2. \/ End(r, "over") \/ (~broken /\ empty /\ End(r, "done"))
        \/ /\ ~broken /\ plan' = [plan EXCEPT ![r] = settled] /\ at' = [at EXCEPT ![r] = "confirm"]
    BY <1>8 DEF PlanSettings
  <2>3. settled.writes = changed /\ settled.found = plan[r].found
    OBVIOUS
  <2>4. EntriesAsAsked(r, MergeAll(r))
    BY MergeAllFits
  <2>5. ~changed => EntriesAsAsked(r, settings)'
    BY <1>5, <2>1, <2>4
  <2>6. Checked(r) = File
    BY <2>1, AllChecked
  <2>7. CASE End(r, "over")
    <3>1. at'[r] = "over"
      BY <2>7 DEF End, InstallTypeOK
    <3>2. QED
      BY <3>1 DEF SettingsFit, FilesLeftFit, FilesDoneFit, Checked
  <2>8. CASE ~broken /\ empty /\ End(r, "done")
    <3>1. at'[r] = "done"
      BY <2>8 DEF End, InstallTypeOK
    <3>2. \A f \in File : owned[f] = Absent
      BY <1>3, <2>6, <2>8 DEF FilesLeftFit
    <3>3. Target(r) = Absent
      BY <2>8 DEF Target
    <3>4. AsAsked(r)'
      BY <1>1, <2>1, <2>5, <2>8, <3>2, <3>3 DEF AsAsked
    <3>5. QED
      BY <3>1, <3>4 DEF SettingsFit, FilesLeftFit, FilesDoneFit, Checked
  <2>9. CASE ~broken /\ plan' = [plan EXCEPT ![r] = settled] /\ at' = [at EXCEPT ![r] = "confirm"]
    <3> HIDE DEF settled, changed
    <3>1. at'[r] = "confirm" /\ plan'[r] = settled
      BY <2>9 DEF InstallTypeOK
    <3>2. SettingsFit(r)'
      <4>1. changed \/ ~changed
        BY DEF changed
      <4>2. QED
        BY <2>1, <2>3, <2>5, <2>9, <3>1, <4>1 DEF SettingsFit
    <3>3. FilesLeftFit(r)'
      <4>1. Checked(r)' \subseteq File
        BY FilesFit DEF Checked
      <4>2. QED
        BY <1>1, <1>3, <2>1, <2>3, <2>6, <3>1, <4>1 DEF FilesLeftFit
    <3>4. QED
      BY <3>1, <3>2, <3>3 DEF FilesDoneFit
  <2>10. QED
    BY <2>2, <2>7, <2>8, <2>9
<1>9. CASE Confirm(r)
  <2>1. at[r] = "confirm" /\ UNCHANGED <<owned, settings, broken>> /\ plan[r].next = 1
    BY <1>9 DEF Confirm, PlansFit
  <2>2. at'[r] = "over" \/ (at'[r] = "apply" /\ plan' = plan)
    BY <1>9 DEF Confirm, End, InstallTypeOK
  <2>3. EntriesAsAsked(r, settings) => EntriesAsAsked(r, settings)'
    BY <1>5, <2>1
  <2>4. SettingsFit(r)'
    BY <1>3, <2>1, <2>2, <2>3 DEF SettingsFit
  <2>5. FilesLeftFit(r)'
    BY <1>1, <1>3, <2>1, <2>2 DEF FilesLeftFit, Checked
  <2>6. FilesDoneFit(r)'
    BY <2>1, <2>2 DEF FilesDoneFit
  <2>7. QED
    BY <2>2, <2>4, <2>5, <2>6
<1>10. CASE ApplyFile(r)
  <2> DEFINE n == plan[r].next
             g == Files[n]
  <2>1. /\ at[r] = "apply" /\ at' = at /\ n \in 1 .. Len(Files)
        /\ UNCHANGED <<settings, broken>>
        /\ plan' = [plan EXCEPT ![r].next = n + 1]
    BY <1>4, <1>10, FilesFit DEF ApplyFile
  <2>2. plan'[r].next = n + 1 /\ plan'[r].found = plan[r].found /\ plan'[r].writes = plan[r].writes
    BY <2>1 DEF InstallTypeOK, Plan
  <2>3. Checked(r) = File /\ Checked(r)' = File /\ g \in File
    BY <2>1, AllChecked, FilesFit DEF Checked, File
  <2>4. owned'[g] = Target(r) /\ \A f \in File \ {g} : owned'[f] = owned[f]
    <3>1. CASE ~ask[r].remove \/ g \in plan[r].found
      <4>1. owned' = [owned EXCEPT ![g] = Target(r)]
        BY <1>10, <3>1 DEF ApplyFile, Target
      <4>2. QED
        BY <2>3, <4>1 DEF InstallTypeOK
    <3>2. CASE ~(~ask[r].remove \/ g \in plan[r].found)
      <4>1. owned' = owned
        BY <1>10, <3>2 DEF ApplyFile
      <4>2. owned[g] = Absent /\ Target(r) = Absent
        BY <1>3, <2>3, <3>2 DEF FilesLeftFit, Target
      <4>3. QED
        BY <4>1, <4>2
    <3>3. QED
      BY <3>1, <3>2
  <2>5. EntriesAsAsked(r, settings) => EntriesAsAsked(r, settings)'
    BY <1>5, <2>1
  <2>6. SettingsFit(r)'
    BY <1>3, <2>1, <2>2, <2>5 DEF SettingsFit
  <2> HIDE DEF g
  <2>7. FilesLeftFit(r)'
    <3>1. ask[r].remove => Target(r) = Absent
      BY DEF Target
    <3>2. QED
      BY <1>1, <1>3, <2>2, <2>3, <2>4, <3>1 DEF FilesLeftFit
  <2>8. FilesDoneFit(r)'
    <3>1. ASSUME NEW i \in 1 .. n + 1 - 1 PROVE owned'[Files[i]] = Target(r)
      <4>1. i = n \/ i \in 1 .. n - 1
        BY <1>4
      <4>2. i \in 1 .. Len(Files) /\ Files[i] \in File
        BY <2>1, <4>1, FilesFit
      <4>3. i \in 1 .. n - 1 => owned[Files[i]] = Target(r)
        BY <1>3, <2>1 DEF FilesDoneFit
      <4>4. QED
        BY <2>4, <4>1, <4>2, <4>3 DEF g
    <3>2. \A i \in 1 .. plan'[r].next - 1 : owned'[Files[i]] = Target(r)
      BY <1>4, <2>2, <3>1
    <3>3. QED
      BY <1>1, <3>2 DEF FilesDoneFit
  <2>9. QED
    BY <2>1, <2>6, <2>7, <2>8
<1>11. CASE ApplySettings(r)
  <2>1. /\ at[r] = "apply" /\ plan[r].next > Len(Files) /\ End(r, "done") /\ owned' = owned
        /\ \/ plan[r].writes /\ settings' = plan[r].merged /\ broken' = FALSE
           \/ ~plan[r].writes /\ UNCHANGED <<settings, broken>>
    BY <1>11 DEF ApplySettings
  <2>2. at'[r] = "done"
    BY <2>1 DEF End, InstallTypeOK
  <2>3. \A f \in File : owned'[f] = Target(r)
    <3>1. \A i \in 1 .. Len(Files) : i \in 1 .. plan[r].next - 1
      BY <1>4, <2>1, FilesFit
    <3>2. \A i \in 1 .. Len(Files) : owned[Files[i]] = Target(r)
      BY <1>3, <2>1, <3>1 DEF FilesDoneFit
    <3>3. QED
      BY <2>1, <3>2, FilesFit
  <2>4. EntriesAsAsked(r, settings)' /\ ~broken'
    <3>1. CASE plan[r].writes /\ settings' = plan[r].merged /\ broken' = FALSE
      <4>1. EntriesAsAsked(r, plan[r].merged)
        BY <2>1, <3>1 DEF PlansAreAsAsked, Planned
      <4>2. QED
        BY <1>5, <3>1, <4>1
    <3>2. CASE ~plan[r].writes /\ UNCHANGED <<settings, broken>>
      <4>1. EntriesAsAsked(r, settings) /\ ~broken
        BY <1>3, <2>1, <3>2 DEF SettingsFit
      <4>2. QED
        BY <1>5, <3>2, <4>1
    <3>3. QED
      BY <2>1, <3>1, <3>2
  <2>5. AsAsked(r)'
    BY <1>1, <2>3, <2>4 DEF AsAsked
  <2>6. QED
    BY <2>2, <2>5 DEF SettingsFit, FilesLeftFit, FilesDoneFit, Checked
<1>12. CASE Abandon(r)
  <2>1. at'[r] = "over"
    BY <1>12 DEF Abandon, End, InstallTypeOK
  <2>2. QED
    BY <2>1 DEF SettingsFit, FilesLeftFit, FilesDoneFit, Checked
<1>13. QED
  BY <1>7, <1>8, <1>9, <1>10, <1>11, <1>12 DEF RunStep

\* What is done stays done, and half done, until somebody who wants something else
\* writes.
LEMMA DoneStep ==
    ASSUME InstallTypeOK, PlansFit, PlansAreAsAsked, HalfDone, DoneIsDone, [InstallNext]_installVars
    PROVE  HalfDone' /\ DoneIsDone'
<1> DEFINE Goal(q) == /\ SettingsFit(q)' /\ FilesLeftFit(q)' /\ FilesDoneFit(q)'
                      /\ at'[q] = "done" => AsAsked(q)'
<1>1. SUFFICES ASSUME NEW q \in Run, quiet'[q] PROVE Goal(q)
  BY HalfDoneParts DEF DoneIsDone, HalfDone, SettingsFit, FilesLeftFit, FilesDoneFit
<1>2. ASSUME NEW r \in Run, RunStep(r) PROVE Goal(q)
  <2>1. CASE q # r
    BY <1>1, <1>2, <2>1, OthersHalfDone
  <2>2. CASE q = r
    <3>1. at[r] # "done"
      BY <1>2 DEF RunStep, Start, Check, PlanSettings, Confirm, ApplyFile, ApplySettings, Abandon
    <3>2. QED
      BY <1>1, <1>2, <2>2, <3>1, OwnHalfDone
  <2>3. QED
    BY <2>1, <2>2
<1>3. CASE Edit
  <2>1. at'[q] = "idle"
    BY <1>1, <1>3 DEF Edit
  <2>2. QED
    BY <2>1 DEF SettingsFit, FilesLeftFit, FilesDoneFit, Checked
<1>4. CASE UNCHANGED installVars
  <2>1. SettingsFit(q) /\ FilesLeftFit(q) /\ FilesDoneFit(q) /\ (at[q] = "done" => AsAsked(q))
    BY <1>1, <1>4, HalfDoneParts DEF DoneIsDone, installVars
  <2>2. Checked(q)' = Checked(q) /\ Target(q)' = Target(q) /\ Wants(q)' = Wants(q)
    BY <1>4 DEF installVars, Checked, Target, Wants
  <2>3. EntriesAsAsked(q, settings)' <=> EntriesAsAsked(q, settings)
    BY <1>4, <2>2 DEF installVars, EntriesAsAsked
  <2>4. QED
    BY <1>4, <2>1, <2>2, <2>3 DEF installVars, SettingsFit, FilesLeftFit, FilesDoneFit, AsAsked
<1>5. QED
  BY <1>2, <1>3, <1>4 DEF InstallNext, RunStep, PutFile, EditHooks, BreakSettings

\* The invariant holds throughout.
THEOREM InstallInvariance == InstallSpec => []InstallInv
<1>1. InstallInit => InstallInv
  <2> SUFFICES ASSUME InstallInit PROVE InstallInv
    OBVIOUS
  <2>1. at = [r \in Run |-> "idle"] /\ plan = [r \in Run |-> NoPlan] /\ foreign = {}
    BY DEF InstallInit
  <2>2. \A e \in Event : settings[e] = <<>> \/ \E o \in Own : settings[e] = <<o>>
    BY DEF InstallInit
  <2>3. ASSUME NEW e \in Event
        PROVE  settings[e] \in Seq(Own) /\ settings[e] \in Seq(Entry) /\ OwnEntries(settings[e]) = settings[e]
    <3>1. settings[e] \in Seq(Own) /\ settings[e] \in Seq(Entry)
      <4>1. CASE settings[e] = <<>>
        BY <4>1
      <4>2. ASSUME NEW o \in Own, settings[e] = <<o>>
            PROVE  settings[e] \in Seq(Own) /\ settings[e] \in Seq(Entry)
        <5>1. o \in Entry
          BY DEF Entry
        <5>2. QED
          BY <4>2, <5>1
      <4>3. QED
        BY <2>2, <4>1, <4>2
    <3>2. QED
      BY <3>1, ThoseAll DEF OwnEntries
  <2>4. InstallTypeOK
    <3>1. NoPlan \in Plan
      <4>1. NoSettings \in Settings /\ 1 \in 1 .. Len(Files) + 1
        BY FilesFit DEF NoSettings, Settings
      <4>2. QED
        BY <4>1 DEF NoPlan, Plan
    <3>2. settings \in Settings /\ own \in [Event -> Seq(Own)]
      BY <2>3 DEF InstallInit, Settings, Entry
    <3>3. QED
      <4>1. owned \in [File -> Contents] /\ 0 \in 0 .. MaxEdits
        BY BoundAssumption DEF InstallInit, Contents
      <4>2. QED
        BY <3>1, <3>2, <4>1 DEF InstallInit, InstallTypeOK
  <2>5. PlansFit
    BY <2>1 DEF PlansFit
  <2>6. ASSUME NEW r \in Run PROVE Checked(r) = {} /\ ~Planned(r)
    BY <2>1 DEF Checked, Planned
  <2>7. PlansAreAsAsked /\ PlansSpareHisOwn
    BY <2>6 DEF PlansAreAsAsked, PlansSpareHisOwn
  <2>8. HalfDone /\ DoneIsDone
    BY <2>1, <2>6 DEF HalfDone, DoneIsDone
  <2>9. UserKeepsHisOwn
    BY <2>3 DEF UserKeepsHisOwn, InstallInit, Absent, Foreign
  <2>10. QED
    BY <2>4, <2>5, <2>7, <2>8, <2>9 DEF InstallInv
<1>2. InstallInv /\ [InstallNext]_installVars => InstallInv'
  <2> SUFFICES ASSUME InstallInv, [InstallNext]_installVars PROVE InstallInv'
    OBVIOUS
  <2>1. InstallTypeOK' /\ PlansFit' /\ PlansAreAsAsked' /\ HalfDone' /\ DoneIsDone'
    BY InstallTypeStep, PlansFitStep, PlansAreAsAskedStep, DoneStep DEF InstallInv
  <2>2. ~EditsMeanwhile => PlansSpareHisOwn' /\ UserKeepsHisOwn'
    BY SparingStep, KeepingStep DEF InstallInv
  <2>3. QED
    BY <2>1, <2>2 DEF InstallInv
<1>3. QED
  BY <1>1, <1>2, PTL DEF InstallSpec

\* Whatever runs do beside each other, the user's own files and entries stay as he left
\* them, if he does not edit them while a run is under way: for any files, events,
\* versions, runs and edits in between.
THEOREM UsersOwnIsKept == ASSUME ~EditsMeanwhile PROVE InstallSpec => []UserKeepsHisOwn
<1>1. InstallInv => UserKeepsHisOwn
  BY DEF InstallInv
<1>2. QED
  BY <1>1, InstallInvariance, PTL

\* A run that says it is done has done all it was asked for, if nobody who wants
\* something else wrote since it began: whether the user edits under it or not.
THEOREM DoneMeansDone == InstallSpec => []DoneIsDone
<1>1. InstallInv => DoneIsDone
  BY DEF InstallInv
<1>2. QED
  BY <1>1, InstallInvariance, PTL

=============================================================================
