-------------------------- MODULE RedactionProofs ---------------------------
(***************************************************************************)
(* Proofs about Redactor, for any patterns and any content: which spans    *)
(* are redacted, and that the rebuilt content shows each span by its mark  *)
(* and every other byte as it was (TagsExactly, EndsExactly,               *)
(* RevealIsExact).                                                         *)
(*                                                                         *)
(* The recursive functions of the model are reasoned about by induction on *)
(* their argument: Inductive turns a fact about 0 and about each step into *)
(* one about all of 0 .. n, and LoopExists names the values of a loop.     *)
(***************************************************************************)
EXTENDS Redactor, NaturalsInduction, WellFoundedInduction, TLAPS

-----------------------------------------------------------------------------
(* Induction, and the loops of the model.                                     *)

\* A nonempty set of naturals has a least element.
LEMMA Least ==
  ASSUME NEW T, T \subseteq Nat, T # {}
  PROVE  \E x \in T : \A y \in T : x <= y
<1> DEFINE R == OpToRel(<, Nat)
<1>1. IsWellFoundedOn(R, Nat)
  BY Zenon, NatLessThanWellFounded
<1>2. \A x, y \in Nat : x < y => <<x, y>> \in R
  BY Zenon DEF OpToRel
<1> HIDE DEF R
<1>3. PICK x \in T : \A y \in T : <<y, x>> \notin R
  BY <1>1, WFMin, Zenon
<1>4. ASSUME NEW y \in T PROVE x <= y
  <2>1. x \in Nat /\ y \in Nat
    BY Zenon
  <2>2. ~(y < x)
    BY <1>2, <1>3, <2>1, Zenon
  <2>3. QED
    BY <2>1, <2>2
<1>5. QED
  BY Zenon, <1>4

\* A set that has 0 and with a number its successor has all numbers.
LEMMA Inductive ==
  ASSUME NEW T, 0 \in T, \A n \in Nat : n \in T => n + 1 \in T
  PROVE  \A n \in Nat : n \in T
<1> DEFINE C == {n \in Nat : n \notin T}
<1>1. SUFFICES ASSUME C # {} PROVE FALSE
  BY Zenon
<1>2. PICK x \in C : \A y \in C : x <= y
  <2> C \subseteq Nat  BY Zenon
  <2> HIDE DEF C
  <2> QED BY <1>1, Least, Zenon
<1>3. x \in Nat /\ x # 0
  BY Zenon, <1>2
<1>4. x - 1 \in Nat /\ x - 1 \notin C
  BY <1>2, <1>3
<1>5. QED
  BY <1>2, <1>3, <1>4

\* A nonempty set of numbers up to k has a maximum.
LEMMA MaxOf ==
  ASSUME NEW k \in Nat, NEW s \in SUBSET (1 .. k), s # {}
  PROVE  Max(s) \in s /\ \A y \in s : Max(s) >= y
<1>1. \E x \in s : \A y \in s : x >= y
  <2> DEFINE D == {k - x : x \in s}
  <2>1. \A x \in s : x \in Int /\ k - x \in Nat
    OBVIOUS
  <2>2. D \subseteq Nat
    BY <2>1, Zenon
  <2>3. D # {}
    BY Zenon
  <2>4. \A x \in s : k - x \in D
    BY Zenon
  <2>5. \A d \in D : \E x \in s : d = k - x
    BY Zenon
  <2> HIDE DEF D
  <2>6. PICK d \in D : \A y \in D : d <= y
    BY <2>2, <2>3, Least, Zenon
  <2>7. PICK x \in s : d = k - x
    BY Zenon, <2>5
  <2>8. ASSUME NEW y \in s PROVE x >= y
    <3>1. k - x <= k - y
      BY <2>4, <2>6, <2>7, Zenon
    <3>2. x \in Int /\ y \in Int
      BY Zenon, <2>1
    <3>3. QED
      BY <3>1, <3>2
  <2>9. QED
    BY Zenon, <2>8
<1>2. QED
  BY Zenon, <1>1 DEF Max

\* A loop that applies step[k] in its k-th turn.
Loops(f, base, step, n) == f[0] = base /\ \A k \in 1 .. n : f[k] = step[k][f[k - 1]]

\* Such a loop has a run.
LEMMA LoopExists ==
  ASSUME NEW n \in Nat, NEW X, NEW base \in X, NEW step \in [1 .. n -> [X -> X]]
  PROVE  \E f \in [0 .. n -> X] : Loops(f, base, step, n)
<1> DEFINE P(k) == k <= n => \E f \in [0 .. k -> X] : Loops(f, base, step, k)
<1>1. P(0)
  <2> DEFINE f == [k \in 0 .. 0 |-> base]
  <2>1. 0 \in 0 .. 0 /\ \A k \in 1 .. 0 : FALSE
    OBVIOUS
  <2>2. f \in [0 .. 0 -> X] /\ Loops(f, base, step, 0)
    BY <2>1, Zenon DEF Loops
  <2>3. QED
    BY <2>2, Zenon
<1>2. ASSUME NEW k \in Nat, P(k) PROVE P(k + 1)
  <2> SUFFICES ASSUME k + 1 <= n PROVE \E f \in [0 .. k + 1 -> X] : Loops(f, base, step, k + 1)
    BY Zenon
  <2>1. /\ k <= n /\ k + 1 \in 1 .. n /\ k \in 0 .. k /\ k + 1 \in 0 .. k + 1 /\ (k + 1) - 1 = k
        /\ 0 \in 0 .. k /\ 0 \in 0 .. k + 1 /\ 0 # k + 1
        /\ \A i \in 0 .. k + 1 : i # k + 1 => i \in 0 .. k
        /\ \A i \in 1 .. k : /\ i \in 0 .. k /\ i - 1 \in 0 .. k /\ i # k + 1 /\ i - 1 # k + 1
                             /\ i \in 0 .. k + 1 /\ i - 1 \in 0 .. k + 1
        /\ \A i \in 1 .. k + 1 : i = k + 1 \/ i \in 1 .. k
        /\ k # k + 1 /\ k \in 0 .. k + 1
    OBVIOUS
  <2>2. PICK f \in [0 .. k -> X] : Loops(f, base, step, k)
    BY <1>2, <2>1, Zenon
  <2> DEFINE g == [i \in 0 .. k + 1 |-> IF i = k + 1 THEN step[k + 1][f[k]] ELSE f[i]]
  <2>3. f[k] \in X /\ step[k + 1][f[k]] \in X
    BY <2>1, Zenon
  <2>4. g \in [0 .. k + 1 -> X]
    BY <2>1, <2>3, Zenon
  <2>5. g[0] = base
    BY <2>1, <2>2, Zenon DEF Loops
  <2>6. g[k + 1] = step[k + 1][g[k]]
    BY <2>1, Zenon
  <2>7. ASSUME NEW i \in 1 .. k PROVE g[i] = step[i][g[i - 1]]
    <3>1. g[i] = f[i] /\ g[i - 1] = f[i - 1]
      BY <2>1, Zenon
    <3>2. QED
      BY <2>2, <3>1, Zenon DEF Loops
  <2> HIDE DEF g
  <2>8. ASSUME NEW i \in 1 .. k + 1 PROVE g[i] = step[i][g[i - 1]]
    BY <2>1, <2>6, <2>7, Zenon
  <2>9. QED
    BY <2>4, <2>5, <2>8, Zenon DEF Loops
<1>3. \A k \in Nat : P(k)
  <2> HIDE DEF P
  <2> DEFINE T == {k \in Nat : P(k)}
  <2>1. 0 \in T /\ \A k \in Nat : k \in T => k + 1 \in T
    BY <1>1, <1>2
  <2> HIDE DEF T
  <2>2. \A k \in Nat : k \in T
    BY <2>1, Inductive, Zenon
  <2>3. QED
    BY <2>2, Zenon DEF T
<1>4. n <= n
  OBVIOUS
<1>5. QED
  BY <1>3, <1>4, Zenon

-----------------------------------------------------------------------------
(* The loop of collect_spans_filtered: no two accepted spans overlap.         *)

\* A match with the pattern it belongs to.
Span == [s : Nat, e : Nat, valid : BOOLEAN, tag : Names]

\* The loop of collect_spans_filtered.
LEMMA AcceptLoop ==
  ASSUME NEW all \in Seq(Span)
  PROVE  \E f \in [0 .. Len(all) -> Seq(Span)] :
           /\ f[0] = << >> /\ \A k \in 1 .. Len(all) : f[k] = Accept(f[k - 1], all[k])
           /\ AcceptAll(all) = f[Len(all)]
<1> DEFINE n == Len(all)
           E(h) == h = [i \in 0 .. n |-> IF i = 0 THEN << >> ELSE Accept(h[i - 1], all[i])]
           fl == CHOOSE h : E(h)
           step == [k \in 1 .. n |-> [x \in Seq(Span) |-> Accept(x, all[k])]]
<1>1. n \in Nat /\ \A i \in 1 .. n : all[i] \in Span
  OBVIOUS
<1>2. AcceptAll(all) = fl[n]
  BY Zenon DEF AcceptAll
<1>3. << >> \in Seq(Span)
  OBVIOUS
<1>4. \A k \in 1 .. n, x \in Seq(Span) : Accept(x, all[k]) \in Seq(Span)
  BY <1>1 DEF Accept
<1>5. step \in [1 .. n -> [Seq(Span) -> Seq(Span)]]
  BY <1>4, Zenon
<1>6. PICK h \in [0 .. n -> Seq(Span)] : Loops(h, << >>, step, n)
  <2> HIDE DEF n, step
  <2>1. QED
    BY <1>1, <1>3, <1>5, LoopExists, Zenon
<1>7. /\ 0 \in 0 .. n /\ \A k \in 1 .. n : k - 1 \in 0 .. n /\ k \in 0 .. n /\ k # 0
      /\ \A k \in 0 .. n : k = 0 \/ k \in 1 .. n
  BY <1>1
<1>8. h[0] = << >> /\ \A k \in 1 .. n : h[k] = Accept(h[k - 1], all[k])
  BY <1>6, <1>7, Zenon DEF Loops
<1>9. h = [i \in 0 .. n |-> h[i]]
  BY <1>6, Zenon
<1>10. \A i \in 0 .. n : h[i] = IF i = 0 THEN << >> ELSE Accept(h[i - 1], all[i])
  BY <1>7, <1>8, Zenon
<1> HIDE DEF n
<1>11. E(h)
  <2>1. [i \in 0 .. n |-> h[i]] = [i \in 0 .. n |-> IF i = 0 THEN << >> ELSE Accept(h[i - 1], all[i])]
    BY <1>10, Zenon
  <2>2. QED
    BY <1>9, <2>1, Zenon
<1>12. E(fl)
  BY <1>11, Zenon
<1> HIDE DEF fl
<1>13. fl[0] = << >> /\ \A k \in 1 .. n : fl[k] = Accept(fl[k - 1], all[k])
  BY <1>7, <1>12, Zenon
<1> HIDE DEF E
<1> DEFINE P(k) == k <= n => fl[k] = h[k]
<1>14. P(0)
  BY <1>8, <1>13, Zenon
<1>15. ASSUME NEW k \in Nat, P(k) PROVE P(k + 1)
  <2> SUFFICES ASSUME k + 1 <= n PROVE fl[k + 1] = h[k + 1]
    BY Zenon
  <2>1. k + 1 \in 1 .. n /\ k <= n /\ (k + 1) - 1 = k
    BY <1>1
  <2>2. fl[k] = h[k]
    BY <1>15, <2>1, Zenon
  <2>3. fl[k + 1] = Accept(fl[k], all[k + 1]) /\ h[k + 1] = Accept(h[k], all[k + 1])
    BY <1>8, <1>13, <2>1, Zenon
  <2>4. QED
    BY <2>2, <2>3, Zenon
<1>16. \A k \in Nat : P(k)
  <2> HIDE DEF P
  <2> DEFINE T == {k \in Nat : P(k)}
  <2>1. 0 \in T /\ \A k \in Nat : k \in T => k + 1 \in T
    BY <1>14, <1>15
  <2> HIDE DEF T
  <2>2. \A k \in Nat : k \in T
    BY <2>1, Inductive, Zenon
  <2>3. QED
    BY <2>2, Zenon DEF T
<1>17. fl[n] = h[n]
  <2>1. n <= n
    BY <1>1
  <2>2. QED
    BY <1>1, <1>16, <2>1, Zenon
<1>18. QED
  BY <1>2, <1>6, <1>8, <1>17, Zenon DEF n

\* A sequence holds an element; all its elements are different.
Has(f, m) == \E i \in DOMAIN f : f[i] = m
Distinct(all) == \A g, h \in DOMAIN all : all[g] = all[h] => g = h

\* What is accepted of the first k candidates: no two overlap, and those stay that
\* meet no earlier one that stays.
Stays(all, f, h) ==
  all[h].valid /\ ~\E g \in 1 .. h - 1 : Has(f, all[g]) /\ Overlap(all[g], all[h])

\* After k candidates: the accepted spans f do not overlap, come from the
\* candidates, and hold exactly those that stay.
Settled(all, f, k) ==
  /\ f \in Seq(Span)
  /\ \A i, j \in DOMAIN f : i # j => ~Overlap(f[i], f[j])
  /\ \A i \in DOMAIN f : \E h \in 1 .. k : f[i] = all[h]
  /\ \A h \in 1 .. k : Has(f, all[h]) <=> Stays(all, f, h)

\* Whether two spans overlap does not depend on which one is named first.
LEMMA OverlapSym == ASSUME NEW a \in Span, NEW b \in Span PROVE Overlap(a, b) <=> Overlap(b, a)
BY Zenon DEF Overlap, Span

\* One turn of the loop of collect_spans_filtered: the next match is accepted
\* exactly when it overlaps no span accepted before it.
LEMMA AcceptTurn ==
  ASSUME NEW all \in Seq(Span), Distinct(all), NEW k \in 1 .. Len(all), NEW f,
         Settled(all, f, k - 1)
  PROVE  Settled(all, Accept(f, all[k]), k)
<1> DEFINE m == all[k]
           taken == m.valid /\ ~\E i \in DOMAIN f : Overlap(m, f[i])
           g == Accept(f, m)
<1>1. /\ f \in Seq(Span) /\ m \in Span /\ DOMAIN f = 1 .. Len(f) /\ Len(f) \in Nat
      /\ DOMAIN all = 1 .. Len(all) /\ k \in DOMAIN all
  BY DEF Settled
<1>2. \A h \in 1 .. k : all[h] \in Span /\ h \in DOMAIN all
  BY <1>1
<1>3. \A h \in 1 .. k - 1 : all[h] # m /\ h \in 1 .. k
  BY <1>1, <1>2 DEF Distinct
<1>4. g = IF taken THEN Append(f, m) ELSE f
  BY Zenon DEF Accept
<1>5. \A i \in DOMAIN f : \E h \in 1 .. k - 1 : f[i] = all[h]
  BY Zenon DEF Settled
<1>6. ~Has(f, m)
  BY Zenon, <1>3, <1>5 DEF Has
<1>7. taken <=> Stays(all, f, k)
  <2>1. ASSUME NEW i \in DOMAIN f, Overlap(m, f[i])
        PROVE  \E h \in 1 .. k - 1 : Has(f, all[h]) /\ Overlap(all[h], m)
    <3>1. PICK h \in 1 .. k - 1 : f[i] = all[h]
      BY Zenon, <1>5
    <3>2. Has(f, all[h])
      BY <3>1, Zenon DEF Has
    <3>3. all[h] \in Span
      BY <1>2, <1>3, Zenon
    <3>4. Overlap(all[h], m)
      BY <1>1, <2>1, <3>1, <3>3, OverlapSym, Zenon
    <3>5. QED
      BY <3>2, <3>4, Zenon
  <2>2. ASSUME NEW h \in 1 .. k - 1, Has(f, all[h]), Overlap(all[h], m)
        PROVE  \E i \in DOMAIN f : Overlap(m, f[i])
    <3>1. PICK i \in DOMAIN f : f[i] = all[h]
      BY <2>2, Zenon DEF Has
    <3>2. all[h] \in Span
      BY <1>2, <1>3, Zenon
    <3>3. QED
      BY <1>1, <2>2, <3>1, <3>2, OverlapSym, Zenon
  <2>3. QED
    BY <2>1, <2>2, Zenon DEF Stays
<1>8. \A x : Has(g, x) <=> Has(f, x) \/ (taken /\ x = m)
  <2>1. CASE taken
    <3>1. g = Append(f, m) /\ DOMAIN g = 1 .. Len(f) + 1
      BY <1>1, <1>4, <2>1
    <3>2. \A i \in DOMAIN f : i \in DOMAIN g /\ g[i] = f[i]
      BY <1>1, <3>1
    <3>3. Len(f) + 1 \in DOMAIN g /\ g[Len(f) + 1] = m
      BY <1>1, <3>1
    <3>4. \A i \in DOMAIN g : i \in DOMAIN f \/ i = Len(f) + 1
      BY <1>1, <3>1
    <3> HIDE DEF g, m, taken
    <3>5. QED
      BY <2>1, <3>2, <3>3, <3>4, Zenon DEF Has
  <2>2. CASE ~taken
    BY <1>4, <2>2, Zenon
  <2>3. QED
    BY <2>1, <2>2, Zenon
<1>9. \A h \in 1 .. k : Stays(all, g, h) <=> Stays(all, f, h)
  <2> SUFFICES ASSUME NEW h \in 1 .. k PROVE Stays(all, g, h) <=> Stays(all, f, h)
    BY Zenon
  <2>1. \A x \in 1 .. h - 1 : x \in 1 .. k - 1
    OBVIOUS
  <2> HIDE DEF g, m, taken
  <2>2. ASSUME NEW x \in 1 .. h - 1 PROVE Has(g, all[x]) <=> Has(f, all[x])
    <3>1. all[x] # m
      BY <1>3, <2>1, Zenon
    <3>2. QED
      BY <1>8, <3>1, Zenon
  <2>3. QED
    BY <2>2, Zenon DEF Stays
<1>10. ASSUME NEW h \in 1 .. k PROVE Has(g, all[h]) <=> Stays(all, g, h)
  <2>1. CASE h = k
    BY <1>6, <1>7, <1>8, <1>9, <2>1, Zenon
  <2>2. CASE h # k
    <3>1. h \in 1 .. k - 1
      BY <2>2
    <3>2. QED
      BY <1>3, <1>8, <1>9, <3>1, Zenon DEF Settled
  <2>3. QED
    BY <2>1, <2>2, Zenon
<1>11. \A i, j \in DOMAIN g : i # j => ~Overlap(g[i], g[j])
  <2>1. CASE taken
    <3>1. g = Append(f, m) /\ DOMAIN g = 1 .. Len(f) + 1
      BY <1>1, <1>4, <2>1
    <3>2. \A i \in DOMAIN f : g[i] = f[i]
      BY <1>1, <3>1
    <3>3. g[Len(f) + 1] = m
      BY <1>1, <3>1
    <3>4. \A i \in DOMAIN g : i \in DOMAIN f \/ i = Len(f) + 1
      BY <1>1, <3>1
    <3>5. \A i \in DOMAIN f : f[i] \in Span
      BY <1>1
    <3>6. \A i \in DOMAIN f : ~Overlap(m, f[i]) /\ ~Overlap(f[i], m)
      BY <1>1, <2>1, <3>5, OverlapSym, Zenon
    <3> HIDE DEF g, m, taken
    <3>7. \A i, j \in DOMAIN f : i # j => ~Overlap(f[i], f[j])
      BY Zenon DEF Settled
    <3>8. QED
      BY <3>2, <3>3, <3>4, <3>6, <3>7, Zenon
  <2>2. CASE ~taken
    BY <1>4, <2>2, Zenon DEF Settled
  <2>3. QED
    BY <2>1, <2>2, Zenon
<1>12. g \in Seq(Span)
  BY <1>1, <1>4
<1>13. \A i \in DOMAIN g : \E h \in 1 .. k : g[i] = all[h]
  <2> SUFFICES ASSUME NEW i \in DOMAIN g PROVE \E h \in 1 .. k : g[i] = all[h]
    BY Zenon
  <2> HIDE DEF g
  <2>1. Has(f, g[i]) \/ g[i] = m
    BY <1>8, Zenon DEF Has
  <2>2. k \in 1 .. k
    OBVIOUS
  <2>3. QED
    BY <1>3, <1>5, <2>1, <2>2, Zenon DEF Has
<1> HIDE DEF g
<1>14. QED
  BY <1>10, <1>11, <1>12, <1>13, Zenon DEF Settled, g

\* What collect_spans_filtered accepts.
LEMMA AllSettled ==
  ASSUME NEW all \in Seq(Span), Distinct(all)
  PROVE  Settled(all, AcceptAll(all), Len(all))
<1>1. PICK f \in [0 .. Len(all) -> Seq(Span)] :
        /\ f[0] = << >> /\ \A k \in 1 .. Len(all) : f[k] = Accept(f[k - 1], all[k])
        /\ AcceptAll(all) = f[Len(all)]
  BY AcceptLoop, Zenon
<1> DEFINE P(k) == k <= Len(all) => Settled(all, f[k], k)
<1>2. P(0)
  BY <1>1 DEF Settled
<1>3. ASSUME NEW k \in Nat, P(k) PROVE P(k + 1)
  <2> SUFFICES ASSUME k + 1 <= Len(all) PROVE Settled(all, f[k + 1], k + 1)
    BY Zenon
  <2>1. k + 1 \in 1 .. Len(all) /\ k <= Len(all) /\ (k + 1) - 1 = k
    OBVIOUS
  <2>2. f[k + 1] = Accept(f[k], all[k + 1])
    BY <1>1, <2>1, Zenon
  <2>3. Settled(all, f[k], (k + 1) - 1)
    BY <1>3, <2>1, Zenon
  <2>4. QED
    BY <2>1, <2>2, <2>3, AcceptTurn, Zenon
<1>4. \A k \in Nat : P(k)
  <2> HIDE DEF P
  <2> DEFINE T == {k \in Nat : P(k)}
  <2>1. 0 \in T /\ \A k \in Nat : k \in T => k + 1 \in T
    BY <1>2, <1>3
  <2> HIDE DEF T
  <2>2. \A k \in Nat : k \in T
    BY <2>1, Inductive, Zenon
  <2>3. QED
    BY <2>2, Zenon DEF T
<1>5. Len(all) \in Nat /\ Len(all) <= Len(all)
  OBVIOUS
<1>6. QED
  BY <1>1, <1>4, <1>5, Zenon

-----------------------------------------------------------------------------
(* Flattening.                                                                *)

\* The loop of FlattenSeq.
Flattens(f, ss) ==
  f[0] = << >> /\ \A i \in 1 .. Len(ss) : f[i] = f[i - 1] \o ss[i]

\* FlattenSeq is the last turn of its loop.
LEMMA FlattenLoop ==
  ASSUME NEW X, NEW ss \in Seq(Seq(X))
  PROVE  \E f \in [0 .. Len(ss) -> Seq(X)] : Flattens(f, ss) /\ FlattenSeq(ss) = f[Len(ss)]
<1> DEFINE n == Len(ss)
           E(h) == h = [i \in 0 .. n |-> IF i = 0 THEN << >> ELSE h[i - 1] \o ss[i]]
           fl == CHOOSE h : E(h)
           step == [k \in 1 .. n |-> [x \in Seq(X) |-> x \o ss[k]]]
<1>1. n \in Nat /\ \A i \in 1 .. n : ss[i] \in Seq(X)
  OBVIOUS
<1>2. FlattenSeq(ss) = fl[n]
  BY Zenon DEF FlattenSeq
<1>3. << >> \in Seq(X)
  OBVIOUS
<1>4. \A k \in 1 .. n, x \in Seq(X) : x \o ss[k] \in Seq(X)
  BY <1>1
<1>5. step \in [1 .. n -> [Seq(X) -> Seq(X)]]
  BY <1>4, Zenon
<1>6. PICK h \in [0 .. n -> Seq(X)] : Loops(h, << >>, step, n)
  <2> HIDE DEF n, step
  <2>1. QED
    BY <1>1, <1>3, <1>5, LoopExists, Zenon
<1>7. /\ 0 \in 0 .. n /\ \A k \in 1 .. n : k - 1 \in 0 .. n /\ k \in 0 .. n /\ k # 0
      /\ \A k \in 0 .. n : k = 0 \/ k \in 1 .. n
  BY <1>1
<1>8. h[0] = << >> /\ \A k \in 1 .. n : h[k] = h[k - 1] \o ss[k]
  BY <1>6, <1>7, Zenon DEF Loops
<1>9. h = [i \in 0 .. n |-> h[i]]
  BY <1>6, Zenon
<1>10. \A i \in 0 .. n : h[i] = IF i = 0 THEN << >> ELSE h[i - 1] \o ss[i]
  BY <1>7, <1>8, Zenon
<1> HIDE DEF n
<1>11. E(h)
  <2>1. [i \in 0 .. n |-> h[i]] = [i \in 0 .. n |-> IF i = 0 THEN << >> ELSE h[i - 1] \o ss[i]]
    BY <1>10, Zenon
  <2>2. QED
    BY <1>9, <2>1, Zenon
<1>12. E(fl)
  BY <1>11, Zenon
<1> HIDE DEF fl
<1>13. fl[0] = << >> /\ \A k \in 1 .. n : fl[k] = fl[k - 1] \o ss[k]
  BY <1>7, <1>12, Zenon
<1> HIDE DEF E
<1> DEFINE P(k) == k <= n => fl[k] = h[k]
<1>14. P(0)
  BY <1>8, <1>13, Zenon
<1>15. ASSUME NEW k \in Nat, P(k) PROVE P(k + 1)
  <2> SUFFICES ASSUME k + 1 <= n PROVE fl[k + 1] = h[k + 1]
    BY Zenon
  <2>1. k + 1 \in 1 .. n /\ k <= n /\ (k + 1) - 1 = k
    BY <1>1
  <2>2. fl[k] = h[k]
    BY <1>15, <2>1, Zenon
  <2>3. fl[k + 1] = fl[k] \o ss[k + 1] /\ h[k + 1] = h[k] \o ss[k + 1]
    BY <1>8, <1>13, <2>1, Zenon
  <2>4. QED
    BY <2>2, <2>3, Zenon
<1>16. \A k \in Nat : P(k)
  <2> HIDE DEF P
  <2> DEFINE T == {k \in Nat : P(k)}
  <2>1. 0 \in T /\ \A k \in Nat : k \in T => k + 1 \in T
    BY <1>14, <1>15
  <2> HIDE DEF T
  <2>2. \A k \in Nat : k \in T
    BY <2>1, Inductive, Zenon
  <2>3. QED
    BY <2>2, Zenon DEF T
<1>17. fl[n] = h[n]
  <2>1. n <= n
    BY <1>1
  <2>2. QED
    BY <1>1, <1>16, <2>1, Zenon
<1>18. QED
  BY <1>2, <1>6, <1>8, <1>17, Zenon DEF n, Flattens

\* Concatenation is associative.
Assoc(u, v, w) == (u \o v) \o w = u \o (v \o w)

\* The concatenation of two sequences is one, as long as both.
LEMMA ConcatType ==
  ASSUME NEW X, NEW u \in Seq(X), NEW v \in Seq(X)
  PROVE  u \o v \in Seq(X) /\ Len(u \o v) = Len(u) + Len(v)
OBVIOUS

\* Concatenating three sequences gives the same whichever two are joined first.
LEMMA ConcatAssoc ==
  ASSUME NEW X, NEW u \in Seq(X), NEW v \in Seq(X), NEW w \in Seq(X) PROVE Assoc(u, v, w)
BY DEF Assoc

\* Flattening a sequence of sequences gives a sequence of their elements.
LEMMA FlattenType == ASSUME NEW X, NEW ss \in Seq(Seq(X)) PROVE FlattenSeq(ss) \in Seq(X)
<1>1. PICK f \in [0 .. Len(ss) -> Seq(X)] : Flattens(f, ss) /\ FlattenSeq(ss) = f[Len(ss)]
  BY FlattenLoop, Zenon
<1>2. Len(ss) \in 0 .. Len(ss)
  OBVIOUS
<1>3. QED
  BY <1>1, <1>2, Zenon

\* Flattening nothing gives nothing.
LEMMA FlattenNone == FlattenSeq(<< >>) = << >>
<1>1. << >> \in Seq(Seq({})) /\ Len(<< >>) = 0
  OBVIOUS
<1>2. PICK f \in [0 .. Len(<< >>) -> Seq({})] :
        Flattens(f, << >>) /\ FlattenSeq(<< >>) = f[Len(<< >>)]
  BY <1>1, FlattenLoop, Zenon
<1>3. QED
  BY <1>1, <1>2, Zenon DEF Flattens

\* Flattening one sequence gives that sequence.
LEMMA FlattenOne == ASSUME NEW X, NEW s \in Seq(X) PROVE FlattenSeq(<<s>>) = s
<1>1. <<s>> \in Seq(Seq(X)) /\ Len(<<s>>) = 1 /\ <<s>>[1] = s
  OBVIOUS
<1>2. PICK f \in [0 .. Len(<<s>>) -> Seq(X)] :
        Flattens(f, <<s>>) /\ FlattenSeq(<<s>>) = f[Len(<<s>>)]
  BY <1>1, FlattenLoop, Zenon
<1>3. 1 \in 1 .. 1 /\ 1 - 1 = 0
  OBVIOUS
<1>4. f[1] = << >> \o s /\ FlattenSeq(<<s>>) = f[1]
  BY <1>1, <1>2, <1>3, Zenon DEF Flattens
<1>5. << >> \o s = s
  OBVIOUS
<1>6. QED
  BY <1>4, <1>5, Zenon

\* Flattening is a homomorphism.
LEMMA FlattenConcat ==
  ASSUME NEW X, NEW a \in Seq(Seq(X)), NEW b \in Seq(Seq(X))
  PROVE  FlattenSeq(a \o b) = FlattenSeq(a) \o FlattenSeq(b)
<1> DEFINE c == a \o b
           m == Len(a)
           n == Len(b)
<1>1. /\ c \in Seq(Seq(X)) /\ Len(c) = m + n /\ m \in Nat /\ n \in Nat
      /\ \A i \in 1 .. m : c[i] = a[i]
      /\ \A i \in 1 .. n : c[m + i] = b[i] /\ b[i] \in Seq(X)
  OBVIOUS
<1> HIDE DEF c
<1>2. PICK f \in [0 .. Len(c) -> Seq(X)] : Flattens(f, c) /\ FlattenSeq(c) = f[Len(c)]
  BY <1>1, FlattenLoop, Zenon
<1>3. PICK g \in [0 .. m -> Seq(X)] : Flattens(g, a) /\ FlattenSeq(a) = g[m]
  BY FlattenLoop, Zenon
<1>4. PICK h \in [0 .. n -> Seq(X)] : Flattens(h, b) /\ FlattenSeq(b) = h[n]
  BY FlattenLoop, Zenon
<1>5. f[m] = g[m]
  <2> DEFINE P(k) == k <= m => f[k] = g[k]
  <2>1. P(0)
    BY <1>2, <1>3, Zenon DEF Flattens
  <2>2. ASSUME NEW k \in Nat, P(k) PROVE P(k + 1)
    <3> SUFFICES ASSUME k + 1 <= m PROVE f[k + 1] = g[k + 1]
      BY Zenon
    <3>1. k + 1 \in 1 .. m /\ k + 1 \in 1 .. Len(c) /\ (k + 1) - 1 = k /\ k <= m
      BY <1>1
    <3>2. f[k + 1] = f[k] \o c[k + 1]
      BY <1>2, <3>1, Zenon DEF Flattens
    <3>3. g[k + 1] = g[k] \o a[k + 1]
      BY <1>3, <3>1, Zenon DEF Flattens
    <3>4. QED
      BY <1>1, <2>2, <3>1, <3>2, <3>3, Zenon
  <2>3. \A k \in Nat : P(k)
    <3> HIDE DEF P
    <3> DEFINE T == {k \in Nat : P(k)}
    <3>1. 0 \in T /\ \A k \in Nat : k \in T => k + 1 \in T
      BY <2>1, <2>2
    <3> HIDE DEF T
    <3>2. \A k \in Nat : k \in T
      BY <3>1, Inductive, Zenon
    <3>3. QED
      BY <3>2, Zenon DEF T
  <2>4. m <= m
    BY <1>1
  <2>5. QED
    BY <1>1, <2>3, <2>4, Zenon
<1>6. f[m + n] = g[m] \o h[n]
  <2> DEFINE P(k) == k <= n => f[m + k] = g[m] \o h[k]
  <2>0. g[m] \in Seq(X)
    <3>1. m \in 0 .. m
      BY <1>1
    <3>2. QED
      BY <1>3, <3>1, Zenon
  <2>1. P(0)
    <3>1. m + 0 = m /\ h[0] = << >>
      BY <1>1, <1>4 DEF Flattens
    <3>2. g[m] \o << >> = g[m]
      BY <2>0
    <3>3. QED
      BY <1>5, <3>1, <3>2, Zenon
  <2>2. ASSUME NEW k \in Nat, P(k) PROVE P(k + 1)
    <3> SUFFICES ASSUME k + 1 <= n PROVE f[m + (k + 1)] = g[m] \o h[k + 1]
      BY Zenon
    <3>1. /\ k + 1 \in 1 .. n /\ m + (k + 1) \in 1 .. Len(c) /\ (k + 1) - 1 = k /\ k <= n
          /\ (m + (k + 1)) - 1 = m + k /\ k \in 0 .. n
      BY <1>1
    <3>2. f[m + (k + 1)] = f[m + k] \o b[k + 1]
      BY <1>1, <1>2, <3>1, Zenon DEF Flattens
    <3>3. h[k + 1] = h[k] \o b[k + 1]
      BY <1>4, <3>1, Zenon DEF Flattens
    <3>4. h[k] \in Seq(X) /\ b[k + 1] \in Seq(X)
      BY <1>1, <1>4, <3>1, Zenon
    <3>5. (g[m] \o h[k]) \o b[k + 1] = g[m] \o (h[k] \o b[k + 1])
      <4>1. Assoc(g[m], h[k], b[k + 1])
        BY <2>0, <3>4, ConcatAssoc, Zenon
      <4>2. QED
        BY <4>1, Zenon DEF Assoc
    <3>6. f[m + k] = g[m] \o h[k]
      BY <2>2, <3>1, Zenon
    <3>7. QED
      BY <3>2, <3>3, <3>5, <3>6, Zenon
  <2>3. \A k \in Nat : P(k)
    <3> HIDE DEF P
    <3> DEFINE T == {k \in Nat : P(k)}
    <3>1. 0 \in T /\ \A k \in Nat : k \in T => k + 1 \in T
      BY <2>1, <2>2
    <3> HIDE DEF T
    <3>2. \A k \in Nat : k \in T
      BY <3>1, Inductive, Zenon
    <3>3. QED
      BY <3>2, Zenon DEF T
  <2>4. n <= n
    BY <1>1
  <2>5. QED
    BY <1>1, <2>3, <2>4, Zenon
<1>7. QED
  BY <1>1, <1>2, <1>3, <1>4, <1>6, Zenon DEF c

\* What a concatenation holds is held by one of its parts.
LEMMA HasConcat ==
  ASSUME NEW X, NEW a \in Seq(X), NEW b \in Seq(X), NEW x
  PROVE  Has(a \o b, x) <=> Has(a, x) \/ Has(b, x)
<1> DEFINE c == a \o b
<1>1. DOMAIN a = 1 .. Len(a) /\ DOMAIN b = 1 .. Len(b) /\ DOMAIN c = 1 .. Len(a) + Len(b)
  OBVIOUS
<1>2. \A i \in DOMAIN a : i \in DOMAIN c /\ c[i] = a[i]
  OBVIOUS
<1>3. \A i \in DOMAIN b : Len(a) + i \in DOMAIN c /\ c[Len(a) + i] = b[i]
  OBVIOUS
<1>4. \A i \in DOMAIN c : i \in DOMAIN a \/ \E j \in DOMAIN b : i = Len(a) + j
  <2> SUFFICES ASSUME NEW i \in DOMAIN c, i \notin DOMAIN a
               PROVE  \E j \in DOMAIN b : i = Len(a) + j
    BY Zenon
  <2>1. i - Len(a) \in DOMAIN b /\ i = Len(a) + (i - Len(a))
    BY <1>1
  <2>2. QED
    BY <2>1, Zenon
<1> HIDE DEF c
<1>5. QED
  BY <1>2, <1>3, <1>4, Zenon DEF Has, c

\* What the first k sequences have together.
LEMMA PrefixHas ==
  ASSUME NEW X, NEW ss \in Seq(Seq(X)), NEW f \in [0 .. Len(ss) -> Seq(X)], Flattens(f, ss), NEW x
  PROVE  \A k \in 0 .. Len(ss) : Has(f[k], x) <=> \E i \in 1 .. k : Has(ss[i], x)
<1>0. Len(ss) \in Nat /\ \A i \in 1 .. Len(ss) : ss[i] \in Seq(X)
  OBVIOUS
<1> DEFINE P(k) == k <= Len(ss) => (Has(f[k], x) <=> \E i \in 1 .. k : Has(ss[i], x))
<1>1. P(0)
  BY DEF Flattens, Has
<1>2. ASSUME NEW k \in Nat, P(k) PROVE P(k + 1)
  <2> SUFFICES ASSUME k + 1 <= Len(ss)
               PROVE  Has(f[k + 1], x) <=> \E i \in 1 .. k + 1 : Has(ss[i], x)
    BY Zenon
  <2>1. k + 1 \in 1 .. Len(ss) /\ (k + 1) - 1 = k /\ k <= Len(ss) /\ k \in 0 .. Len(ss)
    BY <1>0
  <2>2. f[k + 1] = f[k] \o ss[k + 1]
    BY <2>1, Zenon DEF Flattens
  <2>3. f[k] \in Seq(X) /\ ss[k + 1] \in Seq(X)
    BY <1>0, <2>1, Zenon
  <2>4. Has(f[k + 1], x) <=> Has(f[k], x) \/ Has(ss[k + 1], x)
    <3>1. Has(f[k] \o ss[k + 1], x) <=> Has(f[k], x) \/ Has(ss[k + 1], x)
      BY <2>3, HasConcat
    <3>2. QED
      BY <2>2, <3>1, Zenon
  <2>5. \A i : i \in 1 .. k + 1 <=> i \in 1 .. k \/ i = k + 1
    OBVIOUS
  <2>6. QED
    BY <1>2, <2>1, <2>4, <2>5, Zenon
<1>3. \A k \in Nat : P(k)
  <2> HIDE DEF P
  <2> DEFINE T == {k \in Nat : P(k)}
  <2>1. 0 \in T /\ \A k \in Nat : k \in T => k + 1 \in T
    BY <1>1, <1>2
  <2> HIDE DEF T
  <2>2. \A k \in Nat : k \in T
    BY <2>1, Inductive, Zenon
  <2>3. QED
    BY <2>2, Zenon DEF T
<1>4. \A k \in 0 .. Len(ss) : k \in Nat /\ k <= Len(ss)
  BY <1>0
<1>5. QED
  BY <1>3, <1>4, Zenon

\* What a flattened sequence has.
LEMMA FlattenHas ==
  ASSUME NEW X, NEW ss \in Seq(Seq(X)), NEW x
  PROVE  Has(FlattenSeq(ss), x) <=> \E i \in DOMAIN ss : Has(ss[i], x)
<1>1. DOMAIN ss = 1 .. Len(ss) /\ Len(ss) \in 0 .. Len(ss)
  OBVIOUS
<1>2. PICK f \in [0 .. Len(ss) -> Seq(X)] : Flattens(f, ss) /\ FlattenSeq(ss) = f[Len(ss)]
  BY FlattenLoop, Zenon
<1>3. \A k \in 0 .. Len(ss) : Has(f[k], x) <=> \E i \in 1 .. k : Has(ss[i], x)
  BY <1>2, PrefixHas, Zenon
<1>4. QED
  BY <1>1, <1>2, <1>3, Zenon

\* Two sequences without repetition that share no element, one after the other.
LEMMA DistinctConcat ==
  ASSUME NEW X, NEW a \in Seq(X), NEW b \in Seq(X), Distinct(a), Distinct(b),
         \A x : ~(Has(a, x) /\ Has(b, x))
  PROVE  Distinct(a \o b)
<1> DEFINE c == a \o b
<1>1. DOMAIN a = 1 .. Len(a) /\ DOMAIN b = 1 .. Len(b) /\ DOMAIN c = 1 .. Len(a) + Len(b)
      /\ Len(a) \in Nat /\ Len(b) \in Nat
  OBVIOUS
<1>2. \A i \in DOMAIN c :
        \/ i \in DOMAIN a /\ c[i] = a[i]
        \/ i - Len(a) \in DOMAIN b /\ c[i] = b[i - Len(a)]
  OBVIOUS
<1>3. \A i \in DOMAIN c : i \in Int
  BY <1>1
<1> HIDE DEF c
<1>4. ASSUME NEW i \in DOMAIN c, NEW j \in DOMAIN c, c[i] = c[j] PROVE i = j
  <2>1. CASE i \in DOMAIN a /\ c[i] = a[i] /\ j \in DOMAIN a /\ c[j] = a[j]
    BY <1>4, <2>1, Zenon DEF Distinct
  <2>2. CASE /\ i - Len(a) \in DOMAIN b /\ c[i] = b[i - Len(a)]
             /\ j - Len(a) \in DOMAIN b /\ c[j] = b[j - Len(a)]
    <3>1. i - Len(a) = j - Len(a)
      BY <1>4, <2>2, Zenon DEF Distinct
    <3>2. QED
      BY <1>1, <1>3, <3>1
  <2>3. CASE i \in DOMAIN a /\ c[i] = a[i] /\ j - Len(a) \in DOMAIN b /\ c[j] = b[j - Len(a)]
    BY <1>4, <2>3, Zenon DEF Has
  <2>4. CASE j \in DOMAIN a /\ c[j] = a[j] /\ i - Len(a) \in DOMAIN b /\ c[i] = b[i - Len(a)]
    BY <1>4, <2>4, Zenon DEF Has
  <2>5. QED
    BY <1>2, <2>1, <2>2, <2>3, <2>4, Zenon
<1>5. QED
  BY <1>4, Zenon DEF Distinct, c

\* Sequences without repetition, no two of which share an element.
LEMMA FlattenDistinct ==
  ASSUME NEW X, NEW ss \in Seq(Seq(X)), \A i \in DOMAIN ss : Distinct(ss[i]),
         \A i, j \in DOMAIN ss : i # j => \A x : ~(Has(ss[i], x) /\ Has(ss[j], x))
  PROVE  Distinct(FlattenSeq(ss))
<1>1. PICK f \in [0 .. Len(ss) -> Seq(X)] : Flattens(f, ss) /\ FlattenSeq(ss) = f[Len(ss)]
  BY FlattenLoop, Zenon
<1>2. DOMAIN ss = 1 .. Len(ss) /\ Len(ss) \in Nat /\ \A i \in 1 .. Len(ss) : ss[i] \in Seq(X)
  OBVIOUS
<1> DEFINE P(k) == k <= Len(ss) => Distinct(f[k])
<1>3. P(0)
  BY <1>1 DEF Flattens, Distinct
<1>4. ASSUME NEW k \in Nat, P(k) PROVE P(k + 1)
  <2> SUFFICES ASSUME k + 1 <= Len(ss) PROVE Distinct(f[k + 1])
    BY Zenon
  <2>1. /\ k + 1 \in 1 .. Len(ss) /\ (k + 1) - 1 = k /\ k <= Len(ss) /\ k \in 0 .. Len(ss)
        /\ \A i \in 1 .. k : i \in 1 .. Len(ss) /\ i # k + 1
    BY <1>2
  <2>2. f[k + 1] = f[k] \o ss[k + 1]
    BY <1>1, <2>1, Zenon DEF Flattens
  <2>3. f[k] \in Seq(X) /\ ss[k + 1] \in Seq(X)
    BY <1>1, <1>2, <2>1, Zenon
  <2>4. ASSUME NEW x, Has(f[k], x) PROVE ~Has(ss[k + 1], x)
    <3>1. PICK i \in 1 .. k : Has(ss[i], x)
      BY <1>1, <2>1, <2>4, PrefixHas, Zenon
    <3>2. QED
      BY <1>2, <2>1, <3>1, Zenon
  <2>5. Distinct(f[k]) /\ Distinct(ss[k + 1])
    BY <1>2, <1>4, <2>1, Zenon
  <2>6. QED
    BY <2>2, <2>3, <2>4, <2>5, DistinctConcat, Zenon
<1>5. \A k \in Nat : P(k)
  <2> HIDE DEF P
  <2> DEFINE T == {k \in Nat : P(k)}
  <2>1. 0 \in T /\ \A k \in Nat : k \in T => k + 1 \in T
    BY <1>3, <1>4
  <2> HIDE DEF T
  <2>2. \A k \in Nat : k \in T
    BY <2>1, Inductive, Zenon
  <2>3. QED
    BY <2>2, Zenon DEF T
<1>6. Len(ss) <= Len(ss)
  BY <1>2
<1>7. QED
  BY <1>1, <1>2, <1>5, <1>6, Zenon

-----------------------------------------------------------------------------
(* The spans of a content.                                                    *)

\* A content as a request has it.
Text(t) ==
  /\ t \in [size : Nat, found : [Names -> Seq(Match)]]
  /\ \A n \in Names : Ordered(t.found[n], t.size)

\* The span of a match lies in the content and is not empty.
Lies(m, t) == m \in Span /\ m.s < m.e /\ m.e <= t.size

\* The candidates of one pattern.
TaggedBy(t, n) ==
  [k \in DOMAIN t.found[n] |->
    [s |-> t.found[n][k].s, e |-> t.found[n][k].e, valid |-> t.found[n][k].valid, tag |-> n]]

\* The matches of the patterns asked for, one sequence for each pattern.
PerPattern(t, names) ==
  [i \in DOMAIN Patterns |-> IF Patterns[i] \in names THEN TaggedBy(t, Patterns[i]) ELSE << >>]

\* A function on an interval from 1 is a sequence.
LEMMA IsSeq == ASSUME NEW X, NEW n \in Nat, NEW f \in [1 .. n -> X] PROVE f \in Seq(X) /\ Len(f) = n
OBVIOUS

\* The matches of one pattern are distinct spans of the content with its name.
LEMMA TaggedRight ==
  ASSUME NEW t, Text(t), NEW n \in Names
  PROVE  /\ TaggedBy(t, n) \in Seq(Span) /\ Distinct(TaggedBy(t, n))
         /\ \A x : Has(TaggedBy(t, n), x) => Lies(x, t) /\ x.tag = n
<1> DEFINE ms == t.found[n]
           Tag(m) == [s |-> m.s, e |-> m.e, valid |-> m.valid, tag |-> n]
           all == TaggedBy(t, n)
<1>1. ms \in Seq(Match) /\ Ordered(ms, t.size) /\ t.size \in Nat
  BY Zenon DEF Text
<1>2. DOMAIN ms = 1 .. Len(ms) /\ Len(ms) \in Nat /\ \A k \in 1 .. Len(ms) : ms[k] \in Match
  BY <1>1
<1>3. all = [k \in 1 .. Len(ms) |-> Tag(ms[k])]
  BY <1>2, Zenon DEF TaggedBy
<1> HIDE DEF all, ms
<1>4. \A k \in 1 .. Len(ms) : Tag(ms[k]) \in Span
  BY Zenon, <1>2 DEF Match, Span
<1>5. all \in [1 .. Len(ms) -> Span]
  BY Zenon, <1>3, <1>4
<1>6. all \in Seq(Span)
  BY Zenon, <1>2, <1>5, IsSeq
<1>7. ASSUME NEW k \in 1 .. Len(ms) PROVE Lies(all[k], t) /\ all[k].tag = n
  <2>1. all[k] = Tag(ms[k]) /\ all[k] \in Span
    BY Zenon, <1>3, <1>4
  <2>2. ms[k].s < ms[k].e /\ ms[k].e <= t.size
    BY Zenon, <1>1, <1>2, <1>7 DEF Ordered
  <2>3. QED
    BY <2>1, <2>2 DEF Lies
<1>8. ASSUME NEW k \in 1 .. Len(ms), NEW h \in 1 .. Len(ms), all[k] = all[h] PROVE k = h
  <2>1. ms[k].s = ms[h].s /\ ms[k].e = ms[h].e
    BY Zenon, <1>3, <1>8
  <2>2. ms[k] \in Match /\ ms[h] \in Match
    BY Zenon, <1>2, <1>8
  <2>3. /\ ms[k].s < ms[k].e /\ ms[h].s < ms[h].e
        /\ (k < h => ms[k].e <= ms[h].s) /\ (h < k => ms[h].e <= ms[k].s)
    BY Zenon, <1>1, <1>2, <1>8 DEF Ordered
  <2>4. QED
    BY <1>2, <1>8, <2>1, <2>2, <2>3 DEF Match
<1>9. DOMAIN all = 1 .. Len(ms)
  BY Zenon, <1>5
<1>10. Distinct(all)
  BY <1>8, <1>9, Zenon DEF Distinct
<1>11. \A x : Has(all, x) => Lies(x, t) /\ x.tag = n
  BY <1>7, <1>9, Zenon DEF Has
<1>12. QED
  BY <1>6, <1>10, <1>11, Zenon DEF all

\* The pattern list names each pattern once.
LEMMA PatternNames ==
  /\ DOMAIN Patterns = 1 .. Len(Patterns) /\ Len(Patterns) \in Nat
  /\ \A i \in DOMAIN Patterns : Patterns[i] \in Names
  /\ \A i, j \in DOMAIN Patterns : Patterns[i] = Patterns[j] => i = j
<1>1. Patterns \in Seq(Names)
  BY RedactorAssumption, Zenon
<1>2. \A i, j \in DOMAIN Patterns : Patterns[i] = Patterns[j] => i = j
  BY RedactorAssumption, Zenon DEF IsInjective
<1>3. QED
  BY <1>1, <1>2

\* The candidates of all patterns are distinct spans of the content.
LEMMA CandidatesRight ==
  ASSUME NEW t, Text(t), NEW names
  PROVE  /\ Candidates(t, names) \in Seq(Span) /\ Distinct(Candidates(t, names))
         /\ \A x : Has(Candidates(t, names), x) => Lies(x, t)
<1> DEFINE ss == PerPattern(t, names)
<1>1. Candidates(t, names) = FlattenSeq(ss)
  BY Zenon DEF Candidates, PerPattern, TaggedBy
<1>2. /\ DOMAIN Patterns = 1 .. Len(Patterns) /\ Len(Patterns) \in Nat
      /\ \A i \in 1 .. Len(Patterns) : Patterns[i] \in Names
      /\ \A i, j \in 1 .. Len(Patterns) : Patterns[i] = Patterns[j] => i = j
  BY PatternNames, Zenon
<1>3. DOMAIN ss = 1 .. Len(Patterns)
  BY <1>2, Zenon DEF PerPattern
<1>4. \A i \in 1 .. Len(Patterns) : ss[i] = TaggedBy(t, Patterns[i]) \/ ss[i] = << >>
  BY <1>2, Zenon DEF PerPattern
<1>5. << >> \in Seq(Span) /\ Distinct(<< >>) /\ \A x : ~Has(<< >>, x)
  BY DEF Distinct, Has
<1> HIDE DEF ss
<1>6. ASSUME NEW i \in 1 .. Len(Patterns)
      PROVE  /\ ss[i] \in Seq(Span) /\ Distinct(ss[i])
             /\ \A x : Has(ss[i], x) => Lies(x, t) /\ x.tag = Patterns[i]
  <2>1. Patterns[i] \in Names
    BY <1>2, Zenon
  <2>2. /\ TaggedBy(t, Patterns[i]) \in Seq(Span) /\ Distinct(TaggedBy(t, Patterns[i]))
        /\ \A x : Has(TaggedBy(t, Patterns[i]), x) => Lies(x, t) /\ x.tag = Patterns[i]
    BY <2>1, TaggedRight, Zenon
  <2>3. CASE ss[i] = << >>
    BY <1>5, <2>3, Zenon
  <2>4. CASE ss[i] = TaggedBy(t, Patterns[i])
    BY <2>2, <2>4, Zenon
  <2>5. QED
    BY <1>4, <1>6, <2>3, <2>4, Zenon
<1>7. ss = [i \in 1 .. Len(Patterns) |-> ss[i]]
  BY <1>2, Zenon DEF ss, PerPattern
<1>8. ss \in [1 .. Len(Patterns) -> Seq(Span)]
  BY Zenon, <1>6, <1>7
<1>9. ss \in Seq(Seq(Span))
  BY <1>2, <1>8, IsSeq, ZenonT(30)
<1>10. \A i \in DOMAIN ss : Distinct(ss[i])
  BY <1>3, <1>6, Zenon
<1>11. \A i, j \in DOMAIN ss : i # j => \A x : ~(Has(ss[i], x) /\ Has(ss[j], x))
  <2> SUFFICES ASSUME NEW i \in DOMAIN ss, NEW j \in DOMAIN ss, i # j, NEW x,
                      Has(ss[i], x), Has(ss[j], x)
               PROVE  FALSE
    BY Zenon
  <2>1. i \in 1 .. Len(Patterns) /\ j \in 1 .. Len(Patterns)
    BY <1>3, Zenon
  <2>2. x.tag = Patterns[i]
    BY <1>6, <2>1, Zenon
  <2>3. x.tag = Patterns[j]
    BY <1>6, <2>1, Zenon
  <2>4. QED
    BY <1>2, <2>1, <2>2, <2>3, Zenon
<1>12. FlattenSeq(ss) \in Seq(Span)
  BY <1>9, FlattenType, Zenon
<1>13. Distinct(FlattenSeq(ss))
  BY <1>9, <1>10, <1>11, FlattenDistinct, Zenon
<1>14. ASSUME NEW x, Has(FlattenSeq(ss), x) PROVE Lies(x, t)
  <2>1. \E i \in DOMAIN ss : Has(ss[i], x)
    BY <1>9, <1>14, FlattenHas, Zenon
  <2>2. QED
    BY <1>3, <1>6, <2>1, Zenon
<1>15. QED
  BY <1>1, <1>12, <1>13, <1>14, Zenon

\* The accepted spans: of the candidates those that stay, and no two overlap.
LEMMA SpansSettled ==
  ASSUME NEW t, Text(t), NEW names
  PROVE  LET all == Candidates(t, names)
             spans == CollectSpansFiltered(t, names)
         IN /\ Settled(all, spans, Len(all)) /\ all \in Seq(Span)
            /\ \A i \in DOMAIN spans : Lies(spans[i], t)
            /\ Distinct(spans)
<1> DEFINE all == Candidates(t, names)
           spans == CollectSpansFiltered(t, names)
<1>1. all \in Seq(Span) /\ Distinct(all) /\ \A x : Has(all, x) => Lies(x, t)
  BY CandidatesRight, Zenon
<1>2. spans = AcceptAll(all)
  BY Zenon DEF CollectSpansFiltered
<1> HIDE DEF all, spans
<1>3. Settled(all, spans, Len(all))
  BY <1>1, <1>2, AllSettled, Zenon
<1>4. DOMAIN all = 1 .. Len(all)
  BY <1>1
<1>5. \A i \in DOMAIN spans : Lies(spans[i], t)
  BY <1>1, <1>3, <1>4, Zenon DEF Settled, Has
<1>6. ASSUME NEW m, Lies(m, t) PROVE Overlap(m, m)
  BY Zenon, <1>6 DEF Lies, Span, Overlap
<1>7. Distinct(spans)
  <2> SUFFICES ASSUME NEW g \in DOMAIN spans, NEW h \in DOMAIN spans, spans[g] = spans[h], g # h
               PROVE  FALSE
    BY Zenon DEF Distinct
  <2>1. ~Overlap(spans[g], spans[h])
    BY <1>3, Zenon DEF Settled
  <2>2. QED
    BY <1>5, <1>6, <2>1, Zenon
<1>8. QED
  BY <1>1, <1>3, <1>5, <1>7, Zenon DEF all, spans

\* What collect_spans_filtered returns for a content and a set of names: no two
\* spans overlap, and a valid candidate is among them exactly when it overlaps no
\* earlier one that is.
LEMMA SpansAreRight ==
  ASSUME NEW t, Text(t), NEW names
  PROVE  SpansRight(t, names)
<1> DEFINE all == Candidates(t, names)
           spans == CollectSpansFiltered(t, names)
<1>1. Settled(all, spans, Len(all)) /\ all \in Seq(Span)
  BY SpansSettled, Zenon
<1> HIDE DEF all, spans
<1>2. DOMAIN all = 1 .. Len(all)
  BY <1>1
<1>3. \A h \in DOMAIN all : Has(spans, all[h]) <=> Stays(all, spans, h)
  BY <1>1, <1>2, Zenon DEF Settled
<1>4. \A i, j \in DOMAIN spans : i # j => ~Overlap(spans[i], spans[j])
  BY <1>1, Zenon DEF Settled
<1>5. QED
  BY <1>3, <1>4, Zenon DEF SpansRight, Has, Stays, all, spans

\* has_sensitive holds exactly if a span is accepted.
LEMMA SensitiveIsCounted ==
  ASSUME NEW t, Text(t)
  PROVE  HasSensitive(t) <=> CollectSpans(t) # << >>
<1> DEFINE all == Candidates(t, Names)
           spans == CollectSpansFiltered(t, Names)
<1>1. Settled(all, spans, Len(all)) /\ all \in Seq(Span)
  BY SpansSettled, Zenon
<1>2. spans = CollectSpans(t)
  BY Zenon DEF CollectSpans
<1>3. HasSensitive(t) <=> \E i \in DOMAIN all : all[i].valid
  BY Zenon DEF HasSensitive
<1> HIDE DEF all, spans
<1>4. DOMAIN all = 1 .. Len(all) /\ Len(all) \in Nat
  BY <1>1
<1>5. spans \in Seq(Span)
  BY <1>1, Zenon DEF Settled
<1>6. spans # << >> <=> \E i \in DOMAIN spans : TRUE
  <2>1. DOMAIN spans = 1 .. Len(spans) /\ Len(spans) \in Nat /\ (spans # << >> <=> Len(spans) # 0)
    BY <1>5
  <2>2. Len(spans) # 0 <=> \E i \in 1 .. Len(spans) : TRUE
    <3>1. CASE Len(spans) = 0
      BY <3>1
    <3>2. CASE Len(spans) # 0
      <4>1. 1 \in 1 .. Len(spans)
        BY <2>1, <3>2
      <4>2. QED
        BY <3>2, <4>1, Zenon
    <3>3. QED
      BY <3>1, <3>2, Zenon
  <2>3. QED
    BY <2>1, <2>2, Zenon
<1>7. ASSUME NEW i \in DOMAIN spans PROVE \E h \in DOMAIN all : all[h].valid
  <2>1. PICK h \in 1 .. Len(all) : spans[i] = all[h]
    BY <1>1, Zenon DEF Settled
  <2>2. Stays(all, spans, h)
    BY <1>1, <2>1, Zenon DEF Settled, Has
  <2>3. QED
    BY <1>4, <2>1, <2>2, Zenon DEF Stays
<1>8. ASSUME NEW h \in DOMAIN all, all[h].valid PROVE \E i \in DOMAIN spans : TRUE
  <2>1. CASE Has(spans, all[h])
    BY <2>1, Zenon DEF Has
  <2>2. CASE ~Has(spans, all[h])
    BY <1>1, <1>4, <1>8, <2>2, Zenon DEF Settled, Has, Stays
  <2>3. QED
    BY <2>1, <2>2, Zenon
<1>9. QED
  BY <1>2, <1>3, <1>6, <1>7, <1>8, Zenon

-----------------------------------------------------------------------------
(* The spans sorted by their start.                                           *)

\* One of finitely many spans of a content starts last.
LEMMA StartsLast ==
  ASSUME NEW b \in Nat, NEW n \in Nat, NEW q \in [1 .. n + 1 -> Span],
         \A j \in 1 .. n + 1 : q[j].s <= b
  PROVE  \E m \in 1 .. n + 1 : \A j \in 1 .. n + 1 : q[j].s <= q[m].s
<1> DEFINE D == {b - q[j].s : j \in 1 .. n + 1}
<1>1. \A j \in 1 .. n + 1 : q[j].s \in Nat /\ b - q[j].s \in Nat
  BY DEF Span
<1>2. D \subseteq Nat
  BY <1>1, Zenon
<1>3. \A j \in 1 .. n + 1 : b - q[j].s \in D
  BY Zenon
<1>4. \A d \in D : \E j \in 1 .. n + 1 : d = b - q[j].s
  BY Zenon
<1>5. 1 \in 1 .. n + 1
  OBVIOUS
<1> HIDE DEF D
<1>6. D # {}
  BY <1>3, <1>5, Zenon
<1>7. PICK d \in D : \A y \in D : d <= y
  BY <1>2, <1>6, Least, Zenon
<1>8. PICK m \in 1 .. n + 1 : d = b - q[m].s
  BY <1>4, Zenon
<1>9. ASSUME NEW j \in 1 .. n + 1 PROVE q[j].s <= q[m].s
  <2>1. b - q[m].s <= b - q[j].s
    BY <1>3, <1>7, <1>8, Zenon
  <2>2. q[j].s \in Nat /\ q[m].s \in Nat
    BY <1>1, Zenon
  <2> HIDE DEF Span
  <2>3. QED
    BY <2>1, <2>2
<1>10. QED
  BY <1>9, Zenon

\* r holds the n spans of q, once each, by their starts.
Sorts(r, q, n) ==
  /\ r \in [1 .. n -> Span]
  /\ \A i, j \in 1 .. n : r[i] = r[j] => i = j
  /\ \A i \in 1 .. n : \E j \in 1 .. n : r[i] = q[j]
  /\ \A j \in 1 .. n : \E i \in 1 .. n : r[i] = q[j]
  /\ \A i, j \in 1 .. n : i < j => r[i].s <= r[j].s

\* The first n spans are different, and none starts after b.
Once(q, n) == \A g, h \in 1 .. n : q[g] = q[h] => g = h
Below(q, n, b) == \A j \in 1 .. n : q[j].s <= b

\* If n spans can be sorted, so can n + 1: the last goes to the end.
LEMMA SortMore ==
  ASSUME NEW b \in Nat, NEW n \in Nat,
         \A q \in [1 .. n -> Span] : Once(q, n) /\ Below(q, n, b) => \E r : Sorts(r, q, n),
         NEW q \in [1 .. n + 1 -> Span], Once(q, n + 1), Below(q, n + 1, b)
  PROVE  \E r : Sorts(r, q, n + 1)
<1>1. PICK m \in 1 .. n + 1 : \A j \in 1 .. n + 1 : q[j].s <= q[m].s
  BY StartsLast, Zenon DEF Below
<1> DEFINE at(i) == IF i = m THEN n + 1 ELSE i
           p == [i \in 1 .. n |-> q[at(i)]]
<1>2. /\ \A i \in 1 .. n : at(i) \in 1 .. n + 1 /\ at(i) # m
      /\ \A i, j \in 1 .. n : at(i) = at(j) => i = j
      /\ \A j \in 1 .. n + 1 : j # m => \E i \in 1 .. n : at(i) = j
  <2>1. \A i \in 1 .. n : at(i) \in 1 .. n + 1 /\ at(i) # m
    OBVIOUS
  <2>2. \A i, j \in 1 .. n : at(i) = at(j) => i = j
    OBVIOUS
  <2>3. ASSUME NEW j \in 1 .. n + 1, j # m PROVE \E i \in 1 .. n : at(i) = j
    <3>1. CASE j = n + 1
      <4>1. m \in 1 .. n /\ at(m) = j
        BY <2>3, <3>1
      <4>2. QED
        BY <4>1, Zenon
    <3>2. CASE j # n + 1
      <4>1. j \in 1 .. n /\ at(j) = j
        BY <2>3, <3>2
      <4>2. QED
        BY <4>1, Zenon
    <3>3. QED
      BY <3>1, <3>2, Zenon
  <2>4. QED
    BY <2>1, <2>2, <2>3, Zenon
<1> HIDE DEF at
<1>3. p \in [1 .. n -> Span] /\ \A i \in 1 .. n : p[i] = q[at(i)]
  BY <1>2, Zenon
<1> HIDE DEF p
<1>4. Once(p, n) /\ Below(p, n, b)
  BY <1>2, <1>3, Zenon DEF Once, Below
<1>5. PICK s : Sorts(s, p, n)
  BY <1>3, <1>4, Zenon
<1> DEFINE r == [i \in 1 .. n + 1 |-> IF i = n + 1 THEN q[m] ELSE s[i]]
<1>6. \A i \in 1 .. n + 1 : i = n + 1 \/ (i \in 1 .. n /\ i # n + 1)
  OBVIOUS
<1>7. n + 1 \in 1 .. n + 1 /\ \A i \in 1 .. n : i \in 1 .. n + 1 /\ i # n + 1
  OBVIOUS
<1>8. s \in [1 .. n -> Span]
  BY <1>5, Zenon DEF Sorts
<1>9. r \in [1 .. n + 1 -> Span]
  BY <1>6, <1>8, Zenon
<1>10. r[n + 1] = q[m] /\ \A i \in 1 .. n : r[i] = s[i]
  BY <1>7, Zenon
<1> HIDE DEF r
<1>11. ASSUME NEW i \in 1 .. n PROVE \E j \in 1 .. n + 1 : s[i] = q[j] /\ j # m
  <2>1. PICK j \in 1 .. n : s[i] = p[j]
    BY <1>5, Zenon DEF Sorts
  <2>2. QED
    BY <1>2, <1>3, <2>1, Zenon
<1>12. ASSUME NEW i \in 1 .. n PROVE s[i] # q[m] /\ s[i].s <= q[m].s
  BY <1>1, <1>11, Zenon DEF Once
<1>13. ASSUME NEW i \in 1 .. n + 1, NEW j \in 1 .. n + 1, r[i] = r[j] PROVE i = j
  <2>1. CASE i = n + 1 /\ j = n + 1
    BY <2>1, Zenon
  <2>2. CASE i \in 1 .. n /\ j = n + 1
    BY <1>10, <1>12, <1>13, <2>2, Zenon
  <2>3. CASE i = n + 1 /\ j \in 1 .. n
    BY <1>10, <1>12, <1>13, <2>3, Zenon
  <2>4. CASE i \in 1 .. n /\ j \in 1 .. n
    BY <1>5, <1>10, <1>13, <2>4, Zenon DEF Sorts
  <2>5. QED
    BY <1>6, <2>1, <2>2, <2>3, <2>4, Zenon
<1>14. \A i \in 1 .. n + 1 : \E j \in 1 .. n + 1 : r[i] = q[j]
  BY <1>6, <1>10, <1>11, Zenon
<1>15. ASSUME NEW j \in 1 .. n + 1 PROVE \E i \in 1 .. n + 1 : r[i] = q[j]
  <2>1. CASE j = m
    BY <1>7, <1>10, <2>1, Zenon
  <2>2. CASE j # m
    <3>1. PICK k \in 1 .. n : at(k) = j
      BY <1>2, <2>2, Zenon
    <3>2. PICK i \in 1 .. n : s[i] = p[k]
      BY <1>5, Zenon DEF Sorts
    <3>3. QED
      BY <1>3, <1>7, <1>10, <3>1, <3>2, Zenon
  <2>3. QED
    BY <2>1, <2>2, Zenon
<1>16. ASSUME NEW i \in 1 .. n + 1, NEW j \in 1 .. n + 1, i < j PROVE r[i].s <= r[j].s
  <2>1. i \in 1 .. n /\ (j = n + 1 \/ j \in 1 .. n)
    BY <1>16
  <2>2. CASE j = n + 1
    BY <1>10, <1>12, <2>1, <2>2, Zenon
  <2>3. CASE j \in 1 .. n
    BY <1>5, <1>10, <1>16, <2>1, <2>3, Zenon DEF Sorts
  <2>4. QED
    BY <2>1, <2>2, <2>3, Zenon
<1>17. Sorts(r, q, n + 1)
  BY <1>9, <1>13, <1>14, <1>15, <1>16, Zenon DEF Sorts
<1>18. QED
  BY <1>17, Zenon

\* Every sequence of different spans can be sorted.
LEMMA SortExists ==
  ASSUME NEW b \in Nat, NEW n \in Nat, NEW q \in [1 .. n -> Span], Once(q, n), Below(q, n, b)
  PROVE  \E r : Sorts(r, q, n)
<1> DEFINE P(k) == \A p \in [1 .. k -> Span] : Once(p, k) /\ Below(p, k, b) => \E r : Sorts(r, p, k)
<1>1. P(0)
  <2> SUFFICES ASSUME NEW p \in [1 .. 0 -> Span] PROVE \E r : Sorts(r, p, 0)
    BY Zenon
  <2>1. Sorts(p, p, 0)
    BY DEF Sorts
  <2>2. QED
    BY <2>1, Zenon
<1>2. ASSUME NEW k \in Nat, P(k) PROVE P(k + 1)
  BY <1>2, SortMore, Zenon
<1>3. \A k \in Nat : P(k)
  <2> HIDE DEF P
  <2> DEFINE T == {k \in Nat : P(k)}
  <2>1. 0 \in T /\ \A k \in Nat : k \in T => k + 1 \in T
    BY <1>1, <1>2
  <2> HIDE DEF T
  <2>2. \A k \in Nat : k \in T
    BY <2>1, Inductive, Zenon
  <2>3. QED
    BY <2>2, Zenon DEF T
<1>4. QED
  BY <1>3, Zenon

\* Spans of t in text order, one after the other.
Line(r, t) ==
  /\ r \in Seq(Span)
  /\ \A i \in 1 .. Len(r) : Lies(r[i], t)
  /\ \A i, j \in 1 .. Len(r) : i < j => r[i].e <= r[j].s

\* What sort_by_key makes of the accepted spans.
LEMMA ByStartRight ==
  ASSUME NEW t, Text(t), NEW names
  PROVE  LET spans == CollectSpansFiltered(t, names)
             r == ByStart(spans)
         IN Line(r, t) /\ Range(r) = Range(spans) /\ Len(r) = Len(spans)
<1> DEFINE all == Candidates(t, names)
           spans == CollectSpansFiltered(t, names)
           n == Len(spans)
           B == Bijection(DOMAIN spans, Range(spans))
           Asc(r) == \A i, j \in DOMAIN r : i < j => r[i].s <= r[j].s
           r == CHOOSE r \in B : Asc(r)
<1>1. /\ Settled(all, spans, Len(all)) /\ Distinct(spans)
      /\ \A i \in DOMAIN spans : Lies(spans[i], t)
  BY SpansSettled, Zenon
<1>2. ByStart(spans) = r
  BY Zenon DEF ByStart
<1> HIDE DEF all, spans
<1>3. spans \in Seq(Span) /\ \A i, j \in DOMAIN spans : i # j => ~Overlap(spans[i], spans[j])
  BY <1>1, Zenon DEF Settled
<1>4. n \in Nat /\ DOMAIN spans = 1 .. n /\ spans \in [1 .. n -> Span]
  BY <1>3
<1>5. t.size \in Nat
  BY Zenon DEF Text
<1>6. Once(spans, n) /\ Below(spans, n, t.size)
  <2>1. Once(spans, n)
    BY <1>1, <1>4, Zenon DEF Distinct, Once
  <2>2. ASSUME NEW m, Lies(m, t) PROVE m.s <= t.size
    BY <1>5, <2>2 DEF Lies, Span
  <2>3. QED
    BY <1>1, <1>4, <2>1, <2>2, Zenon DEF Below
<1>7. PICK q : Sorts(q, spans, n)
  <2> HIDE DEF n
  <2> QED BY <1>4, <1>5, <1>6, SortExists, Zenon
<1>8. DOMAIN q = 1 .. n
  BY <1>7, Zenon DEF Sorts
<1>9. \A i \in 1 .. n : q[i] \in Range(spans)
  BY <1>4, <1>7, Zenon DEF Sorts, Range
<1>10. q \in [1 .. n -> Range(spans)]
  BY <1>7, <1>8, <1>9, Zenon DEF Sorts
<1>11. \A x \in Range(spans) : \E i \in 1 .. n : q[i] = x
  <2> SUFFICES ASSUME NEW x \in Range(spans) PROVE \E i \in 1 .. n : q[i] = x
    BY Zenon
  <2>1. PICK j \in 1 .. n : spans[j] = x
    BY <1>4, Zenon DEF Range
  <2>2. QED
    BY <1>7, <2>1, Zenon DEF Sorts
<1>12. \A i, j \in 1 .. n : q[i] = q[j] => i = j
  BY <1>7, Zenon DEF Sorts
<1>13. q \in B
  BY <1>4, <1>8, <1>10, <1>11, <1>12, Zenon
     DEF Bijection, Injection, Surjection, IsInjective
<1>14. Asc(q)
  BY <1>7, <1>8, Zenon DEF Sorts
<1>15. r \in B /\ Asc(r)
  BY <1>13, <1>14, Zenon
<1> HIDE DEF r
<1>16. /\ r \in [1 .. n -> Range(spans)] /\ DOMAIN r = 1 .. n
       /\ \A i, j \in 1 .. n : r[i] = r[j] => i = j
       /\ \A x \in Range(spans) : \E i \in 1 .. n : r[i] = x
  BY <1>4, <1>15, Zenon DEF Bijection, Injection, Surjection, IsInjective
<1>17. Range(r) = Range(spans)
  <2>1. \A x : x \in Range(r) <=> \E i \in 1 .. n : r[i] = x
    BY <1>16, Zenon DEF Range
  <2>2. \A i \in 1 .. n : r[i] \in Range(spans)
    BY <1>16, Zenon
  <2>3. QED
    <3>1. \A x : x \in Range(r) => x \in Range(spans)
      BY <2>1, <2>2, Zenon
    <3>2. \A x : x \in Range(spans) => x \in Range(r)
      BY <1>16, <2>1, Zenon
    <3>3. QED
      BY <3>1, <3>2, Zenon
<1>18. \A i \in 1 .. n : \E g \in 1 .. n : r[i] = spans[g]
  <2> SUFFICES ASSUME NEW i \in 1 .. n PROVE \E g \in 1 .. n : r[i] = spans[g]
    BY Zenon
  <2>1. r[i] \in Range(spans)
    BY <1>16, Zenon
  <2>2. QED
    BY <1>4, <2>1, Zenon DEF Range
<1>19. \A i \in 1 .. n : Lies(r[i], t)
  BY <1>1, <1>4, <1>18, Zenon
<1>20. r \in [1 .. n -> Span]
  BY <1>16, <1>19, Zenon DEF Lies
<1>21. r \in Seq(Span) /\ Len(r) = n
  BY <1>4, <1>20, IsSeq, Zenon
<1>22. ASSUME NEW i \in 1 .. n, NEW j \in 1 .. n, i < j PROVE r[i].e <= r[j].s
  <2>1. i # j
    BY <1>22
  <2>2. PICK g \in 1 .. n : r[i] = spans[g]
    BY <1>18, Zenon
  <2>3. PICK h \in 1 .. n : r[j] = spans[h]
    BY <1>18, Zenon
  <2>4. g # h
    BY <1>16, <2>1, <2>2, <2>3, Zenon
  <2>5. ~Overlap(r[i], r[j])
    BY <1>3, <1>4, <2>2, <2>3, <2>4, Zenon
  <2>6. r[i].s <= r[j].s
    BY <1>15, <1>16, <1>22, Zenon
  <2>7. Lies(r[i], t) /\ Lies(r[j], t)
    BY <1>19, Zenon
  <2>8. ASSUME NEW x, NEW y, Lies(x, t), Lies(y, t), x.s <= y.s, ~Overlap(x, y)
        PROVE  x.e <= y.s
    BY <2>8 DEF Lies, Span, Overlap
  <2>9. QED
    BY <2>5, <2>6, <2>7, <2>8, Zenon
<1>23. Line(r, t)
  BY <1>19, <1>21, <1>22, Zenon DEF Line
<1>24. QED
  BY <1>2, <1>17, <1>21, <1>23, Zenon DEF spans

-----------------------------------------------------------------------------
(* Replacing parts of a text, right to left.                                  *)

\* One symbol per sequence.
LEMMA FlattenSingles ==
  ASSUME NEW X, NEW ss \in Seq(Seq(X)), NEW x \in Seq(X), Len(x) = Len(ss),
         \A i \in 1 .. Len(ss) : ss[i] = <<x[i]>>
  PROVE  FlattenSeq(ss) = x
<1> DEFINE n == Len(ss)
<1>1. n \in Nat /\ \A k \in 0 .. n : SubSeq(x, 1, k) \in Seq(X)
  OBVIOUS
<1>2. PICK f \in [0 .. n -> Seq(X)] : Flattens(f, ss) /\ FlattenSeq(ss) = f[n]
  BY FlattenLoop, Zenon
<1> DEFINE P(k) == k <= n => f[k] = SubSeq(x, 1, k)
<1>3. P(0)
  <2>1. SubSeq(x, 1, 0) = << >>
    OBVIOUS
  <2>2. QED
    BY <1>2, <2>1, Zenon DEF Flattens
<1>4. ASSUME NEW k \in Nat, P(k) PROVE P(k + 1)
  <2> SUFFICES ASSUME k + 1 <= n PROVE f[k + 1] = SubSeq(x, 1, k + 1)
    BY Zenon
  <2>1. k + 1 \in 1 .. n /\ (k + 1) - 1 = k /\ k <= n
    BY <1>1
  <2>2. f[k + 1] = SubSeq(x, 1, k) \o <<x[k + 1]>>
    BY <1>2, <1>4, <2>1, Zenon DEF Flattens
  <2>3. SubSeq(x, 1, k) \o <<x[k + 1]>> = SubSeq(x, 1, k + 1)
    BY <2>1
  <2>4. QED
    BY <2>2, <2>3, Zenon
<1>5. \A k \in Nat : P(k)
  <2> HIDE DEF P
  <2> DEFINE T == {k \in Nat : P(k)}
  <2>1. 0 \in T /\ \A k \in Nat : k \in T => k + 1 \in T
    BY <1>3, <1>4
  <2> HIDE DEF T
  <2>2. \A k \in Nat : k \in T
    BY <2>1, Inductive, Zenon
  <2>3. QED
    BY <2>2, Zenon DEF T
<1>6. n <= n /\ SubSeq(x, 1, n) = x
  BY <1>1
<1>7. QED
  BY <1>1, <1>2, <1>5, <1>6, Zenon

\* Empty sequences only.
LEMMA FlattenEmpties ==
  ASSUME NEW X, NEW ss \in Seq(Seq(X)), \A i \in 1 .. Len(ss) : ss[i] = << >>
  PROVE  FlattenSeq(ss) = << >>
<1>1. FlattenSeq(ss) \in Seq(X)
  BY FlattenType, Zenon
<1>2. DOMAIN ss = 1 .. Len(ss)
  OBVIOUS
<1>3. \A x : ~Has(FlattenSeq(ss), x)
  <2> SUFFICES ASSUME NEW x, Has(FlattenSeq(ss), x) PROVE FALSE
    BY Zenon
  <2>1. PICK i \in DOMAIN ss : Has(ss[i], x)
    BY FlattenHas, Zenon
  <2>2. Has(<< >>, x)
    BY <1>2, <2>1, Zenon
  <2>3. QED
    BY <2>2 DEF Has
<1>4. ASSUME NEW s \in Seq(X), s # << >> PROVE \E x : Has(s, x)
  <2>1. 1 \in DOMAIN s
    BY <1>4
  <2>2. QED
    BY <2>1, Zenon DEF Has
<1>5. QED
  BY <1>1, <1>3, <1>4, Zenon

\* One sequence and then empty ones.
LEMMA FlattenFirst ==
  ASSUME NEW X, NEW ss \in Seq(Seq(X)), Len(ss) > 0, \A i \in 2 .. Len(ss) : ss[i] = << >>
  PROVE  FlattenSeq(ss) = ss[1]
<1> DEFINE b == SubSeq(ss, 2, Len(ss))
<1>1. /\ b \in Seq(Seq(X)) /\ <<ss[1]>> \in Seq(Seq(X)) /\ ss[1] \in Seq(X)
      /\ ss = <<ss[1]>> \o b /\ \A i \in 1 .. Len(b) : b[i] = ss[i + 1] /\ i + 1 \in 2 .. Len(ss)
  OBVIOUS
<1> HIDE DEF b
<1>2. FlattenSeq(b) = << >>
  BY <1>1, FlattenEmpties, Zenon
<1>3. FlattenSeq(<<ss[1]>>) = ss[1]
  BY <1>1, FlattenOne, Zenon
<1>4. FlattenSeq(<<ss[1]>> \o b) = ss[1] \o << >>
  <2>1. FlattenSeq(<<ss[1]>> \o b) = FlattenSeq(<<ss[1]>>) \o FlattenSeq(b)
    BY <1>1, FlattenConcat, Zenon
  <2>2. QED
    BY <1>2, <1>3, <2>1, Zenon
<1>5. ss[1] \o << >> = ss[1]
  BY <1>1
<1>6. QED
  BY <1>1, <1>4, <1>5, Zenon

\* One sequence after another, by their elements.
Joins(u, v, z) ==
  /\ Len(z) = Len(u) + Len(v)
  /\ \A i \in 1 .. Len(u) : z[i] = u[i]
  /\ \A i \in 1 .. Len(v) : z[Len(u) + i] = v[i]

\* A sequence that reads as u and then v is their concatenation.
LEMMA JoinIs ==
  ASSUME NEW X, NEW u \in Seq(X), NEW v \in Seq(X), NEW z \in Seq(X), Joins(u, v, z)
  PROVE  u \o v = z
<1> USE DEF Joins
<1> DEFINE w == u \o v
<1>1. w \in Seq(X) /\ Len(w) = Len(u) + Len(v) /\ Len(u) \in Nat /\ Len(v) \in Nat
  OBVIOUS
<1>2. \A i \in 1 .. Len(u) : w[i] = u[i]
  OBVIOUS
<1>3. \A i \in 1 .. Len(v) : w[Len(u) + i] = v[i]
  OBVIOUS
<1> HIDE DEF w
<1>4. ASSUME NEW i \in 1 .. Len(w) PROVE w[i] = z[i]
  <2>1. CASE i \in 1 .. Len(u)
    BY <1>2, <2>1, Zenon
  <2>2. CASE i \notin 1 .. Len(u)
    <3> DEFINE j == i - Len(u)
    <3>1. j \in 1 .. Len(v) /\ i = Len(u) + j
      BY <1>1, <2>2
    <3> HIDE DEF j
    <3>2. QED
      BY <1>3, <3>1, Zenon
  <2>3. QED
    BY <2>1, <2>2, Zenon
<1>5. w = z
  BY <1>1, <1>4
<1>6. QED
  BY <1>5, Zenon DEF w

\* The parts of a sequence.
LEMMA HeadAndTail ==
  ASSUME NEW X, NEW a \in Seq(X), NEW w \in Seq(X)
  PROVE  /\ SubSeq(a \o w, 1, Len(a)) = a
         /\ SubSeq(a \o w, Len(a) + 1, Len(a \o w)) = w
<1> DEFINE s == a \o w
<1>1. s \in Seq(X) /\ Len(s) = Len(a) + Len(w) /\ Len(a) \in Nat /\ Len(w) \in Nat
  OBVIOUS
<1>2. \A i \in 1 .. Len(w) : s[Len(a) + i] = w[i]
  OBVIOUS
<1>3. \A i \in 1 .. Len(a) : s[i] = a[i]
  OBVIOUS
<1> HIDE DEF s
<1>4. SubSeq(s, 1, Len(a)) = a
  BY <1>1, <1>3
<1>5. SubSeq(s, Len(a) + 1, Len(s)) = w
  <2> DEFINE z == SubSeq(s, Len(a) + 1, Len(s))
  <2>1. z \in Seq(X) /\ Len(z) = Len(w)
    BY <1>1
  <2>2. ASSUME NEW i \in 1 .. Len(w) PROVE z[i] = w[i]
    <3>1. z[i] = s[i + (Len(a) + 1) - 1] /\ i + (Len(a) + 1) - 1 = Len(a) + i
      BY <1>1, <2>2
    <3>2. QED
      BY <1>2, <3>1, Zenon
  <2> HIDE DEF z
  <2>3. z = w
    BY <2>1, <2>2
  <2>4. QED
    BY <2>3, Zenon DEF z
<1>6. QED
  BY <1>4, <1>5, Zenon DEF s

\* A sequence is its parts up to a, from a to b and from b on, one after another.
LEMMA Halves ==
  ASSUME NEW X, NEW s \in Seq(X), NEW a \in Nat, NEW b \in Nat, a <= b, b <= Len(s)
  PROVE  /\ SubSeq(s, 1, a) \in Seq(X) /\ SubSeq(s, a + 1, b) \in Seq(X)
         /\ SubSeq(s, b + 1, Len(s)) \in Seq(X)
         /\ SubSeq(s, 1, a) \o SubSeq(s, a + 1, Len(s)) = s
         /\ SubSeq(s, a + 1, b) \o SubSeq(s, b + 1, Len(s)) = SubSeq(s, a + 1, Len(s))
<1>1. SubSeq(s, 1, a) \in Seq(X)
  OBVIOUS
<1>2. SubSeq(s, a + 1, b) \in Seq(X)
  OBVIOUS
<1>3. SubSeq(s, b + 1, Len(s)) \in Seq(X)
  OBVIOUS
<1>4. SubSeq(s, 1, a) \o SubSeq(s, a + 1, Len(s)) = s
  <2> DEFINE u == SubSeq(s, 1, a)
             v == SubSeq(s, a + 1, Len(s))
  <2>1. /\ u \in Seq(X) /\ Len(u) = a /\ v \in Seq(X) /\ Len(v) = Len(s) - a
        /\ \A i \in 1 .. a : u[i] = s[i]
    OBVIOUS
  <2>2. \A i \in 1 .. Len(s) - a : v[i] = s[a + i]
    OBVIOUS
  <2> HIDE DEF u, v
  <2>3. Len(s) = Len(u) + Len(v)
    BY <2>1
  <2>4. (\A i \in 1 .. Len(u) : s[i] = u[i]) /\ \A i \in 1 .. Len(v) : s[Len(u) + i] = v[i]
    BY <2>1, <2>2, Zenon
  <2>5. u \o v = s
    <3>1. Joins(u, v, s)
      BY <2>3, <2>4, Zenon DEF Joins
    <3>2. QED
      BY <2>1, <3>1, JoinIs, Zenon
  <2>6. QED
    BY <2>5, Zenon DEF u, v
<1>5. SubSeq(s, a + 1, b) \o SubSeq(s, b + 1, Len(s)) = SubSeq(s, a + 1, Len(s))
  <2> DEFINE u == SubSeq(s, a + 1, b)
             v == SubSeq(s, b + 1, Len(s))
             z == SubSeq(s, a + 1, Len(s))
  <2>1. /\ u \in Seq(X) /\ Len(u) = b - a /\ v \in Seq(X) /\ Len(v) = Len(s) - b
        /\ z \in Seq(X) /\ Len(z) = Len(s) - a
    OBVIOUS
  <2>2. \A i \in 1 .. b - a : u[i] = s[a + i]
    OBVIOUS
  <2>3. \A i \in 1 .. Len(s) - b : v[i] = s[b + i]
    OBVIOUS
  <2>4. \A i \in 1 .. Len(s) - a : z[i] = s[a + i]
    OBVIOUS
  <2> HIDE DEF u, v, z
  <2>5. Len(z) = Len(u) + Len(v)
    BY <2>1
  <2>6. /\ \A i \in 1 .. b - a : i \in 1 .. Len(s) - a
        /\ \A i \in 1 .. Len(s) - b : (b - a) + i \in 1 .. Len(s) - a /\ a + ((b - a) + i) = b + i
    OBVIOUS
  <2>7. u \o v = z
    <3>1. \A i \in 1 .. Len(u) : z[i] = u[i]
      BY <2>1, <2>2, <2>4, <2>6, Zenon
    <3>2. \A i \in 1 .. Len(v) : z[Len(u) + i] = v[i]
      BY <2>1, <2>3, <2>4, <2>6, Zenon
    <3>3. Joins(u, v, z)
      BY <2>5, <3>1, <3>2, Zenon DEF Joins
    <3>4. QED
      BY <2>1, <3>3, JoinIs, Zenon
  <2>8. QED
    BY <2>7, Zenon DEF u, v, z
<1>6. QED
  BY <1>1, <1>2, <1>3, <1>4, <1>5, Zenon

\* Three parts of a sequence, flattened one by one.
LEMMA FlattenParts ==
  ASSUME NEW X, NEW ss \in Seq(Seq(X)), NEW a \in Nat, NEW b \in Nat, a <= b, b <= Len(ss)
  PROVE  FlattenSeq(ss) =
           FlattenSeq(SubSeq(ss, 1, a))
             \o (FlattenSeq(SubSeq(ss, a + 1, b)) \o FlattenSeq(SubSeq(ss, b + 1, Len(ss))))
<1> DEFINE u == SubSeq(ss, 1, a)
           v == SubSeq(ss, a + 1, b)
           w == SubSeq(ss, b + 1, Len(ss))
<1>1. u \in Seq(Seq(X)) /\ v \in Seq(Seq(X)) /\ w \in Seq(Seq(X))
  BY Halves, Zenon
<1>2. v \o w = SubSeq(ss, a + 1, Len(ss))
  BY Halves, Zenon
<1>3. u \o SubSeq(ss, a + 1, Len(ss)) = ss
  BY Halves, Zenon
<1> HIDE DEF u, v, w
<1>4. v \o w \in Seq(Seq(X))
  BY <1>1
<1>5. FlattenSeq(v \o w) = FlattenSeq(v) \o FlattenSeq(w)
  BY <1>1, FlattenConcat, Zenon
<1>6. FlattenSeq(u \o (v \o w)) = FlattenSeq(u) \o FlattenSeq(v \o w)
  BY <1>1, <1>4, FlattenConcat, Zenon
<1>7. QED
  BY <1>2, <1>3, <1>5, <1>6, Zenon DEF u, v, w

\* replace_range on a text of three parts.
Middle(a, v, w, m, c) == ReplaceRange(a \o (v \o w), m, c) = a \o (<<c>> \o w)

\* replace_range of the middle part by one symbol keeps the parts around it.
LEMMA ReplaceMiddle ==
  ASSUME NEW X, NEW a \in Seq(X), NEW v \in Seq(X), NEW w \in Seq(X), NEW c \in X, NEW m \in Span,
         Len(a) = m.s, Len(a) + Len(v) = m.e
  PROVE  Middle(a, v, w, m, c)
<1> DEFINE out == a \o (v \o w)
           av == a \o v
<1>1. SubSeq(out, 1, Len(a)) = a
  <2>1. v \o w \in Seq(X)
    BY ConcatType, Zenon
  <2>2. QED
    BY <2>1, HeadAndTail, Zenon
<1>2. out = av \o w /\ av \in Seq(X) /\ Len(av) = Len(a) + Len(v)
  <2>1. Assoc(a, v, w)
    BY ConcatAssoc, Zenon
  <2>2. av \in Seq(X) /\ Len(av) = Len(a) + Len(v)
    BY ConcatType, Zenon
  <2>3. QED
    BY <2>1, <2>2, Zenon DEF Assoc
<1>3. (a \o <<c>>) \o w = a \o (<<c>> \o w)
  <2>1. <<c>> \in Seq(X)
    OBVIOUS
  <2>2. Assoc(a, <<c>>, w)
    BY <2>1, ConcatAssoc, Zenon
  <2>3. QED
    BY <2>2, Zenon DEF Assoc
<1> HIDE DEF out, av
<1>4. SubSeq(av \o w, Len(av) + 1, Len(av \o w)) = w
  BY <1>2, HeadAndTail, Zenon
<1>5. SubSeq(out, m.e + 1, Len(out)) = w
  BY <1>2, <1>4, Zenon
<1>6. ReplaceRange(out, m, c) = a \o <<c>> \o w
  BY <1>1, <1>5, Zenon DEF ReplaceRange
<1>7. QED
  BY <1>3, <1>6, Zenon DEF out, Middle

\* The symbols of an output: bytes, marks and tokens.
Symbol == (Names \cup {"text", "unrecoverable"}) \X Nat

\* Position p is one of the span, or its first.
Inside(m, p) == m.s < p /\ p <= m.e

\* Byte p is the first one of span m.
StartsAt(m, p) == m.s + 1 = p

\* One text for each span.
Marks(mk, r) == mk \in [1 .. Len(r) -> Seq(Symbol)]

\* g shows t byte by byte, the spans from the k-th on replaced by their marks.
Shows(g, t, r, mk, k) ==
  /\ g \in [1 .. t.size -> Seq(Symbol)]
  /\ \A p \in 1 .. t.size :
       /\ \A i \in k .. Len(r) : StartsAt(r[i], p) => g[p] = mk[i]
       /\ \A i \in k .. Len(r) : Inside(r[i], p) /\ ~StartsAt(r[i], p) => g[p] = << >>
       /\ (\A i \in k .. Len(r) : ~Inside(r[i], p)) => g[p] = << <<"text", p>> >>

\* What it means for spans to lie in a line: they are in range, in order, distinct,
\* and no byte belongs to two of them.
LEMMA LineFacts ==
  ASSUME NEW t, Text(t), NEW r, Line(r, t)
  PROVE  /\ Len(r) \in Nat /\ t.size \in Nat /\ r \in Seq(Span) /\ DOMAIN r = 1 .. Len(r)
         /\ \A i \in 1 .. Len(r) :
              /\ r[i] \in Span /\ r[i].s \in Nat /\ r[i].e \in Nat
              /\ r[i].s < r[i].e /\ r[i].e <= t.size
         /\ \A i, j \in 1 .. Len(r) : i < j => r[i].e <= r[j].s
         /\ \A i \in 1 .. Len(r), p \in 1 .. t.size : StartsAt(r[i], p) => Inside(r[i], p)
         /\ \A i, j \in 1 .. Len(r), p \in 1 .. t.size :
              Inside(r[i], p) /\ Inside(r[j], p) => i = j
         /\ \A i, j \in 1 .. Len(r) : r[i] = r[j] => i = j
<1>1. Len(r) \in Nat /\ t.size \in Nat /\ r \in Seq(Span) /\ DOMAIN r = 1 .. Len(r)
  BY DEF Line, Text
<1>2. \A i \in 1 .. Len(r) : r[i] \in Span /\ r[i].s < r[i].e /\ r[i].e <= t.size
  BY Zenon DEF Line, Lies
<1>3. \A i \in 1 .. Len(r) : r[i].s \in Nat /\ r[i].e \in Nat
  BY Zenon, <1>2 DEF Span
<1>4. \A i, j \in 1 .. Len(r) : i < j => r[i].e <= r[j].s
  BY Zenon DEF Line
<1>5. ASSUME NEW i \in 1 .. Len(r), NEW p \in 1 .. t.size, StartsAt(r[i], p) PROVE Inside(r[i], p)
  BY <1>1, <1>2, <1>3, <1>5 DEF StartsAt, Inside
<1>6. ASSUME NEW i \in 1 .. Len(r), NEW j \in 1 .. Len(r), NEW p \in 1 .. t.size,
             Inside(r[i], p), Inside(r[j], p)
      PROVE  i = j
  <2>1. ~(i < j)
    BY <1>1, <1>3, <1>4, <1>6 DEF Inside
  <2>2. ~(j < i)
    BY <1>1, <1>3, <1>4, <1>6 DEF Inside
  <2>3. QED
    BY <1>1, <2>1, <2>2
<1>7. ASSUME NEW i \in 1 .. Len(r), NEW j \in 1 .. Len(r), r[i] = r[j] PROVE i = j
  <2>1. r[i].s + 1 \in 1 .. t.size /\ Inside(r[i], r[i].s + 1)
    BY <1>1, <1>2, <1>3 DEF Inside
  <2>2. Inside(r[j], r[i].s + 1)
    BY <1>7, <2>1, Zenon
  <2>3. QED
    BY <1>6, <2>1, <2>2, Zenon
<1>8. QED
  BY <1>1, <1>2, <1>3, <1>4, <1>5, <1>6, <1>7, Zenon

\* Only one sequence of pieces shows a content.
LEMMA ShowsUnique ==
  ASSUME NEW t, NEW r, NEW mk, NEW k, NEW g, NEW h, Shows(g, t, r, mk, k), Shows(h, t, r, mk, k)
  PROVE  g = h
<1>1. g \in [1 .. t.size -> Seq(Symbol)] /\ h \in [1 .. t.size -> Seq(Symbol)]
  BY Zenon DEF Shows
<1>2. ASSUME NEW p \in 1 .. t.size PROVE g[p] = h[p]
  <2>1. CASE \A i \in k .. Len(r) : ~Inside(r[i], p)
    BY <2>1, Zenon DEF Shows
  <2>2. CASE \E i \in k .. Len(r) : Inside(r[i], p)
    <3>1. PICK i \in k .. Len(r) : Inside(r[i], p)
      BY <2>2, Zenon
    <3>2. CASE StartsAt(r[i], p)
      BY <3>2, Zenon DEF Shows
    <3>3. CASE ~StartsAt(r[i], p)
      BY <3>1, <3>3, Zenon DEF Shows
    <3>4. QED
      BY <3>2, <3>3, Zenon
  <2>3. QED
    BY <2>1, <2>2, Zenon
<1>3. g = [p \in 1 .. t.size |-> g[p]] /\ h = [p \in 1 .. t.size |-> h[p]]
  BY <1>1, Zenon
<1>4. QED
  BY <1>2, <1>3, Zenon

\* The pieces.
Pieces(t, r, mk, k) ==
  [p \in 1 .. t.size |->
    IF \E i \in k .. Len(r) : StartsAt(r[i], p) THEN mk[CHOOSE i \in k .. Len(r) : StartsAt(r[i], p)]
    ELSE IF \E i \in k .. Len(r) : Inside(r[i], p) THEN << >>
    ELSE << <<"text", p>> >>]

\* A byte of the content is a symbol of the output.
LEMMA TextSymbol == \A p \in Nat : <<"text", p>> \in Symbol /\ << <<"text", p>> >> \in Seq(Symbol)
<1>1. \A p \in Nat : <<"text", p>> \in Symbol
  BY Zenon DEF Symbol
<1>2. ASSUME NEW x \in Symbol PROVE <<x>> \in Seq(Symbol)
  <2> HIDE DEF Symbol
  <2> QED OBVIOUS
<1>3. QED
  BY <1>1, <1>2, Zenon

\* The pieces of a content show each span by its mark and every other byte as is.
LEMMA PiecesShow ==
  ASSUME NEW t, Text(t), NEW r, Line(r, t), NEW mk, Marks(mk, r), NEW k \in 1 .. Len(r) + 1
  PROVE  Shows(Pieces(t, r, mk, k), t, r, mk, k)
<1> DEFINE g == Pieces(t, r, mk, k)
           At(p) == CHOOSE i \in k .. Len(r) : StartsAt(r[i], p)
<1>1. Len(r) \in Nat /\ t.size \in Nat
  BY LineFacts, Zenon
<1>2. \A i \in k .. Len(r) : i \in 1 .. Len(r)
  BY <1>1
<1>3. /\ \A i \in k .. Len(r), p \in 1 .. t.size : StartsAt(r[i], p) => Inside(r[i], p)
      /\ \A i, j \in k .. Len(r), p \in 1 .. t.size :
              Inside(r[i], p) /\ Inside(r[j], p) => i = j
  BY <1>2, LineFacts, Zenon
<1>4. ASSUME NEW p \in 1 .. t.size, NEW i \in k .. Len(r), StartsAt(r[i], p)
      PROVE  g[p] = mk[i] /\ mk[i] \in Seq(Symbol)
  <2>1. At(p) \in k .. Len(r) /\ StartsAt(r[At(p)], p)
    BY <1>4, Zenon
  <2>2. g[p] = mk[At(p)]
    BY <1>4, Zenon DEF Pieces
  <2> HIDE DEF At, g
  <2>3. At(p) = i
    BY <1>3, <1>4, <2>1, Zenon
  <2>4. QED
    BY <1>2, <2>2, <2>3, Zenon DEF Marks
<1>5. ASSUME NEW p \in 1 .. t.size, NEW i \in k .. Len(r), Inside(r[i], p), ~StartsAt(r[i], p)
      PROVE  g[p] = << >>
  <2>1. ~\E j \in k .. Len(r) : StartsAt(r[j], p)
    <3> SUFFICES ASSUME NEW j \in k .. Len(r), StartsAt(r[j], p) PROVE FALSE
      BY Zenon
    <3>1. i = j
      BY <1>3, <1>5, Zenon
    <3>2. QED
      BY <1>5, <3>1, Zenon
  <2>2. QED
    BY <1>5, <2>1, Zenon DEF Pieces
<1>6. ASSUME NEW p \in 1 .. t.size, \A i \in k .. Len(r) : ~Inside(r[i], p)
      PROVE  g[p] = << <<"text", p>> >>
  BY <1>3, <1>6, Zenon DEF Pieces
<1>7. \A p \in 1 .. t.size : << <<"text", p>> >> \in Seq(Symbol)
  <2>1. \A p \in 1 .. t.size : p \in Nat
    BY <1>1
  <2>2. QED
    BY <2>1, TextSymbol, Zenon
<1>8. << >> \in Seq(Symbol)
  OBVIOUS
<1>9. ASSUME NEW p \in 1 .. t.size PROVE g[p] \in Seq(Symbol)
  <2> HIDE DEF g
  <2>1. CASE \A i \in k .. Len(r) : ~Inside(r[i], p)
    BY <1>6, <1>7, <2>1, Zenon
  <2>2. CASE \E i \in k .. Len(r) : Inside(r[i], p)
    BY <1>4, <1>5, <1>8, <2>2, Zenon
  <2>3. QED
    BY <2>1, <2>2, Zenon
<1>10. g \in [1 .. t.size -> Seq(Symbol)]
  <2>1. g = [p \in 1 .. t.size |-> g[p]]
    BY Zenon DEF Pieces
  <2> HIDE DEF g
  <2>2. QED
    BY <1>9, <2>1, Zenon
<1> HIDE DEF g
<1>11. QED
  BY <1>4, <1>5, <1>6, <1>10, Zenon DEF Shows, g

\* What LeftToRight reads.
LEMMA LeftShows ==
  ASSUME NEW t, Text(t), NEW r, Line(r, t), NEW mk, Marks(mk, r), NEW spans, spans = Range(r),
         NEW mark, \A i \in 1 .. Len(r) : mark[r[i]] = mk[i],
         NEW g, Shows(g, t, r, mk, 1)
  PROVE  LeftToRight(t, spans, mark) = FlattenSeq(g)
<1> DEFINE At(p) == CHOOSE m \in spans : m.s + 1 = p
           h == [p \in 1 .. t.size |->
                  IF \E m \in spans : m.s + 1 = p THEN mark[At(p)]
                  ELSE IF \E m \in spans : m.s < p /\ p <= m.e THEN << >>
                  ELSE << <<"text", p>> >>]
<1>1. LeftToRight(t, spans, mark) = FlattenSeq(h)
  BY Zenon DEF LeftToRight
<1>2. DOMAIN r = 1 .. Len(r)
  BY LineFacts, Zenon
<1>3. \A m : m \in spans <=> \E i \in 1 .. Len(r) : r[i] = m
  BY <1>2, Zenon DEF Range
<1>4. g \in [1 .. t.size -> Seq(Symbol)]
  BY Zenon DEF Shows
<1>5. ASSUME NEW p \in 1 .. t.size PROVE h[p] = g[p]
  <2>1. CASE \E m \in spans : m.s + 1 = p
    <3>1. At(p) \in spans /\ At(p).s + 1 = p
      BY <2>1, Zenon
    <3>2. h[p] = mark[At(p)]
      BY <2>1, Zenon
    <3> HIDE DEF At, h
    <3>3. PICK i \in 1 .. Len(r) : r[i] = At(p)
      BY <1>3, <3>1, Zenon
    <3>4. StartsAt(r[i], p)
      BY <3>1, <3>3, Zenon DEF StartsAt
    <3>5. g[p] = mk[i]
      BY <3>4, Zenon DEF Shows
    <3>6. QED
      BY <3>2, <3>3, <3>5, Zenon
  <2>2. CASE (~\E m \in spans : m.s + 1 = p) /\ \E m \in spans : m.s < p /\ p <= m.e
    <3>1. PICK m \in spans : m.s < p /\ p <= m.e
      BY <2>2, Zenon
    <3>2. PICK i \in 1 .. Len(r) : r[i] = m
      BY <1>3, Zenon
    <3>3. Inside(r[i], p) /\ ~StartsAt(r[i], p)
      BY <2>2, <3>1, <3>2, Zenon DEF Inside, StartsAt
    <3>4. g[p] = << >>
      BY <3>3, Zenon DEF Shows
    <3>5. QED
      BY <2>2, <3>4, Zenon
  <2>3. CASE (~\E m \in spans : m.s + 1 = p) /\ ~\E m \in spans : m.s < p /\ p <= m.e
    <3>1. \A i \in 1 .. Len(r) : ~Inside(r[i], p)
      BY <1>3, <2>3, Zenon DEF Inside
    <3>2. g[p] = << <<"text", p>> >>
      BY <3>1, Zenon DEF Shows
    <3>3. QED
      BY <2>3, <3>2, Zenon
  <2>4. QED
    BY <2>1, <2>2, <2>3, Zenon
<1>6. h = g
  <2>1. h = [p \in 1 .. t.size |-> h[p]]
    BY Zenon
  <2>2. g = [p \in 1 .. t.size |-> g[p]]
    BY <1>4, Zenon
  <2> HIDE DEF h
  <2>3. QED
    BY <1>5, <2>1, <2>2, Zenon
<1>7. QED
  BY <1>1, <1>6, Zenon

\* What a part of a sequence is.
IsPart(z, s, a, b, X) ==
  z \in Seq(X) /\ Len(z) = b - a /\ \A p \in 1 .. b - a : z[p] = s[a + p]

\* SubSeq takes the elements after a up to b.
LEMMA PartIs ==
  ASSUME NEW X, NEW s \in Seq(X), NEW a \in Nat, NEW b \in Nat, a <= b, b <= Len(s)
  PROVE  IsPart(SubSeq(s, a + 1, b), s, a, b, X)
<1>1. SubSeq(s, a + 1, b) \in Seq(X) /\ Len(SubSeq(s, a + 1, b)) = b - a
  OBVIOUS
<1>2. \A p \in 1 .. b - a : SubSeq(s, a + 1, b)[p] = s[a + p]
  OBVIOUS
<1>3. QED
  BY <1>1, <1>2, Zenon DEF IsPart

\* SubSeq from 1 takes the first a elements.
LEMMA PrefixIs ==
  ASSUME NEW X, NEW s \in Seq(X), NEW a \in Nat, a <= Len(s)
  PROVE  /\ SubSeq(s, 1, a) \in Seq(X) /\ Len(SubSeq(s, 1, a)) = a
         /\ \A p \in 1 .. a : SubSeq(s, 1, a)[p] = s[p]
<1>1. SubSeq(s, 1, a) \in Seq(X) /\ Len(SubSeq(s, 1, a)) = a
  OBVIOUS
<1>2. \A p \in 1 .. a : SubSeq(s, 1, a)[p] = s[p]
  OBVIOUS
<1>3. QED
  BY <1>1, <1>2, Zenon

\* The same elements, the same sequence.
LEMMA SeqEq ==
  ASSUME NEW X, NEW u \in Seq(X), NEW v \in Seq(X), Len(u) = Len(v),
         \A i \in 1 .. Len(u) : u[i] = v[i]
  PROVE  u = v
OBVIOUS

\* Pieces g and h show the same text but for the span m.
Replaced(g, h, m, c) == ReplaceRange(FlattenSeq(g), m, c) = FlattenSeq(h)

\* Replacing the k-th span shows one span more.
LEMMA ReplaceShows ==
  ASSUME NEW t, Text(t), NEW r, Line(r, t), NEW mk, Marks(mk, r), NEW k \in 1 .. Len(r),
         NEW c \in Symbol, mk[k] = <<c>>,
         NEW g, Shows(g, t, r, mk, k + 1), NEW h, Shows(h, t, r, mk, k)
  PROVE  Replaced(g, h, r[k], c)
<1> DEFINE a == r[k].s
           b == r[k].e
           n == t.size
<1>1. /\ Len(r) \in Nat /\ n \in Nat /\ a \in Nat /\ b \in Nat /\ a < b /\ b <= n /\ r[k] \in Span
      /\ \A j \in k + 1 .. Len(r) : j \in k .. Len(r) /\ r[j].s \in Nat /\ b <= r[j].s
      /\ k \in k .. Len(r) /\ \A j \in k .. Len(r) : j = k \/ j \in k + 1 .. Len(r)
  <2>1. Len(r) \in Nat /\ n \in Nat /\ r[k] \in Span /\ a \in Nat /\ b \in Nat /\ a < b /\ b <= n
    BY LineFacts, Zenon
  <2>2. \A j \in k + 1 .. Len(r) : j \in 1 .. Len(r) /\ k < j /\ j \in k .. Len(r)
    BY <2>1
  <2>3. \A j \in k + 1 .. Len(r) : r[j].s \in Nat /\ b <= r[j].s
    BY <2>2, LineFacts, Zenon
  <2>4. k \in k .. Len(r) /\ \A j \in k .. Len(r) : j = k \/ j \in k + 1 .. Len(r)
    BY <2>1
  <2>5. QED
    BY <2>1, <2>2, <2>3, <2>4, Zenon
<1>2. g \in Seq(Seq(Symbol)) /\ Len(g) = n /\ h \in Seq(Seq(Symbol)) /\ Len(h) = n
  <2>1. g \in [1 .. n -> Seq(Symbol)] /\ h \in [1 .. n -> Seq(Symbol)]
    BY Zenon DEF Shows
  <2>2. QED
    BY <1>1, <2>1, IsSeq, Zenon
<1>3. ASSUME NEW p \in 1 .. b PROVE p \in 1 .. n /\ g[p] = << <<"text", p>> >>
  <2>1. p \in 1 .. n /\ \A j \in k + 1 .. Len(r) : ~Inside(r[j], p)
    BY <1>1 DEF Inside
  <2>2. QED
    BY <2>1, Zenon DEF Shows
<1>4. ASSUME NEW p \in 1 .. a PROVE h[p] = << <<"text", p>> >>
  <2>1. p \in 1 .. n /\ ~Inside(r[k], p) /\ p \in 1 .. b
    BY <1>1 DEF Inside
  <2>2. \A j \in k + 1 .. Len(r) : ~Inside(r[j], p)
    BY <1>1, <2>1 DEF Inside
  <2>3. \A j \in k .. Len(r) : ~Inside(r[j], p)
    BY <1>1, <2>1, <2>2, Zenon
  <2>4. QED
    BY <2>1, <2>3, Zenon DEF Shows
<1>5. h[a + 1] = <<c>>
  <2>1. a + 1 \in 1 .. n /\ StartsAt(r[k], a + 1)
    BY <1>1 DEF StartsAt
  <2>2. QED
    BY <1>1, <2>1, Zenon DEF Shows
<1>6. ASSUME NEW p \in a + 2 .. b PROVE h[p] = << >>
  <2>1. p \in 1 .. n /\ Inside(r[k], p) /\ ~StartsAt(r[k], p)
    BY <1>1 DEF Inside, StartsAt
  <2>2. QED
    BY <1>1, <2>1, Zenon DEF Shows
<1>7. ASSUME NEW p \in b + 1 .. n PROVE g[p] = h[p]
  <2>1. p \in 1 .. n /\ ~Inside(r[k], p)
    BY <1>1 DEF Inside
  <2>2. CASE \A j \in k + 1 .. Len(r) : ~Inside(r[j], p)
    <3>1. \A j \in k .. Len(r) : ~Inside(r[j], p)
      BY <1>1, <2>1, <2>2, Zenon
    <3>2. QED
      BY <2>1, <2>2, <3>1, Zenon DEF Shows
  <2>3. CASE \E j \in k + 1 .. Len(r) : Inside(r[j], p)
    <3>1. PICK j \in k + 1 .. Len(r) : Inside(r[j], p)
      BY <2>3, Zenon
    <3>2. j \in k .. Len(r)
      BY <1>1, Zenon
    <3>3. CASE StartsAt(r[j], p)
      BY <2>1, <3>2, <3>3, Zenon DEF Shows
    <3>4. CASE ~StartsAt(r[j], p)
      BY <2>1, <3>1, <3>2, <3>4, Zenon DEF Shows
    <3>5. QED
      BY <3>3, <3>4, Zenon
  <2>4. QED
    BY <2>2, <2>3, Zenon
<1> DEFINE gu == SubSeq(g, 1, a)
           gv == SubSeq(g, a + 1, b)
           gw == SubSeq(g, b + 1, n)
           hu == SubSeq(h, 1, a)
           hv == SubSeq(h, a + 1, b)
           hw == SubSeq(h, b + 1, n)
           x == [p \in 1 .. a |-> <<"text", p>>]
           y == [p \in 1 .. b - a |-> <<"text", a + p>>]
<1>8. /\ FlattenSeq(g) = FlattenSeq(gu) \o (FlattenSeq(gv) \o FlattenSeq(gw))
      /\ FlattenSeq(h) = FlattenSeq(hu) \o (FlattenSeq(hv) \o FlattenSeq(hw))
  <2>1. a <= b
    BY <1>1
  <2> HIDE DEF a, b, n
  <2>2. a \in Nat /\ b \in Nat /\ b <= Len(g) /\ b <= Len(h)
    BY <1>1, <1>2, Zenon
  <2>3. FlattenSeq(g) = FlattenSeq(SubSeq(g, 1, a))
          \o (FlattenSeq(SubSeq(g, a + 1, b)) \o FlattenSeq(SubSeq(g, b + 1, Len(g))))
    BY <1>2, <2>1, <2>2, FlattenParts, Zenon
  <2>4. FlattenSeq(h) = FlattenSeq(SubSeq(h, 1, a))
          \o (FlattenSeq(SubSeq(h, a + 1, b)) \o FlattenSeq(SubSeq(h, b + 1, Len(h))))
    BY <1>2, <2>1, <2>2, FlattenParts, Zenon
  <2>5. QED
    BY <1>2, <2>3, <2>4, Zenon
<1> HIDE DEF a, b, n
<1>9. a <= b /\ b <= n /\ n <= n /\ a <= n
  BY <1>1
<1>10. /\ gu \in Seq(Seq(Symbol)) /\ Len(gu) = a /\ \A p \in 1 .. a : gu[p] = g[p]
       /\ gv \in Seq(Seq(Symbol)) /\ Len(gv) = b - a /\ \A p \in 1 .. b - a : gv[p] = g[a + p]
       /\ gw \in Seq(Seq(Symbol)) /\ Len(gw) = n - b /\ \A p \in 1 .. n - b : gw[p] = g[b + p]
  <2>1. SubSeq(g, 1, a) \in Seq(Seq(Symbol)) /\ Len(SubSeq(g, 1, a)) = a
        /\ \A p \in 1 .. a : SubSeq(g, 1, a)[p] = g[p]
    BY <1>1, <1>2, <1>9, PrefixIs, Zenon
  <2>2. IsPart(SubSeq(g, a + 1, b), g, a, b, Seq(Symbol))
    BY <1>1, <1>2, <1>9, PartIs, Zenon
  <2>3. IsPart(SubSeq(g, b + 1, n), g, b, n, Seq(Symbol))
    BY <1>1, <1>2, <1>9, PartIs, Zenon
  <2>4. QED
    BY <2>1, <2>2, <2>3, Zenon DEF IsPart
<1>11. /\ hu \in Seq(Seq(Symbol)) /\ Len(hu) = a /\ \A p \in 1 .. a : hu[p] = h[p]
       /\ hv \in Seq(Seq(Symbol)) /\ Len(hv) = b - a /\ \A p \in 1 .. b - a : hv[p] = h[a + p]
       /\ hw \in Seq(Seq(Symbol)) /\ Len(hw) = n - b /\ \A p \in 1 .. n - b : hw[p] = h[b + p]
  <2>1. SubSeq(h, 1, a) \in Seq(Seq(Symbol)) /\ Len(SubSeq(h, 1, a)) = a
        /\ \A p \in 1 .. a : SubSeq(h, 1, a)[p] = h[p]
    BY <1>1, <1>2, <1>9, PrefixIs, Zenon
  <2>2. IsPart(SubSeq(h, a + 1, b), h, a, b, Seq(Symbol))
    BY <1>1, <1>2, <1>9, PartIs, Zenon
  <2>3. IsPart(SubSeq(h, b + 1, n), h, b, n, Seq(Symbol))
    BY <1>1, <1>2, <1>9, PartIs, Zenon
  <2>4. QED
    BY <2>1, <2>2, <2>3, Zenon DEF IsPart
<1>12. /\ \A p \in 1 .. a : p \in 1 .. b /\ p \in Nat
       /\ \A p \in 1 .. b - a : a + p \in 1 .. b /\ a + p \in Nat
       /\ \A p \in 1 .. n - b : b + p \in b + 1 .. n
       /\ b - a \in Nat /\ 1 \in 1 .. b - a /\ \A p \in 2 .. b - a : p \in 1 .. b - a /\ a + p \in a + 2 .. b
       /\ a + (b - a) = b /\ b - a > 0
  BY <1>1
<1>13. x \in Seq(Symbol) /\ Len(x) = a /\ y \in Seq(Symbol) /\ Len(y) = b - a
  <2>1. x \in [1 .. a -> Symbol]
    BY <1>12, TextSymbol, Zenon
  <2>2. y \in [1 .. b - a -> Symbol]
    BY <1>12, TextSymbol, Zenon
  <2> HIDE DEF x, y
  <2>3. QED
    BY <1>1, <1>12, <2>1, <2>2, IsSeq, Zenon
<1>14. /\ \A p \in 1 .. a : gu[p] = <<x[p]>> /\ hu[p] = <<x[p]>>
       /\ \A p \in 1 .. b - a : gv[p] = <<y[p]>>
  BY <1>3, <1>4, <1>10, <1>11, <1>12, Zenon
<1>15. \A p \in 1 .. n - b : gw[p] = hw[p]
  <2> SUFFICES ASSUME NEW p \in 1 .. n - b PROVE gw[p] = hw[p]
    BY Zenon
  <2>1. g[b + p] = h[b + p]
    BY <1>7, <1>12, Zenon
  <2>2. gw[p] = g[b + p] /\ hw[p] = h[b + p]
    BY <1>10, <1>11, Zenon
  <2>3. QED
    BY <2>1, <2>2, Zenon
<1>16. hv[1] = <<c>> /\ \A p \in 2 .. b - a : hv[p] = << >>
  BY <1>5, <1>6, <1>11, <1>12, Zenon
<1> HIDE DEF gu, gv, gw, hu, hv, hw, x, y
<1>17. gw = hw
  BY <1>10, <1>11, <1>15, SeqEq, Zenon
<1>18. FlattenSeq(gu) = x
  BY <1>10, <1>13, <1>14, FlattenSingles, Zenon
<1>19. FlattenSeq(hu) = x
  BY <1>11, <1>13, <1>14, FlattenSingles, Zenon
<1>20. FlattenSeq(gv) = y
  BY <1>10, <1>13, <1>14, FlattenSingles, Zenon
<1>21. FlattenSeq(hv) = <<c>>
  BY <1>11, <1>12, <1>16, FlattenFirst, Zenon
<1>22. FlattenSeq(gw) \in Seq(Symbol)
  BY <1>10, FlattenType, Zenon
<1>23. Len(x) = r[k].s /\ Len(x) + Len(y) = r[k].e
  BY <1>12, <1>13, Zenon DEF a, b
<1>24. ReplaceRange(x \o (y \o FlattenSeq(gw)), r[k], c) = x \o (<<c>> \o FlattenSeq(gw))
  <2>1. Middle(x, y, FlattenSeq(gw), r[k], c)
    BY <1>1, <1>13, <1>22, <1>23, ReplaceMiddle, Zenon
  <2>2. QED
    BY <2>1, Zenon DEF Middle
<1>25. QED
  BY <1>8, <1>17, <1>18, <1>19, <1>20, <1>21, <1>24, Zenon DEF Replaced

-----------------------------------------------------------------------------
(* What the redactions show.                                                  *)

\* A mark of one symbol each.
Single(marks, r) == [i \in 1 .. Len(r) |-> <<marks[i]>>]

\* One symbol for each span is a mark for each span.
LEMMA SingleMarks ==
  ASSUME NEW t, Text(t), NEW r, Line(r, t), NEW marks \in [1 .. Len(r) -> Symbol]
  PROVE  Marks(Single(marks, r), r)
<1>1. ASSUME NEW x \in Symbol PROVE <<x>> \in Seq(Symbol)
  OBVIOUS
<1>2. \A i \in 1 .. Len(r) : <<marks[i]>> \in Seq(Symbol)
  BY <1>1, Zenon
<1>3. QED
  BY <1>2, Zenon DEF Single, Marks

\* The content is what the pieces show with no span replaced.
LEMMA ContentShows ==
  ASSUME NEW t, Text(t), NEW r, Line(r, t), NEW mk, NEW g, Shows(g, t, r, mk, Len(r) + 1)
  PROVE  FlattenSeq(g) = Content(t) /\ Content(t) \in Seq(Symbol)
<1>1. Len(r) \in Nat /\ t.size \in Nat
  BY LineFacts, Zenon
<1>2. \A i : i \notin Len(r) + 1 .. Len(r)
  BY <1>1
<1>3. \A p \in 1 .. t.size : g[p] = << <<"text", p>> >>
  BY <1>2, Zenon DEF Shows
<1>4. g \in Seq(Seq(Symbol)) /\ Len(g) = t.size
  <2>1. g \in [1 .. t.size -> Seq(Symbol)]
    BY Zenon DEF Shows
  <2>2. QED
    BY <1>1, <2>1, IsSeq, Zenon
<1>5. Content(t) \in [1 .. t.size -> Symbol] /\ \A p \in 1 .. t.size : Content(t)[p] = <<"text", p>>
  <2>1. \A p \in 1 .. t.size : p \in Nat
    BY <1>1
  <2>2. QED
    BY <2>1, TextSymbol, Zenon DEF Content
<1>6. Content(t) \in Seq(Symbol) /\ Len(Content(t)) = t.size
  BY <1>1, <1>5, IsSeq, Zenon
<1>7. \A p \in 1 .. Len(g) : g[p] = <<Content(t)[p]>>
  BY <1>3, <1>4, <1>5, Zenon
<1>8. QED
  BY <1>4, <1>6, <1>7, FlattenSingles, Zenon

\* Going from the last span to the first replaces every span, and only spans.
LEMMA RebuildShows ==
  ASSUME NEW t, Text(t), NEW r, Line(r, t), NEW marks \in [1 .. Len(r) -> Symbol]
  PROVE  Rebuild(Content(t), r, marks) = FlattenSeq(Pieces(t, r, Single(marks, r), 1))
<1> DEFINE n == Len(r)
           mk == Single(marks, r)
           G(k) == Pieces(t, r, mk, k)
           E(h) == h = [i \in 1 .. n + 1 |->
                         IF i > n THEN Content(t) ELSE ReplaceRange(h[i + 1], r[i], marks[i])]
           out == CHOOSE h : E(h)
           e == [i \in 1 .. n + 1 |-> FlattenSeq(G(i))]
<1>1. Rebuild(Content(t), r, marks) = out[1]
  BY Zenon DEF Rebuild
<1>2. n \in Nat
  BY LineFacts, Zenon
<1>3. Marks(mk, r)
  BY SingleMarks, Zenon
<1>4. \A k \in 1 .. n + 1 : Shows(G(k), t, r, mk, k)
  BY <1>3, PiecesShow, Zenon
<1>5. \A k \in 1 .. n : mk[k] = <<marks[k]>>
  BY Zenon DEF Single
<1> HIDE DEF mk, G
<1>6. ASSUME NEW k \in 1 .. n PROVE ReplaceRange(FlattenSeq(G(k + 1)), r[k], marks[k]) = FlattenSeq(G(k))
  <2>1. k + 1 \in 1 .. n + 1 /\ k \in 1 .. n + 1
    BY <1>2
  <2>2. Shows(G(k + 1), t, r, mk, k + 1) /\ Shows(G(k), t, r, mk, k)
    BY <1>4, <2>1, Zenon
  <2>3. marks[k] \in Symbol /\ mk[k] = <<marks[k]>>
    BY <1>5, Zenon
  <2>4. QED
    <3>1. Replaced(G(k + 1), G(k), r[k], marks[k])
      BY <1>3, <2>2, <2>3, ReplaceShows, Zenon
    <3>2. QED
      BY <3>1, Zenon DEF Replaced
<1>7. FlattenSeq(G(n + 1)) = Content(t)
  <2>1. n + 1 \in 1 .. n + 1
    BY <1>2
  <2>2. QED
    BY <1>4, <2>1, ContentShows, Zenon
<1>8. /\ \A i \in 1 .. n + 1 : i > n <=> i = n + 1
      /\ \A i \in 1 .. n + 1 : i # n + 1 => i \in 1 .. n /\ i + 1 \in 1 .. n + 1
  BY <1>2
<1> HIDE DEF n
<1>9. ASSUME NEW i \in 1 .. n + 1
      PROVE  e[i] = IF i > n THEN Content(t) ELSE ReplaceRange(e[i + 1], r[i], marks[i])
  <2>1. CASE i = n + 1
    BY <1>7, <1>8, <2>1, Zenon
  <2>2. CASE i # n + 1
    <3>1. ~(i > n) /\ i \in 1 .. n /\ i + 1 \in 1 .. n + 1
      BY <1>8, <2>2, Zenon
    <3>2. e[i] = FlattenSeq(G(i)) /\ e[i + 1] = FlattenSeq(G(i + 1))
      BY <3>1, Zenon
    <3>3. QED
      BY <1>6, <3>1, <3>2, Zenon
  <2>3. QED
    BY <2>1, <2>2, Zenon
<1>10. E(e)
  BY <1>9, Zenon
<1>11. E(out)
  BY <1>10, Zenon
<1> HIDE DEF out
<1>12. \A i \in 1 .. n + 1 :
         out[i] = IF i > n THEN Content(t) ELSE ReplaceRange(out[i + 1], r[i], marks[i])
  BY <1>11, Zenon
<1> HIDE DEF E, e
<1> DEFINE P(j) == j <= n => out[(n + 1) - j] = FlattenSeq(G((n + 1) - j))
<1>13. P(0)
  <2>1. (n + 1) - 0 = n + 1 /\ n + 1 \in 1 .. n + 1
    BY <1>2
  <2>2. QED
    BY <1>7, <1>8, <1>12, <2>1, Zenon
<1>14. ASSUME NEW k \in Nat, P(k) PROVE P(k + 1)
  <2> SUFFICES ASSUME k + 1 <= n
               PROVE  out[(n + 1) - (k + 1)] = FlattenSeq(G((n + 1) - (k + 1)))
    BY Zenon
  <2> DEFINE i == (n + 1) - (k + 1)
  <2>1. i \in 1 .. n /\ i \in 1 .. n + 1 /\ i # n + 1 /\ i + 1 = (n + 1) - k /\ k <= n
    BY <1>2
  <2> HIDE DEF i
  <2>2. out[i + 1] = FlattenSeq(G(i + 1))
    BY <1>14, <2>1, Zenon
  <2>3. out[i] = ReplaceRange(out[i + 1], r[i], marks[i])
    BY <1>8, <1>12, <2>1, Zenon
  <2>4. out[i] = FlattenSeq(G(i))
    BY <1>6, <2>1, <2>2, <2>3, Zenon
  <2>5. QED
    BY <2>4, Zenon DEF i
<1>15. \A k \in Nat : P(k)
  <2> HIDE DEF P
  <2> DEFINE T == {k \in Nat : P(k)}
  <2>1. 0 \in T /\ \A k \in Nat : k \in T => k + 1 \in T
    BY <1>13, <1>14
  <2> HIDE DEF T
  <2>2. \A k \in Nat : k \in T
    BY <2>1, Inductive, Zenon
  <2>3. QED
    BY <2>2, Zenon DEF T
<1>16. n <= n /\ (n + 1) - n = 1
  BY <1>2
<1>17. out[1] = FlattenSeq(G(1))
  BY <1>2, <1>15, <1>16, Zenon
<1>18. QED
  BY <1>1, <1>17, Zenon DEF G, mk

\* What is rebuilt is what is read.
Reads(t, r, marks, mark) == Rebuild(Content(t), r, marks) = LeftToRight(t, Range(r), mark)

\* The same, said of the content read left to right.
LEMMA RebuildIsLeftToRight ==
  ASSUME NEW t, Text(t), NEW r, Line(r, t), NEW marks \in [1 .. Len(r) -> Symbol],
         NEW mark, \A i \in 1 .. Len(r) : mark[r[i]] = <<marks[i]>>
  PROVE  Reads(t, r, marks, mark)
<1> DEFINE mk == Single(marks, r)
           g == Pieces(t, r, mk, 1)
<1>1. Marks(mk, r) /\ \A i \in 1 .. Len(r) : mark[r[i]] = mk[i]
  <2>1. Marks(mk, r)
    BY SingleMarks, Zenon
  <2>2. \A i \in 1 .. Len(r) : mk[i] = <<marks[i]>>
    BY Zenon DEF Single
  <2>3. QED
    BY <2>1, <2>2, Zenon
<1>2. Rebuild(Content(t), r, marks) = FlattenSeq(g)
  BY RebuildShows, Zenon
<1> HIDE DEF mk
<1>3. 1 \in 1 .. Len(r) + 1
  <2>1. Len(r) \in Nat
    BY LineFacts, Zenon
  <2>2. QED
    BY <2>1
<1>4. Shows(g, t, r, mk, 1)
  BY <1>1, <1>3, PiecesShow, Zenon
<1> HIDE DEF g
<1>5. LeftToRight(t, Range(r), mark) = FlattenSeq(g)
  BY <1>1, <1>4, LeftShows, Zenon
<1>6. QED
  BY <1>2, <1>5, Zenon DEF Reads

\* A tag with a number is a symbol of the output.
LEMMA TagSymbol == \A n \in Names, k \in Nat : <<n, k>> \in Symbol
BY Zenon DEF Symbol

\* redact_with_patterns replaces the accepted spans by their tags and keeps the
\* rest of the content.
LEMMA TagsExactly ==
  ASSUME NEW t, Text(t), NEW names
  PROVE  LET r == ByStart(CollectSpansFiltered(t, names))
         IN RedactsExactly(t, names, Rebuild(Content(t), r, Tags(r)))
<1> DEFINE spans == CollectSpansFiltered(t, names)
           r == ByStart(spans)
           s == Range(spans)
           marks == Tags(r)
           mark == [m \in s |-> << <<m.tag, 0>> >>]
<1>1. Line(r, t) /\ Range(r) = s
  BY ByStartRight, Zenon
<1> HIDE DEF r, s
<1>2. DOMAIN r = 1 .. Len(r) /\ \A i \in 1 .. Len(r) : r[i] \in Span
  BY <1>1, LineFacts, Zenon
<1>3. \A i \in 1 .. Len(r) : r[i].tag \in Names /\ r[i] \in s
  <2>1. \A m \in Span : m.tag \in Names
    BY Zenon DEF Span
  <2>2. \A i \in 1 .. Len(r) : r[i] \in Range(r)
    BY <1>2, Zenon DEF Range
  <2>3. QED
    BY <1>1, <1>2, <2>1, <2>2, Zenon
<1>4. marks = [i \in 1 .. Len(r) |-> <<r[i].tag, 0>>]
  BY <1>2, Zenon DEF Tags
<1>5. 0 \in Nat
  BY Zenon
<1>6. marks \in [1 .. Len(r) -> Symbol]
  BY <1>3, <1>4, <1>5, TagSymbol, Zenon
<1>7. \A i \in 1 .. Len(r) : mark[r[i]] = <<marks[i]>>
  BY <1>3, <1>4, Zenon
<1> HIDE DEF marks, mark
<1>8. Rebuild(Content(t), r, marks) = LeftToRight(t, s, mark)
  <2>1. Reads(t, r, marks, mark)
    BY <1>1, <1>6, <1>7, RebuildIsLeftToRight, Zenon
  <2>2. QED
    BY <1>1, <2>1, Zenon DEF Reads
<1>9. QED
  BY <1>8, Zenon DEF RedactsExactly, r, s, marks, mark

\* redact_irreversible shows the end of each span in its mark.
LEMMA EndsExactly ==
  ASSUME NEW t, Text(t)
  PROVE  ShowsOnlyEnds(t, RedactIrreversible(t))
<1> DEFINE spans == CollectSpans(t)
           r == ByStart(spans)
           s == Range(spans)
           marks == [i \in DOMAIN r |-> <<r[i].tag, Last4(r[i])>>]
           mark == [m \in s |-> << <<m.tag, Last4(m)>> >>]
<1>1. Line(r, t) /\ Range(r) = s
  BY ByStartRight, Zenon DEF CollectSpans
<1>2. RedactIrreversible(t) = Rebuild(Content(t), r, marks)
  BY Zenon DEF RedactIrreversible
<1> HIDE DEF r, s
<1>3. DOMAIN r = 1 .. Len(r) /\ \A i \in 1 .. Len(r) : r[i] \in Span
  BY <1>1, LineFacts, Zenon
<1>4. \A m \in Span : m.tag \in Names /\ Last4(m) \in Nat
  BY RedactorAssumption DEF Span, Last4
<1>5. \A i \in 1 .. Len(r) : r[i] \in s
  <2>1. \A i \in 1 .. Len(r) : r[i] \in Range(r)
    BY <1>3, Zenon DEF Range
  <2>2. QED
    BY <1>1, <2>1, Zenon
<1>6. marks \in [1 .. Len(r) -> Symbol]
  BY <1>3, <1>4, TagSymbol, Zenon
<1>7. \A i \in 1 .. Len(r) : mark[r[i]] = <<marks[i]>>
  BY <1>3, <1>5, Zenon
<1> HIDE DEF marks, mark
<1>8. Rebuild(Content(t), r, marks) = LeftToRight(t, s, mark)
  <2>1. Reads(t, r, marks, mark)
    BY <1>1, <1>6, <1>7, RebuildIsLeftToRight, Zenon
  <2>2. QED
    BY <1>1, <2>1, Zenon DEF Reads
<1>9. QED
  BY <1>2, <1>8, Zenon DEF ShowsOnlyEnds, r, s, marks, mark

-----------------------------------------------------------------------------
(* Replacing the symbols of a text.                                           *)

\* A text whose symbols are replaced one by one, as phi says.
Put1(s, phi) == [p \in DOMAIN s |-> phi[s[p]]]
Sub(s, phi) == FlattenSeq(Put1(s, phi))

\* What Put1 is, without its definition.
Puts(z, s, phi, X) ==
  z \in Seq(Seq(X)) /\ Len(z) = Len(s) /\ \A p \in 1 .. Len(s) : z[p] = phi[s[p]]

\* Replacing symbols one by one gives a text over the same symbols.
LEMMA SubIs ==
  ASSUME NEW X, NEW s \in Seq(X), NEW phi \in [X -> Seq(X)]
  PROVE  Puts(Put1(s, phi), s, phi, X) /\ Sub(s, phi) \in Seq(X)
<1>1. DOMAIN s = 1 .. Len(s) /\ Len(s) \in Nat /\ \A p \in 1 .. Len(s) : s[p] \in X
  OBVIOUS
<1>2. /\ Put1(s, phi) \in [1 .. Len(s) -> Seq(X)]
      /\ \A p \in 1 .. Len(s) : Put1(s, phi)[p] = phi[s[p]]
  BY <1>1, Zenon DEF Put1
<1>3. Put1(s, phi) \in Seq(Seq(X)) /\ Len(Put1(s, phi)) = Len(s)
  BY <1>1, <1>2, IsSeq, Zenon
<1>4. QED
  BY <1>2, <1>3, FlattenType, Zenon DEF Sub, Puts

\* Texts are replaced part by part.
SubJoins(a, b, phi) == Sub(a \o b, phi) = Sub(a, phi) \o Sub(b, phi)

\* The replacement of two texts joined is the two replacements joined.
LEMMA SubConcat ==
  ASSUME NEW X, NEW a \in Seq(X), NEW b \in Seq(X), NEW phi \in [X -> Seq(X)]
  PROVE  SubJoins(a, b, phi)
<1> DEFINE c == a \o b
           u == Put1(a, phi)
           v == Put1(b, phi)
           z == Put1(c, phi)
<1>1. /\ c \in Seq(X) /\ Len(c) = Len(a) + Len(b) /\ Len(a) \in Nat /\ Len(b) \in Nat
      /\ \A i \in 1 .. Len(a) : c[i] = a[i] /\ i \in 1 .. Len(c)
      /\ \A i \in 1 .. Len(b) : c[Len(a) + i] = b[i] /\ Len(a) + i \in 1 .. Len(c)
  OBVIOUS
<1> HIDE DEF c
<1>2. u \in Seq(Seq(X)) /\ Len(u) = Len(a) /\ \A p \in 1 .. Len(a) : u[p] = phi[a[p]]
  BY SubIs, Zenon DEF Puts
<1>3. v \in Seq(Seq(X)) /\ Len(v) = Len(b) /\ \A p \in 1 .. Len(b) : v[p] = phi[b[p]]
  BY SubIs, Zenon DEF Puts
<1>4. z \in Seq(Seq(X)) /\ Len(z) = Len(c) /\ \A p \in 1 .. Len(c) : z[p] = phi[c[p]]
  <2>1. Puts(z, c, phi, X)
    BY <1>1, SubIs, Zenon
  <2>2. QED
    BY <2>1, Zenon DEF Puts
<1> HIDE DEF u, v, z
<1>5. Len(z) = Len(u) + Len(v)
  BY <1>1, <1>2, <1>3, <1>4, Zenon
<1>6. \A i \in 1 .. Len(u) : z[i] = u[i]
  <2> SUFFICES ASSUME NEW i \in 1 .. Len(a) PROVE z[i] = u[i]
    BY <1>2, Zenon
  <2>1. z[i] = phi[c[i]] /\ c[i] = a[i] /\ u[i] = phi[a[i]]
    BY <1>1, <1>2, <1>4, Zenon
  <2>2. QED
    BY <2>1, Zenon
<1>7. \A i \in 1 .. Len(v) : z[Len(u) + i] = v[i]
  <2> SUFFICES ASSUME NEW i \in 1 .. Len(b) PROVE z[Len(a) + i] = v[i]
    BY <1>2, <1>3, Zenon
  <2>1. z[Len(a) + i] = phi[c[Len(a) + i]]
    BY <1>1, <1>4, Zenon
  <2>2. QED
    BY <1>1, <1>3, <2>1, Zenon
<1>8. u \o v = z
  <2>1. u \in Seq(Seq(X)) /\ v \in Seq(Seq(X)) /\ z \in Seq(Seq(X))
    BY <1>2, <1>3, <1>4, Zenon
  <2>2. Joins(u, v, z)
    BY <1>5, <1>6, <1>7, Zenon DEF Joins
  <2>3. QED
    BY <2>1, <2>2, JoinIs, Zenon
<1>9. FlattenSeq(u \o v) = FlattenSeq(u) \o FlattenSeq(v)
  BY <1>2, <1>3, FlattenConcat, Zenon
<1>10. QED
  BY <1>8, <1>9, Zenon DEF SubJoins, Sub, c, u, v, z

\* A text given in pieces is replaced piece by piece.
EachSub(ss, phi) == [i \in 1 .. Len(ss) |-> Sub(ss[i], phi)]
SubsEach(ss, phi) == Sub(FlattenSeq(ss), phi) = FlattenSeq(EachSub(ss, phi))

\* The replacement of a text given in pieces is that of its pieces.
LEMMA SubFlatten ==
  ASSUME NEW X, NEW ss \in Seq(Seq(X)), NEW phi \in [X -> Seq(X)]
  PROVE  EachSub(ss, phi) \in [1 .. Len(ss) -> Seq(X)] /\ SubsEach(ss, phi)
<1> DEFINE n == Len(ss)
           qq == EachSub(ss, phi)
<1>1. n \in Nat /\ \A i \in 1 .. n : ss[i] \in Seq(X)
  OBVIOUS
<1>2. \A i \in 1 .. n : Sub(ss[i], phi) \in Seq(X)
  BY <1>1, SubIs, Zenon
<1>3. qq \in [1 .. n -> Seq(X)] /\ \A i \in 1 .. n : qq[i] = Sub(ss[i], phi)
  BY <1>2, Zenon DEF EachSub
<1> HIDE DEF qq
<1>4. qq \in Seq(Seq(X)) /\ Len(qq) = n
  <2> HIDE DEF n
  <2> QED BY <1>1, <1>3, IsSeq, Zenon
<1>5. PICK f \in [0 .. n -> Seq(X)] : Flattens(f, ss) /\ FlattenSeq(ss) = f[n]
  BY FlattenLoop, Zenon
<1>6. PICK g \in [0 .. Len(qq) -> Seq(X)] : Flattens(g, qq) /\ FlattenSeq(qq) = g[Len(qq)]
  BY <1>4, FlattenLoop, Zenon
<1> DEFINE P(k) == k <= n => Sub(f[k], phi) = g[k]
<1>7. P(0)
  <2>1. Put1(<< >>, phi) = << >>
    BY DEF Put1
  <2>2. Sub(<< >>, phi) = << >>
    BY <2>1, FlattenNone, Zenon DEF Sub
  <2>3. QED
    BY <1>5, <1>6, <2>2, Zenon DEF Flattens
<1>8. ASSUME NEW k \in Nat, P(k) PROVE P(k + 1)
  <2> SUFFICES ASSUME k + 1 <= n PROVE Sub(f[k + 1], phi) = g[k + 1]
    BY Zenon
  <2>1. k + 1 \in 1 .. n /\ (k + 1) - 1 = k /\ k <= n /\ k \in 0 .. n
    BY <1>1
  <2>2. f[k + 1] = f[k] \o ss[k + 1]
    BY <1>5, <2>1, Zenon DEF Flattens
  <2>3. g[k + 1] = g[k] \o Sub(ss[k + 1], phi)
    BY <1>3, <1>4, <1>6, <2>1, Zenon DEF Flattens
  <2>4. f[k] \in Seq(X) /\ ss[k + 1] \in Seq(X)
    BY <1>1, <1>5, <2>1, Zenon
  <2>5. SubJoins(f[k], ss[k + 1], phi)
    BY <2>4, SubConcat, Zenon
  <2>6. QED
    BY <1>8, <2>1, <2>2, <2>3, <2>5, Zenon DEF SubJoins
<1>9. \A k \in Nat : P(k)
  <2> HIDE DEF P
  <2> DEFINE T == {k \in Nat : P(k)}
  <2>1. 0 \in T /\ \A k \in Nat : k \in T => k + 1 \in T
    BY <1>7, <1>8
  <2> HIDE DEF T
  <2>2. \A k \in Nat : k \in T
    BY <2>1, Inductive, Zenon
  <2>3. QED
    BY <2>2, Zenon DEF T
<1>10. n <= n
  BY <1>1
<1>11. Sub(f[n], phi) = g[n]
  BY <1>1, <1>9, <1>10, Zenon
<1>12. QED
  BY <1>3, <1>4, <1>5, <1>6, <1>11, Zenon DEF SubsEach, qq

\* The empty text stays empty.
LEMMA SubNone == ASSUME NEW phi PROVE Sub(<< >>, phi) = << >>
<1>1. Put1(<< >>, phi) = << >>
  BY DEF Put1
<1>2. QED
  BY <1>1, FlattenNone, Zenon DEF Sub

\* The replacement of one symbol is what phi says of it.
LEMMA SubOne ==
  ASSUME NEW X, NEW x \in X, NEW phi \in [X -> Seq(X)]
  PROVE  Sub(<<x>>, phi) = phi[x]
<1>1. Put1(<<x>>, phi) = <<phi[x]>>
  BY DEF Put1
<1>2. phi[x] \in Seq(X)
  BY Zenon
<1>3. FlattenSeq(<<phi[x]>>) = phi[x]
  BY <1>2, FlattenOne, Zenon
<1>4. QED
  BY <1>1, <1>3, Zenon DEF Sub

\* A text without the symbols that change stays.
Keeps(phi, s) == \A p \in 1 .. Len(s) : phi[s[p]] = <<s[p]>>

\* A text without a symbol that changes is not changed.
LEMMA SubSame ==
  ASSUME NEW X, NEW s \in Seq(X), NEW phi \in [X -> Seq(X)], Keeps(phi, s)
  PROVE  Sub(s, phi) = s
<1> DEFINE z == Put1(s, phi)
<1>1. z \in Seq(Seq(X)) /\ Len(z) = Len(s) /\ \A p \in 1 .. Len(s) : z[p] = phi[s[p]]
  BY SubIs, Zenon DEF Puts
<1> HIDE DEF z
<1>2. \A p \in 1 .. Len(z) : z[p] = <<s[p]>>
  BY <1>1, Zenon DEF Keeps
<1>3. FlattenSeq(z) = s
  BY <1>1, <1>2, FlattenSingles, Zenon
<1>4. QED
  BY <1>3, Zenon DEF Sub, z

\* Replace and ExtractPlaceholders say for each symbol what stands in its place.
Instead(x, by) == [c \in Symbol |-> IF c = x THEN by ELSE <<c>>]
Picks == [c \in Symbol |-> IF c[1] \in Names /\ c[2] > 0 THEN <<c>> ELSE << >>]

\* Replace puts one text in the place of one symbol and keeps the others.
LEMMA ReplaceIsSub ==
  ASSUME NEW s \in Seq(Symbol), NEW x, NEW by \in Seq(Symbol)
  PROVE  Instead(x, by) \in [Symbol -> Seq(Symbol)] /\ Replace(s, x, by) = Sub(s, Instead(x, by))
<1>1. ASSUME NEW c \in Symbol PROVE <<c>> \in Seq(Symbol)
  OBVIOUS
<1>2. Instead(x, by) \in [Symbol -> Seq(Symbol)]
  BY <1>1, Zenon DEF Instead
<1>3. \A p \in DOMAIN s : s[p] \in Symbol
  OBVIOUS
<1>4. [p \in DOMAIN s |-> IF s[p] = x THEN by ELSE <<s[p]>>] = Put1(s, Instead(x, by))
  BY <1>3, Zenon DEF Put1, Instead
<1>5. QED
  BY <1>2, <1>4, Zenon DEF Replace, Sub

\* ExtractPlaceholders keeps the tokens and drops all other symbols.
LEMMA ExtractIsSub ==
  ASSUME NEW s \in Seq(Symbol)
  PROVE  Picks \in [Symbol -> Seq(Symbol)] /\ ExtractPlaceholders(s) = Sub(s, Picks)
<1>1. ASSUME NEW c \in Symbol PROVE <<c>> \in Seq(Symbol)
  OBVIOUS
<1>2. << >> \in Seq(Symbol)
  OBVIOUS
<1>3. Picks \in [Symbol -> Seq(Symbol)]
  BY <1>1, <1>2, Zenon DEF Picks
<1>4. \A p \in DOMAIN s : s[p] \in Symbol
  OBVIOUS
<1>5. [p \in DOMAIN s |-> IF s[p][1] \in Names /\ s[p][2] > 0 THEN <<s[p]>> ELSE << >>] = Put1(s, Picks)
  BY <1>4, Zenon DEF Put1, Picks
<1>6. QED
  BY <1>3, <1>5, Zenon DEF ExtractPlaceholders, Sub

\* phi leaves the bytes of t alone; mk2 is mk with its symbols replaced.
KeepsText(phi, t) == \A p \in 1 .. t.size : phi[<<"text", p>>] = << <<"text", p>> >>

\* The marks of mk2 are those of mk after the replacement.
SubMarks(mk2, mk, phi, r) == \A i \in 1 .. Len(r) : mk2[i] = Sub(mk[i], phi)

\* Pieces whose spans' marks are replaced.
LEMMA SubShows ==
  ASSUME NEW t, Text(t), NEW r, Line(r, t), NEW mk, NEW mk2, NEW g, Shows(g, t, r, mk, 1),
         NEW phi \in [Symbol -> Seq(Symbol)],
         KeepsText(phi, t), SubMarks(mk2, mk, phi, r)
  PROVE  Shows(EachSub(g, phi), t, r, mk2, 1) /\ SubsEach(g, phi)
<1> DEFINE h == EachSub(g, phi)
<1>1. t.size \in Nat
  BY LineFacts, Zenon
<1>2. g \in Seq(Seq(Symbol)) /\ Len(g) = t.size
  <2>1. g \in [1 .. t.size -> Seq(Symbol)]
    BY Zenon DEF Shows
  <2>2. QED
    BY <1>1, <2>1, IsSeq, Zenon
<1>3. h \in [1 .. Len(g) -> Seq(Symbol)] /\ SubsEach(g, phi)
  BY <1>2, SubFlatten, Zenon
<1>4. \A p \in 1 .. t.size : h[p] = Sub(g[p], phi)
  BY <1>2, Zenon DEF EachSub
<1> HIDE DEF h
<1>5. \A p \in 1 .. t.size : <<"text", p>> \in Symbol
  <2>1. \A p \in 1 .. t.size : p \in Nat
    BY <1>1
  <2>2. QED
    BY <2>1, TextSymbol, Zenon
<1>6. ASSUME NEW p \in 1 .. t.size, NEW i \in 1 .. Len(r), StartsAt(r[i], p) PROVE h[p] = mk2[i]
  <2>1. g[p] = mk[i]
    BY <1>6, Zenon DEF Shows
  <2>2. QED
    BY <1>4, <2>1, Zenon DEF SubMarks
<1>7. ASSUME NEW p \in 1 .. t.size, NEW i \in 1 .. Len(r), Inside(r[i], p), ~StartsAt(r[i], p)
      PROVE  h[p] = << >>
  <2>1. g[p] = << >>
    BY <1>7, Zenon DEF Shows
  <2>2. QED
    BY <1>4, <2>1, SubNone, Zenon
<1>8. ASSUME NEW p \in 1 .. t.size, \A i \in 1 .. Len(r) : ~Inside(r[i], p)
      PROVE  h[p] = << <<"text", p>> >>
  <2>1. g[p] = << <<"text", p>> >>
    BY <1>8, Zenon DEF Shows
  <2>2. Sub(<< <<"text", p>> >>, phi) = phi[<<"text", p>>]
    BY <1>5, SubOne, Zenon
  <2>3. QED
    BY <1>4, <2>1, <2>2, Zenon DEF KeepsText
<1>9. QED
  BY <1>2, <1>3, <1>6, <1>7, <1>8, Zenon DEF Shows, h

\* Two parts of a sequence, flattened one by one.
Cut(ss, a) == FlattenSeq(ss) = FlattenSeq(SubSeq(ss, 1, a)) \o FlattenSeq(SubSeq(ss, a + 1, Len(ss)))

\* A sequence of pieces can be cut anywhere and flattened part by part.
LEMMA FlattenCut ==
  ASSUME NEW X, NEW ss \in Seq(Seq(X)), NEW a \in Nat, a <= Len(ss)
  PROVE  Cut(ss, a)
<1> DEFINE u == SubSeq(ss, 1, a)
           w == SubSeq(ss, a + 1, Len(ss))
<1>1. a <= a
  OBVIOUS
<1>2. u \in Seq(Seq(X)) /\ w \in Seq(Seq(X)) /\ u \o w = ss
  BY <1>1, Halves, Zenon
<1> HIDE DEF u, w
<1>3. FlattenSeq(u \o w) = FlattenSeq(u) \o FlattenSeq(w)
  BY <1>2, FlattenConcat, Zenon
<1>4. QED
  BY <1>2, <1>3, Zenon DEF Cut, u, w

\* Pieces that hold xs[i] where the i-th span starts, for the first k spans, and
\* nothing elsewhere.
Dots(q, t, r, xs, k) ==
  /\ q \in [1 .. t.size -> Seq(Symbol)]
  /\ \A p \in 1 .. t.size :
       /\ \A i \in 1 .. k : StartsAt(r[i], p) => q[p] = <<xs[i]>>
       /\ (\A i \in 1 .. k : ~StartsAt(r[i], p)) => q[p] = << >>

\* The text h is g and then the symbol x.
Next1(g, h, x) == FlattenSeq(h) = FlattenSeq(g) \o <<x>>

\* One more span adds its own symbol at the end.
LEMMA DotsMore ==
  ASSUME NEW t, Text(t), NEW r, Line(r, t), NEW xs \in [1 .. Len(r) -> Symbol],
         NEW k \in Nat, k + 1 <= Len(r), NEW g, Dots(g, t, r, xs, k), NEW h, Dots(h, t, r, xs, k + 1)
  PROVE  Next1(g, h, xs[k + 1])
<1> DEFINE a == r[k + 1].s
           n == t.size
<1>0. k + 1 \in 1 .. Len(r) /\ (\A i \in 1 .. k : i \in 1 .. Len(r) /\ i < k + 1 /\ i \in 1 .. k + 1)
      /\ k + 1 \in 1 .. k + 1 /\ \A i \in 1 .. k + 1 : i \in 1 .. k \/ i = k + 1
  <2>1. Len(r) \in Nat
    BY LineFacts, Zenon
  <2>2. QED
    BY <2>1
<1>1. n \in Nat /\ a \in Nat /\ r[k + 1].e \in Nat /\ a < r[k + 1].e /\ r[k + 1].e <= n
  BY <1>0, LineFacts, Zenon
<1>2. \A i \in 1 .. k : r[i].s \in Nat /\ r[i].e \in Nat /\ r[i].s < r[i].e /\ r[i].e <= a
  BY <1>0, LineFacts, Zenon
<1>3. \A i \in 1 .. k, p \in 1 .. n : StartsAt(r[i], p) => p <= a
  <2> SUFFICES ASSUME NEW i \in 1 .. k, NEW p \in 1 .. n, r[i].s + 1 = p PROVE p <= a
    BY Zenon DEF StartsAt
  <2>1. r[i].s \in Nat /\ r[i].e \in Nat /\ r[i].s < r[i].e /\ r[i].e <= a
    BY <1>2, Zenon
  <2> HIDE DEF a, n
  <2>2. QED
    BY <1>1, <2>1
<1>4. \A p \in 1 .. n : StartsAt(r[k + 1], p) <=> p = a + 1
  BY Zenon, <1>1 DEF StartsAt
<1>5. /\ a <= n /\ a + 1 \in 1 .. n /\ n - a \in Nat /\ n - a > 0 /\ 1 \in 1 .. n - a
      /\ \A p \in 1 .. a : p \in 1 .. n /\ p # a + 1
      /\ \A p \in 1 .. n - a : a + p \in 1 .. n /\ ~(a + p <= a)
      /\ \A p \in 2 .. n - a : p \in 1 .. n - a /\ a + p # a + 1
  <2>1. a \in Nat /\ n \in Nat /\ a < n
    BY <1>1
  <2> HIDE DEF a, n
  <2>2. QED
    BY <2>1
<1> HIDE DEF a, n
<1>6. g \in Seq(Seq(Symbol)) /\ Len(g) = n /\ h \in Seq(Seq(Symbol)) /\ Len(h) = n
  <2>1. g \in [1 .. n -> Seq(Symbol)] /\ h \in [1 .. n -> Seq(Symbol)]
    BY Zenon DEF Dots, n
  <2>2. QED
    BY <1>1, <2>1, IsSeq, Zenon
<1>7. ASSUME NEW p \in 1 .. n, p # a + 1 PROVE g[p] = h[p]
  <2>0. p \in 1 .. t.size
    BY Zenon DEF n
  <2>1. CASE \A i \in 1 .. k : ~StartsAt(r[i], p)
    <3>1. \A i \in 1 .. k + 1 : ~StartsAt(r[i], p)
      BY <1>0, <1>4, <1>7, <2>1, Zenon
    <3>2. QED
      BY <2>0, <2>1, <3>1, Zenon DEF Dots
  <2>2. CASE \E i \in 1 .. k : StartsAt(r[i], p)
    <3>1. PICK i \in 1 .. k : StartsAt(r[i], p)
      BY <2>2, Zenon
    <3>2. i \in 1 .. k + 1
      BY <1>0, Zenon
    <3>3. QED
      BY <2>0, <3>1, <3>2, Zenon DEF Dots
  <2>3. QED
    BY <2>1, <2>2, Zenon
<1>8. ASSUME NEW p \in 1 .. n, ~(p <= a) PROVE g[p] = << >>
  <2>0. p \in 1 .. t.size
    BY Zenon DEF n
  <2>1. \A i \in 1 .. k : ~StartsAt(r[i], p)
    BY <1>3, <1>8, Zenon
  <2>2. QED
    BY <2>0, <2>1, Zenon DEF Dots
<1>9. h[a + 1] = <<xs[k + 1]>>
  <2>1. a + 1 \in 1 .. t.size /\ StartsAt(r[k + 1], a + 1)
    BY <1>4, <1>5, Zenon DEF n
  <2>2. QED
    BY <1>0, <2>1, Zenon DEF Dots
<1> DEFINE gu == SubSeq(g, 1, a)
           gw == SubSeq(g, a + 1, n)
           hu == SubSeq(h, 1, a)
           hw == SubSeq(h, a + 1, n)
<1>10. Cut(g, a) /\ Cut(h, a)
  BY <1>1, <1>5, <1>6, FlattenCut, Zenon
<1>11. FlattenSeq(g) = FlattenSeq(gu) \o FlattenSeq(gw) /\ FlattenSeq(h) = FlattenSeq(hu) \o FlattenSeq(hw)
  BY <1>6, <1>10, Zenon DEF Cut
<1>12. /\ gu \in Seq(Seq(Symbol)) /\ Len(gu) = a /\ \A p \in 1 .. a : gu[p] = g[p]
       /\ hu \in Seq(Seq(Symbol)) /\ Len(hu) = a /\ \A p \in 1 .. a : hu[p] = h[p]
  <2>1. gu \in Seq(Seq(Symbol)) /\ Len(gu) = a /\ \A p \in 1 .. a : gu[p] = g[p]
    BY <1>1, <1>5, <1>6, PrefixIs, Zenon
  <2>2. hu \in Seq(Seq(Symbol)) /\ Len(hu) = a /\ \A p \in 1 .. a : hu[p] = h[p]
    BY <1>1, <1>5, <1>6, PrefixIs, Zenon
  <2>3. QED
    BY <2>1, <2>2, Zenon
<1>13. IsPart(gw, g, a, n, Seq(Symbol)) /\ IsPart(hw, h, a, n, Seq(Symbol))
  <2>1. n <= n
    BY <1>1
  <2>2. QED
    BY <1>1, <1>5, <1>6, <2>1, PartIs, Zenon
<1> HIDE DEF gu, gw, hu, hw
<1>14. gu = hu
  <2>1. \A p \in 1 .. a : gu[p] = hu[p]
    BY <1>5, <1>7, <1>12, Zenon
  <2>2. QED
    BY <1>12, <2>1, SeqEq, Zenon
<1>15. FlattenSeq(gw) = << >>
  <2>1. gw \in Seq(Seq(Symbol)) /\ Len(gw) = n - a
    BY <1>13, Zenon DEF IsPart
  <2>2. \A p \in 1 .. n - a : gw[p] = << >>
    <3> SUFFICES ASSUME NEW p \in 1 .. n - a PROVE gw[p] = << >>
      BY Zenon
    <3>1. gw[p] = g[a + p]
      BY <1>13, Zenon DEF IsPart
    <3>2. g[a + p] = << >>
      BY <1>5, <1>8, Zenon
    <3>3. QED
      BY <3>1, <3>2, Zenon
  <2>3. QED
    BY <2>1, <2>2, FlattenEmpties, Zenon
<1>16. FlattenSeq(hw) = <<xs[k + 1]>>
  <2>1. hw \in Seq(Seq(Symbol)) /\ Len(hw) = n - a
    BY <1>13, Zenon DEF IsPart
  <2>2. hw[1] = <<xs[k + 1]>>
    BY <1>5, <1>9, <1>13, Zenon DEF IsPart
  <2>3. ASSUME NEW p \in 2 .. n - a PROVE hw[p] = << >>
    <3>1. hw[p] = h[a + p]
      BY <1>5, <1>13, Zenon DEF IsPart
    <3>2. g[a + p] = << >> /\ g[a + p] = h[a + p]
      BY <1>5, <1>7, <1>8, Zenon
    <3>3. QED
      BY <3>1, <3>2, Zenon
  <2>4. FlattenSeq(hw) = hw[1]
    BY <1>5, <2>1, <2>3, FlattenFirst, Zenon
  <2>5. QED
    BY <2>2, <2>4, Zenon
<1>17. FlattenSeq(gu) \o << >> = FlattenSeq(gu)
  <2>1. FlattenSeq(gu) \in Seq(Symbol)
    BY <1>12, FlattenType, Zenon
  <2>2. QED
    BY <2>1
<1>18. QED
  BY <1>11, <1>14, <1>15, <1>16, <1>17, Zenon DEF Next1

\* The placeholders come out in the order of the spans.
LEMMA DotsAll ==
  ASSUME NEW t, Text(t), NEW r, Line(r, t), NEW xs \in [1 .. Len(r) -> Symbol],
         NEW q, Dots(q, t, r, xs, Len(r))
  PROVE  FlattenSeq(q) = xs
<1> DEFINE n == Len(r)
           Q(k) == [p \in 1 .. t.size |-> IF \E i \in 1 .. k : StartsAt(r[i], p) THEN q[p] ELSE << >>]
<1>1. n \in Nat /\ t.size \in Nat
  BY LineFacts, Zenon
<1>2. q \in [1 .. t.size -> Seq(Symbol)]
  BY Zenon DEF Dots
<1>3. << >> \in Seq(Symbol)
  OBVIOUS
<1>4. ASSUME NEW k \in 0 .. n PROVE Dots(Q(k), t, r, xs, k)
  <2>0. \A i \in 1 .. k : i \in 1 .. n
    BY <1>1
  <2>1. Q(k) \in [1 .. t.size -> Seq(Symbol)]
    BY <1>2, <1>3, Zenon
  <2>2. ASSUME NEW p \in 1 .. t.size, NEW i \in 1 .. k, StartsAt(r[i], p) PROVE Q(k)[p] = <<xs[i]>>
    <3>1. Q(k)[p] = q[p]
      BY <2>2, Zenon
    <3> HIDE DEF Q
    <3>2. QED
      BY <2>0, <2>2, <3>1, Zenon DEF Dots
  <2>3. ASSUME NEW p \in 1 .. t.size, \A i \in 1 .. k : ~StartsAt(r[i], p) PROVE Q(k)[p] = << >>
    BY <2>3, Zenon
  <2> HIDE DEF Q
  <2>4. QED
    BY <2>1, <2>2, <2>3, Zenon DEF Dots
<1>5. Q(n) = q
  <2>1. ASSUME NEW p \in 1 .. t.size PROVE Q(n)[p] = q[p]
    BY Zenon DEF Dots
  <2>2. Q(n) = [p \in 1 .. t.size |-> Q(n)[p]] /\ q = [p \in 1 .. t.size |-> q[p]]
    BY <1>2, Zenon
  <2> HIDE DEF Q
  <2>3. QED
    BY <2>1, <2>2, Zenon
<1> HIDE DEF Q
<1>6. xs \in Seq(Symbol) /\ Len(xs) = n
  <2> HIDE DEF n
  <2>1. xs \in [1 .. n -> Symbol]
    BY Zenon DEF n
  <2>2. QED
    BY <1>1, <2>1, IsSeq, Zenon
<1> DEFINE P(k) == k <= n => FlattenSeq(Q(k)) = SubSeq(xs, 1, k)
<1>7. P(0)
  <2>1. 0 \in 0 .. n /\ \A i : i \notin 1 .. 0
    BY <1>1
  <2>2. Dots(Q(0), t, r, xs, 0)
    BY <1>4, <2>1, Zenon
  <2>3. Q(0) \in [1 .. t.size -> Seq(Symbol)] /\ \A p \in 1 .. t.size : Q(0)[p] = << >>
    BY <2>1, <2>2, Zenon DEF Dots
  <2>4. Q(0) \in Seq(Seq(Symbol)) /\ Len(Q(0)) = t.size
    BY <1>1, <2>3, IsSeq, Zenon
  <2>5. FlattenSeq(Q(0)) = << >>
    BY <2>3, <2>4, FlattenEmpties, Zenon
  <2>6. SubSeq(xs, 1, 0) = << >>
    BY <1>6
  <2>7. QED
    BY <2>5, <2>6, Zenon
<1>8. ASSUME NEW k \in Nat, P(k) PROVE P(k + 1)
  <2> SUFFICES ASSUME k + 1 <= n PROVE FlattenSeq(Q(k + 1)) = SubSeq(xs, 1, k + 1)
    BY Zenon
  <2>1. k \in 0 .. n /\ k + 1 \in 0 .. n /\ k <= n /\ k + 1 \in 1 .. n
    BY <1>1
  <2>2. Dots(Q(k), t, r, xs, k) /\ Dots(Q(k + 1), t, r, xs, k + 1)
    BY <1>4, <2>1, Zenon
  <2>3. FlattenSeq(Q(k + 1)) = FlattenSeq(Q(k)) \o <<xs[k + 1]>>
    <3>1. Next1(Q(k), Q(k + 1), xs[k + 1])
      BY <2>2, DotsMore, Zenon
    <3>2. QED
      BY <3>1, Zenon DEF Next1
  <2>4. SubSeq(xs, 1, k) \o <<xs[k + 1]>> = SubSeq(xs, 1, k + 1)
    BY <1>6, <2>1
  <2>5. QED
    BY <1>8, <2>1, <2>3, <2>4, Zenon
<1>9. \A k \in Nat : P(k)
  <2> HIDE DEF P
  <2> DEFINE T == {k \in Nat : P(k)}
  <2>1. 0 \in T /\ \A k \in Nat : k \in T => k + 1 \in T
    BY <1>7, <1>8
  <2> HIDE DEF T
  <2>2. \A k \in Nat : k \in T
    BY <2>1, Inductive, Zenon
  <2>3. QED
    BY <2>2, Zenon DEF T
<1>10. n <= n /\ SubSeq(xs, 1, n) = xs
  BY <1>1, <1>6
<1>11. QED
  BY <1>1, <1>5, <1>9, <1>10, Zenon

-----------------------------------------------------------------------------
(* What reveal_tenant restores.                                               *)

\* The tokens of the spans r: the tag and the number of each.
TokensOf(r) == [i \in 1 .. Len(r) |-> <<r[i].tag, i>>]

\* Tokens are symbols with a name and a number, and no two spans share one.
LEMMA TokensAre ==
  ASSUME NEW t, Text(t), NEW r, Line(r, t)
  PROVE  /\ TokensOf(r) \in [1 .. Len(r) -> Symbol]
         /\ \A i \in 1 .. Len(r) :
              /\ TokensOf(r)[i] \in Symbol /\ TokensOf(r)[i][1] \in Names /\ TokensOf(r)[i][2] = i
              /\ i \in Nat /\ i > 0
         /\ \A i, j \in 1 .. Len(r) : TokensOf(r)[i] = TokensOf(r)[j] => i = j
<1>1. \A i \in 1 .. Len(r) : r[i].tag \in Names /\ i \in Nat /\ i > 0
  <2>1. Len(r) \in Nat /\ \A i \in 1 .. Len(r) : r[i] \in Span
    BY LineFacts, Zenon
  <2>2. QED
    BY <2>1 DEF Span
<1>2. TokensOf(r) \in [1 .. Len(r) -> Symbol] /\ \A i \in 1 .. Len(r) : TokensOf(r)[i] = <<r[i].tag, i>>
  BY <1>1, TagSymbol, Zenon DEF TokensOf
<1>3. \A i \in 1 .. Len(r) : TokensOf(r)[i][1] \in Names /\ TokensOf(r)[i][2] = i
  BY <1>1, <1>2
<1>4. QED
  BY <1>1, <1>2, <1>3, Zenon

\* Neither a byte of the content nor the mark of a lost token is a token.
LEMMA NotTokens ==
  "text" \notin Names /\ "unrecoverable" \notin Names
BY RedactorAssumption, Zenon

\* The redacted text, its spans replaced by their tokens.
Tokenized(t, r) == Pieces(t, r, Single(TokensOf(r), r), 1)

\* Exactly the tokens are extracted, in text order.
LEMMA ExtractsTokens ==
  ASSUME NEW t, Text(t), NEW r, Line(r, t)
  PROVE  ExtractPlaceholders(FlattenSeq(Tokenized(t, r))) = TokensOf(r)
<1> DEFINE xs == TokensOf(r)
           mk == Single(xs, r)
           g == Tokenized(t, r)
           q == EachSub(g, Picks)
<1>1. /\ xs \in [1 .. Len(r) -> Symbol] /\ Len(r) \in Nat /\ t.size \in Nat
      /\ \A i \in 1 .. Len(r) : xs[i] \in Symbol /\ xs[i][1] \in Names /\ xs[i][2] = i /\ i > 0
  BY TokensAre, LineFacts, Zenon
<1>2. 1 \in 1 .. Len(r) + 1
  BY <1>1
<1>3. Marks(mk, r)
  BY <1>1, SingleMarks, Zenon
<1>4. Shows(g, t, r, mk, 1)
  BY <1>2, <1>3, PiecesShow, Zenon DEF Tokenized
<1>5. \A i \in 1 .. Len(r) : mk[i] = <<xs[i]>>
  BY Zenon DEF Single
<1> HIDE DEF xs, mk, g
<1>6. g \in [1 .. t.size -> Seq(Symbol)]
  BY <1>4, Zenon DEF Shows
<1>7. g \in Seq(Seq(Symbol)) /\ Len(g) = t.size
  BY <1>1, <1>6, IsSeq, Zenon
<1>8. FlattenSeq(g) \in Seq(Symbol)
  BY <1>7, FlattenType, Zenon
<1>9. Picks \in [Symbol -> Seq(Symbol)] /\ ExtractPlaceholders(FlattenSeq(g)) = Sub(FlattenSeq(g), Picks)
  BY <1>8, ExtractIsSub, Zenon
<1>10. q \in [1 .. Len(g) -> Seq(Symbol)] /\ SubsEach(g, Picks)
  BY <1>7, <1>9, SubFlatten, Zenon
<1>11. \A p \in 1 .. t.size : q[p] = Sub(g[p], Picks)
  BY <1>7, Zenon DEF EachSub
<1>12. ASSUME NEW i \in 1 .. Len(r) PROVE Sub(<<xs[i]>>, Picks) = <<xs[i]>>
  <2>1. xs[i] \in Symbol /\ xs[i][1] \in Names /\ xs[i][2] > 0
    BY <1>1, Zenon
  <2>2. Picks[xs[i]] = <<xs[i]>>
    BY <2>1, Zenon DEF Picks
  <2>3. Sub(<<xs[i]>>, Picks) = Picks[xs[i]]
    BY <1>9, <2>1, SubOne, Zenon
  <2>4. QED
    BY <2>2, <2>3, Zenon
<1>13. ASSUME NEW p \in 1 .. t.size PROVE Sub(<< <<"text", p>> >>, Picks) = << >>
  <2>1. p \in Nat
    BY <1>1
  <2>2. <<"text", p>> \in Symbol
    BY <2>1, TextSymbol, Zenon
  <2>3. <<"text", p>>[1] \notin Names
    BY Zenon, NotTokens
  <2>4. Picks[<<"text", p>>] = << >>
    BY <2>2, <2>3, Zenon DEF Picks
  <2>5. Sub(<< <<"text", p>> >>, Picks) = Picks[<<"text", p>>]
    BY <1>9, <2>2, SubOne, Zenon
  <2>6. QED
    BY <2>4, <2>5, Zenon
<1> HIDE DEF q
<1>14. ASSUME NEW p \in 1 .. t.size, NEW i \in 1 .. Len(r), StartsAt(r[i], p) PROVE q[p] = <<xs[i]>>
  <2>1. g[p] = <<xs[i]>>
    BY <1>4, <1>5, <1>14, Zenon DEF Shows
  <2>2. QED
    BY <1>11, <1>12, <2>1, Zenon
<1>15. ASSUME NEW p \in 1 .. t.size, \A i \in 1 .. Len(r) : ~StartsAt(r[i], p) PROVE q[p] = << >>
  <2>1. CASE \E i \in 1 .. Len(r) : Inside(r[i], p)
    <3>1. g[p] = << >>
      BY <1>4, <1>15, <2>1, Zenon DEF Shows
    <3>2. QED
      BY <1>11, <3>1, SubNone, Zenon
  <2>2. CASE \A i \in 1 .. Len(r) : ~Inside(r[i], p)
    <3>1. g[p] = << <<"text", p>> >>
      BY <1>4, <2>2, Zenon DEF Shows
    <3>2. QED
      BY <1>11, <1>13, <3>1, Zenon
  <2>3. QED
    BY <2>1, <2>2, Zenon
<1>16. Dots(q, t, r, xs, Len(r))
  BY <1>7, <1>10, <1>14, <1>15, Zenon DEF Dots
<1>17. FlattenSeq(q) = xs
  BY <1>1, <1>16, DotsAll, Zenon
<1>18. QED
  BY <1>9, <1>10, <1>17, Zenon DEF SubsEach, q, g, xs

\* The marks once the first j tokens are replaced.
Revealed(r, by, j) == [i \in 1 .. Len(r) |-> IF i <= j THEN by[i] ELSE <<TokensOf(r)[i]>>]

\* What stands for the spans holds no token.
NoToken(by, r) ==
  /\ by \in [1 .. Len(r) -> Seq(Symbol)]
  /\ \A i \in 1 .. Len(r) : \A p \in 1 .. Len(by[i]) : by[i][p][1] \notin Names

\* One turn of the loop of reveal_tenant makes h of g.
Turned(g, h, x, by) == Replace(FlattenSeq(g), x, by) = FlattenSeq(h)

\* Replacing the j-th token changes the j-th span and nothing else.
LEMMA ReplaceTurn ==
  ASSUME NEW t, Text(t), NEW r, Line(r, t), NEW by, NoToken(by, r), NEW j \in 1 .. Len(r),
         NEW g, Shows(g, t, r, Revealed(r, by, j - 1), 1),
         NEW h, Shows(h, t, r, Revealed(r, by, j), 1)
  PROVE  Turned(g, h, TokensOf(r)[j], by[j])
<1> DEFINE n == Len(r)
           xs == TokensOf(r)
           phi == Instead(xs[j], by[j])
           mk == Revealed(r, by, j - 1)
           mk2 == Revealed(r, by, j)
<1>1. /\ n \in Nat /\ t.size \in Nat
      /\ \A i \in 1 .. n : xs[i] \in Symbol /\ xs[i][1] \in Names
      /\ \A i, k \in 1 .. n : xs[i] = xs[k] => i = k
  BY TokensAre, LineFacts, Zenon
<1>2. \A i \in 1 .. n : mk[i] = IF i <= j - 1 THEN by[i] ELSE <<xs[i]>>
  BY Zenon DEF Revealed
<1>3. \A i \in 1 .. n : mk2[i] = IF i <= j THEN by[i] ELSE <<xs[i]>>
  BY Zenon DEF Revealed
<1>4. by[j] \in Seq(Symbol) /\ \A i \in 1 .. n : by[i] \in Seq(Symbol)
  BY Zenon DEF NoToken
<1>5. g \in [1 .. t.size -> Seq(Symbol)]
  BY Zenon DEF Shows
<1>6. g \in Seq(Seq(Symbol))
  BY <1>1, <1>5, IsSeq, Zenon
<1>7. FlattenSeq(g) \in Seq(Symbol)
  BY <1>6, FlattenType, Zenon
<1> HIDE DEF n, xs, mk, mk2
<1>8. phi \in [Symbol -> Seq(Symbol)] /\ Replace(FlattenSeq(g), xs[j], by[j]) = Sub(FlattenSeq(g), phi)
  BY <1>4, <1>7, ReplaceIsSub, Zenon
<1>9. \A c \in Symbol : phi[c] = IF c = xs[j] THEN by[j] ELSE <<c>>
  BY Zenon DEF Instead
<1> HIDE DEF phi
<1>10. j \in 1 .. n
  BY Zenon DEF n
<1>11. ASSUME NEW c \in Symbol, c[1] \notin Names PROVE phi[c] = <<c>>
  BY <1>1, <1>9, <1>10, <1>11, Zenon
<1>12. ASSUME NEW p \in 1 .. t.size PROVE phi[<<"text", p>>] = << <<"text", p>> >>
  <2>1. p \in Nat
    BY <1>1
  <2>2. <<"text", p>> \in Symbol
    BY <2>1, TextSymbol, Zenon
  <2>3. <<"text", p>>[1] \notin Names
    BY Zenon, NotTokens
  <2>4. QED
    BY <1>11, <2>2, <2>3, Zenon
<1>13. ASSUME NEW i \in 1 .. n PROVE mk2[i] = Sub(mk[i], phi)
  <2>0. i \in 1 .. Len(r)
    BY Zenon DEF n
  <2>1. CASE i < j
    <3>1. i <= j - 1 /\ i <= j
      BY <1>1, <1>10, <2>1
    <3>2. mk[i] = by[i] /\ mk2[i] = by[i] /\ by[i] \in Seq(Symbol)
      BY <1>2, <1>3, <1>4, <3>1, Zenon
    <3>3. ASSUME NEW p \in 1 .. Len(by[i]) PROVE phi[by[i][p]] = <<by[i][p]>>
      <4>1. by[i][p] \in Symbol
        BY <3>2
      <4>2. by[i][p][1] \notin Names
        BY <2>0, Zenon DEF NoToken
      <4>3. QED
        BY <1>11, <4>1, <4>2, Zenon
    <3>4. Sub(by[i], phi) = by[i]
      <4>1. Keeps(phi, by[i])
        BY <3>3, Zenon DEF Keeps
      <4>2. QED
        BY <1>8, <3>2, <4>1, SubSame, Zenon
    <3>5. QED
      BY <3>2, <3>4, Zenon
  <2>2. CASE i = j
    <3>1. ~(i <= j - 1) /\ i <= j
      BY <1>1, <1>10, <2>2
    <3>2. mk[i] = <<xs[i]>> /\ mk2[i] = by[i]
      BY <1>2, <1>3, <3>1, Zenon
    <3>3. Sub(<<xs[i]>>, phi) = phi[xs[i]]
      BY <1>1, <1>8, SubOne, Zenon
    <3>4. phi[xs[i]] = by[i]
      BY <1>1, <1>9, <2>2, Zenon
    <3>5. QED
      BY <3>2, <3>3, <3>4, Zenon
  <2>3. CASE i > j
    <3>1. ~(i <= j - 1) /\ ~(i <= j) /\ i # j
      BY <1>1, <1>10, <2>3
    <3>2. mk[i] = <<xs[i]>> /\ mk2[i] = <<xs[i]>>
      BY <1>2, <1>3, <3>1, Zenon
    <3>3. Sub(<<xs[i]>>, phi) = phi[xs[i]]
      BY <1>1, <1>8, SubOne, Zenon
    <3>4. phi[xs[i]] = <<xs[i]>>
      BY <1>1, <1>9, <1>10, <3>1, Zenon
    <3>5. QED
      BY <3>2, <3>3, <3>4, Zenon
  <2>4. i < j \/ i = j \/ i > j
    BY <1>1, <1>10
  <2>5. QED
    BY <2>1, <2>2, <2>3, <2>4, Zenon
<1>14. Shows(EachSub(g, phi), t, r, mk2, 1) /\ SubsEach(g, phi)
  <2>1. Shows(g, t, r, mk, 1)
    BY Zenon DEF mk
  <2>2. SubMarks(mk2, mk, phi, r)
    BY <1>13, Zenon DEF n, SubMarks
  <2>3. KeepsText(phi, t)
    BY <1>12, Zenon DEF KeepsText
  <2>4. QED
    BY <1>8, <2>1, <2>2, <2>3, SubShows, Zenon
<1>15. EachSub(g, phi) = h
  <2>1. Shows(h, t, r, mk2, 1)
    BY Zenon DEF mk2
  <2>2. QED
    BY <1>14, <2>1, ShowsUnique, Zenon
<1>16. QED
  BY <1>8, <1>14, <1>15, Zenon DEF SubsEach, Turned, xs

\* by gives each span its original, or a mark where its token cannot be read.
Originals(by, r, matches, failing) ==
  \A i \in 1 .. Len(r) :
    by[i] = IF i \in failing THEN << <<"unrecoverable", i>> >> ELSE matches[i]

\* The whole loop of reveal_tenant.
LEMMA RevealShows ==
  ASSUME NEW t, Text(t), NEW r, Line(r, t), NEW by, NoToken(by, r), NEW matches, NEW failing,
         Originals(by, r, matches, failing)
  PROVE  RevealTenant(FlattenSeq(Tokenized(t, r)), matches, failing) =
           FlattenSeq(Pieces(t, r, Revealed(r, by, Len(r)), 1))
<1> DEFINE n == Len(r)
           out == FlattenSeq(Tokenized(t, r))
           xs == TokensOf(r)
           Original(x) == IF x[2] \in failing THEN << <<"unrecoverable", x[2]>> >> ELSE matches[x[2]]
           E(h) == h = [i \in 0 .. Len(xs) |->
                         IF i = 0 THEN out ELSE Replace(h[i - 1], xs[i], Original(xs[i]))]
           text == CHOOSE h : E(h)
           G(j) == Pieces(t, r, Revealed(r, by, j), 1)
           e == [i \in 0 .. n |-> FlattenSeq(G(i))]
<1>1. ExtractPlaceholders(out) = xs
  BY ExtractsTokens, Zenon
<1>2. RevealTenant(out, matches, failing) = text[Len(xs)]
  BY <1>1, Zenon DEF RevealTenant
<1>3. /\ n \in Nat /\ xs \in [1 .. n -> Symbol]
      /\ \A i \in 1 .. n : xs[i] \in Symbol /\ xs[i][2] = i
  BY TokensAre, LineFacts, Zenon
<1>4. Len(xs) = n
  <2> HIDE DEF xs, n
  <2> QED BY <1>3, IsSeq, Zenon
<1>5. \A i \in 1 .. n : Original(xs[i]) = by[i]
  BY <1>3, Zenon DEF Originals
<1>6. ASSUME NEW j \in 0 .. n PROVE Marks(Revealed(r, by, j), r)
  <2>1. \A i \in 1 .. n : by[i] \in Seq(Symbol)
    BY Zenon DEF NoToken
  <2>2. ASSUME NEW x \in Symbol PROVE <<x>> \in Seq(Symbol)
    OBVIOUS
  <2>3. \A i \in 1 .. n : <<xs[i]>> \in Seq(Symbol)
    BY <1>3, <2>2, Zenon
  <2>4. QED
    BY <2>1, <2>3, Zenon DEF Marks, Revealed
<1>7. 1 \in 1 .. n + 1
  BY <1>3
<1>8. \A j \in 0 .. n : Shows(G(j), t, r, Revealed(r, by, j), 1)
  BY <1>6, <1>7, PiecesShow, Zenon
<1>9. G(0) = Tokenized(t, r)
  <2>1. \A i \in 1 .. n : ~(i <= 0)
    BY <1>3
  <2>2. Revealed(r, by, 0) = Single(xs, r)
    BY <2>1, Zenon DEF Revealed, Single
  <2>3. QED
    BY <2>2, Zenon DEF Tokenized
<1> HIDE DEF G
<1>10. ASSUME NEW j \in 1 .. n PROVE Replace(FlattenSeq(G(j - 1)), xs[j], by[j]) = FlattenSeq(G(j))
  <2>1. j \in 0 .. n /\ j - 1 \in 0 .. n
    BY <1>3
  <2>2. Shows(G(j), t, r, Revealed(r, by, j), 1) /\ Shows(G(j - 1), t, r, Revealed(r, by, j - 1), 1)
    BY <1>8, <2>1, Zenon
  <2>3. Turned(G(j - 1), G(j), TokensOf(r)[j], by[j])
    BY <2>2, ReplaceTurn, Zenon
  <2>4. QED
    BY <2>3, Zenon DEF Turned
<1>11. 0 \in 0 .. n /\ \A i \in 0 .. n : i = 0 \/ (i # 0 /\ i \in 1 .. n /\ i - 1 \in 0 .. n)
  BY <1>3
<1> HIDE DEF n, xs, out, Original
<1>12. e[0] = out
  BY <1>9, <1>11, Zenon DEF out
<1>13. ASSUME NEW i \in 0 .. n
       PROVE  e[i] = IF i = 0 THEN out ELSE Replace(e[i - 1], xs[i], Original(xs[i]))
  <2>1. CASE i = 0
    BY <1>12, <2>1, Zenon
  <2>2. CASE i # 0
    <3>1. i \in 1 .. n /\ i - 1 \in 0 .. n
      BY <1>11, <2>2, Zenon
    <3>2. e[i] = FlattenSeq(G(i)) /\ e[i - 1] = FlattenSeq(G(i - 1))
      BY <3>1, Zenon
    <3>3. QED
      BY <1>5, <1>10, <2>2, <3>1, <3>2, Zenon
  <2>3. QED
    BY <2>1, <2>2, Zenon
<1>14. E(e)
  BY <1>4, <1>13, Zenon
<1>15. E(text)
  BY <1>14, Zenon
<1> HIDE DEF text
<1>16. \A i \in 0 .. n : text[i] = IF i = 0 THEN out ELSE Replace(text[i - 1], xs[i], Original(xs[i]))
  BY <1>4, <1>15, Zenon
<1> HIDE DEF E, e
<1> DEFINE P(k) == k <= n => text[k] = FlattenSeq(G(k))
<1>17. P(0)
  BY <1>9, <1>11, <1>16, Zenon DEF out
<1>18. ASSUME NEW k \in Nat, P(k) PROVE P(k + 1)
  <2> SUFFICES ASSUME k + 1 <= n PROVE text[k + 1] = FlattenSeq(G(k + 1))
    BY Zenon
  <2>1. k + 1 \in 1 .. n /\ k + 1 \in 0 .. n /\ (k + 1) - 1 = k /\ k <= n /\ k + 1 # 0
    BY <1>3
  <2>2. text[k + 1] = Replace(text[k], xs[k + 1], by[k + 1])
    BY <1>5, <1>16, <2>1, Zenon
  <2>3. Replace(FlattenSeq(G(k)), xs[k + 1], by[k + 1]) = FlattenSeq(G(k + 1))
    BY <1>10, <2>1, Zenon
  <2>4. QED
    BY <1>18, <2>1, <2>2, <2>3, Zenon
<1>19. \A k \in Nat : P(k)
  <2> HIDE DEF P
  <2> DEFINE T == {k \in Nat : P(k)}
  <2>1. 0 \in T /\ \A k \in Nat : k \in T => k + 1 \in T
    BY <1>17, <1>18
  <2> HIDE DEF T
  <2>2. \A k \in Nat : k \in T
    BY <2>1, Inductive, Zenon
  <2>3. QED
    BY <2>2, Zenon DEF T
<1>20. n <= n
  BY <1>3
<1>21. text[n] = FlattenSeq(G(n))
  BY <1>3, <1>19, <1>20, Zenon
<1>22. QED
  BY <1>2, <1>4, <1>21, Zenon DEF G, n, out

\* The number of the token of each span of r.
Numbers(r) == [m \in Range(r) |-> CHOOSE i \in 1 .. Len(r) : r[i] = m]

\* Tokens are numbered from left to right.
LEMMA TokenNumbers ==
  ASSUME NEW t, Text(t), NEW r, Line(r, t)
  PROVE  /\ Numbers(r) \in [Range(r) -> 1 .. Len(r)]
         /\ \A i \in 1 .. Len(r) : r[i] \in Range(r) /\ Numbers(r)[r[i]] = i
         /\ \A x, y \in Range(r) : x.s < y.s => Numbers(r)[x] < Numbers(r)[y]
<1>1. /\ Len(r) \in Nat /\ DOMAIN r = 1 .. Len(r)
      /\ \A j \in 1 .. Len(r) : r[j].s \in Nat /\ r[j].e \in Nat /\ r[j].s < r[j].e
      /\ \A j, k \in 1 .. Len(r) : j < k => r[j].e <= r[k].s
      /\ \A j, k \in 1 .. Len(r) : r[j] = r[k] => j = k
  BY LineFacts, Zenon
<1>2. \A x : x \in Range(r) <=> \E j \in 1 .. Len(r) : r[j] = x
  BY <1>1, Zenon DEF Range
<1>3. \A i \in 1 .. Len(r) : r[i] \in Range(r) /\ Numbers(r)[r[i]] = i
  BY <1>1, <1>2, Zenon DEF Numbers
<1>4. Numbers(r) \in [Range(r) -> 1 .. Len(r)]
  BY <1>2, Zenon DEF Numbers
<1>5. ASSUME NEW x \in Range(r), NEW y \in Range(r), x.s < y.s
      PROVE  Numbers(r)[x] < Numbers(r)[y]
  <2>1. PICK i \in 1 .. Len(r) : r[i] = x
    BY <1>2, Zenon
  <2>2. PICK j \in 1 .. Len(r) : r[j] = y
    BY <1>2, Zenon
  <2>3. /\ x.s \in Nat /\ y.s \in Nat /\ y.e \in Nat /\ y.s < y.e
        /\ (j < i => y.e <= x.s) /\ (i = j => x = y)
    BY <1>1, <2>1, <2>2, Zenon
  <2>4. i \in Nat /\ j \in Nat
    BY <1>1
  <2>5. i < j
    BY <1>5, <2>3, <2>4
  <2>6. QED
    BY <1>3, <2>1, <2>2, <2>5, Zenon
<1>6. QED
  BY <1>3, <1>4, <1>5, Zenon

\* reveal_tenant restores the content but for the tokens it cannot read.
LEMMA RevealIsExact ==
  ASSUME NEW t, Text(t)
  PROVE  RevealsExactly(t)
<1> DEFINE spans == CollectSpans(t)
           r == ByStart(spans)
           s == Range(spans)
           n == Len(r)
           redacted == Rebuild(Content(t), r, [i \in DOMAIN r |-> <<r[i].tag, i>>])
           matches == [i \in DOMAIN r |-> SubSeq(Content(t), r[i].s + 1, r[i].e)]
           number == Numbers(r)
<1>1. Line(r, t) /\ Range(r) = s
  BY ByStartRight, Zenon DEF CollectSpans
<1>2. RedactReversible(t).redacted = redacted /\ RedactReversible(t).matches = matches
  BY Zenon DEF RedactReversible
<1> HIDE DEF r, s
<1>3. /\ n \in Nat /\ DOMAIN r = 1 .. n /\ t.size \in Nat
      /\ \A i \in 1 .. n : r[i].s \in Nat /\ r[i].e \in Nat /\ r[i].s < r[i].e /\ r[i].e <= t.size
  BY <1>1, LineFacts, Zenon
<1>4. /\ number \in [s -> 1 .. n] /\ \A i \in 1 .. n : r[i] \in s /\ number[r[i]] = i
      /\ \A x, y \in s : x.s < y.s => number[x] < number[y]
  BY <1>1, TokenNumbers, Zenon
<1> HIDE DEF number
<1>5. redacted = FlattenSeq(Tokenized(t, r))
  <2>1. [i \in DOMAIN r |-> <<r[i].tag, i>>] = TokensOf(r)
    BY <1>3, Zenon DEF TokensOf
  <2>2. TokensOf(r) \in [1 .. Len(r) -> Symbol]
    BY <1>1, TokensAre, Zenon
  <2>3. Rebuild(Content(t), r, TokensOf(r)) = FlattenSeq(Pieces(t, r, Single(TokensOf(r), r), 1))
    BY <1>1, <2>2, RebuildShows, Zenon
  <2>4. QED
    BY <2>1, <2>3, Zenon DEF Tokenized
<1>6. DOMAIN matches = 1 .. n /\ \A i \in 1 .. n : matches[i] = SubSeq(Content(t), r[i].s + 1, r[i].e)
  BY <1>3, Zenon
<1> HIDE DEF redacted, matches
<1>7. ASSUME NEW i \in 1 .. n
      PROVE  matches[i] \in Seq(Symbol) /\ \A p \in 1 .. Len(matches[i]) : matches[i][p][1] = "text"
  <2> DEFINE a == r[i].s
             b == r[i].e
             c == Content(t)
  <2>1. a \in Nat /\ b \in Nat /\ a <= b /\ b <= t.size
    BY <1>3
  <2>2. c \in Seq(Symbol) /\ Len(c) = t.size /\ \A p \in 1 .. t.size : c[p] = <<"text", p>>
    <3>1. \A p \in 1 .. t.size : p \in Nat
      BY <1>3
    <3>2. c \in [1 .. t.size -> Symbol] /\ \A p \in 1 .. t.size : c[p] = <<"text", p>>
      BY <3>1, TextSymbol, Zenon DEF Content
    <3> HIDE DEF c
    <3>3. QED
      BY <1>3, <3>2, IsSeq, Zenon
  <2>3. matches[i] = SubSeq(c, a + 1, b)
    BY <1>6, Zenon
  <2> HIDE DEF a, b, c
  <2>4. IsPart(SubSeq(c, a + 1, b), c, a, b, Symbol)
    BY <2>1, <2>2, PartIs, Zenon
  <2>5. \A p \in 1 .. b - a : a + p \in 1 .. t.size
    BY <1>3, <2>1
  <2>6. matches[i] \in Seq(Symbol) /\ Len(matches[i]) = b - a
        /\ \A p \in 1 .. b - a : matches[i][p] = <<"text", a + p>>
    BY <2>2, <2>3, <2>4, <2>5, Zenon DEF IsPart
  <2>7. \A p : <<"text", a + p>>[1] = "text"
    BY Zenon
  <2>8. QED
    BY <2>6, <2>7, Zenon
<1>8. ASSUME NEW failing \in SUBSET (DOMAIN matches)
      PROVE  RevealTenant(redacted, matches, failing) =
               LeftToRight(t, s, [m \in s |->
                 IF number[m] \in failing THEN << <<"unrecoverable", number[m]>> >>
                 ELSE SubSeq(Content(t), m.s + 1, m.e)])
  <2> DEFINE by == [i \in 1 .. n |->
                     IF i \in failing THEN << <<"unrecoverable", i>> >> ELSE matches[i]]
             mk == Revealed(r, by, n)
             mark == [m \in s |->
                 IF number[m] \in failing THEN << <<"unrecoverable", number[m]>> >>
                 ELSE SubSeq(Content(t), m.s + 1, m.e)]
             g == Pieces(t, r, mk, 1)
  <2>1. ASSUME NEW i \in 1 .. n
        PROVE  LET u == << <<"unrecoverable", i>> >>
               IN u \in Seq(Symbol) /\ \A p \in 1 .. Len(u) : u[p][1] \notin Names
    <3>1. i \in Nat
      BY <1>3
    <3>2. <<"unrecoverable", i>> \in Symbol
      BY Zenon, <3>1 DEF Symbol
    <3>3. << <<"unrecoverable", i>> >> \in Seq(Symbol)
      <4>1. ASSUME NEW c \in Symbol PROVE <<c>> \in Seq(Symbol)
        OBVIOUS
      <4>2. QED
        BY <3>2, <4>1, Zenon
    <3>4. \A p \in 1 .. Len(<< <<"unrecoverable", i>> >>) : << <<"unrecoverable", i>> >>[p][1] = "unrecoverable"
      OBVIOUS
    <3>5. QED
      BY <3>3, <3>4, NotTokens, Zenon
  <2>2. ASSUME NEW i \in 1 .. n
        PROVE  by[i] \in Seq(Symbol) /\ \A p \in 1 .. Len(by[i]) : by[i][p][1] \notin Names
    <3>1. CASE i \in failing
      <4>1. by[i] = << <<"unrecoverable", i>> >>
        BY <3>1, Zenon
      <4>2. QED
        BY <2>1, <4>1, Zenon
    <3>2. CASE i \notin failing
      <4>1. by[i] = matches[i]
        BY <3>2, Zenon
      <4>2. QED
        BY <1>7, <4>1, NotTokens, Zenon
    <3>3. QED
      BY <3>1, <3>2, Zenon
  <2>3. by = [i \in 1 .. n |-> by[i]]
    BY Zenon
  <2>4. \A i \in 1 .. n : by[i] = IF i \in failing THEN << <<"unrecoverable", i>> >> ELSE matches[i]
    BY Zenon
  <2>5. \A i \in 1 .. n : mark[r[i]] = IF i \in failing THEN << <<"unrecoverable", i>> >>
                                       ELSE SubSeq(Content(t), r[i].s + 1, r[i].e)
    BY <1>4, Zenon
  <2> HIDE DEF by, mark
  <2>6. NoToken(by, r)
    <3>1. by \in [1 .. n -> Seq(Symbol)]
      BY <2>2, <2>3, Zenon
    <3>2. QED
      BY <2>2, <3>1, Zenon DEF NoToken
  <2>7. RevealTenant(FlattenSeq(Tokenized(t, r)), matches, failing) = FlattenSeq(g)
    <3>1. Originals(by, r, matches, failing)
      BY <2>4, Zenon DEF Originals
    <3>2. QED
      BY <1>1, <2>6, <3>1, RevealShows, Zenon
  <2>8. \A i \in 1 .. n : i <= n
    BY <1>3
  <2>9. \A i \in 1 .. n : mk[i] = by[i]
    BY <2>8, Zenon DEF Revealed
  <2>10. \A i \in 1 .. n : mark[r[i]] = mk[i]
    BY <1>6, <2>4, <2>5, <2>9, Zenon
  <2>11. Marks(mk, r)
    <3>1. mk = [i \in 1 .. n |-> mk[i]]
      BY Zenon DEF Revealed
    <3> HIDE DEF mk
    <3>2. mk \in [1 .. n -> Seq(Symbol)]
      BY <2>2, <2>9, <3>1, Zenon
    <3>3. QED
      BY <3>2, Zenon DEF Marks
  <2> HIDE DEF mk
  <2>12. 1 \in 1 .. n + 1
    BY <1>3
  <2>13. Shows(g, t, r, mk, 1)
    BY <1>1, <2>11, <2>12, PiecesShow, Zenon
  <2> HIDE DEF g
  <2>14. LeftToRight(t, Range(r), mark) = FlattenSeq(g)
    BY <1>1, <2>10, <2>11, <2>13, LeftShows, Zenon
  <2>15. QED
    BY <1>1, <1>5, <2>7, <2>14, Zenon DEF mark
<1>9. number \in [s -> DOMAIN RedactReversible(t).matches]
  BY <1>2, <1>4, <1>6, Zenon
<1>10. QED
  BY <1>2, <1>4, <1>8, <1>9, Zenon DEF RevealsExactly, s
=============================================================================
