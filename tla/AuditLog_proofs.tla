--------------------------- MODULE AuditLog_proofs ---------------------------
(***************************************************************************)
(* Proofs about AuditLog: what the query of the audit log returns, for any *)
(* log, filter, cursor and page size.                                      *)
(*                                                                         *)
(* The entries that pass a filter are selected by recursion over the log.  *)
(* What holds of them for every log is proved by the least number for      *)
(* which it would not hold, so that no induction rule is needed that takes *)
(* a predicate.                                                            *)
(***************************************************************************)
EXTENDS AuditLog, FiniteSetTheorems, SequenceTheorems, TLAPS

-----------------------------------------------------------------------------
(* The least number                                                        *)

\* A set of natural numbers has a least element, because the sets 0..n are
\* finite and none of them has infinitely many smaller ones.
LEMMA LeastNumber ==
    ASSUME NEW S, S \subseteq Nat, S # {}
    PROVE  \E n \in S : \A m \in S : n <= m
<1> DEFINE T == {0..n : n \in S}
<1>1. T \subseteq FiniteSubsetsOf(Nat) /\ T # {}
  <2>1. \A n \in Nat : IsFiniteSet(0..n) /\ 0..n \subseteq Nat
    BY FS_Interval
  <2> QED
    BY <2>1 DEF FiniteSubsetsOf
<1>2. PICK X \in T : \A Y \in T : ~ (<<Y, X>> \in StrictSubsetOrdering(Nat))
  <2> HIDE DEF T
  <2> QED
    BY <1>1, FS_StrictSubsetOrderingWellFounded, WFMin
<1>3. PICK n \in S : X = 0..n
  OBVIOUS
<1>4. ASSUME NEW m \in S, m < n
      PROVE  FALSE
  <2>1. /\ 0..m \subseteq Nat /\ 0..n \subseteq Nat
        /\ 0..m \subseteq 0..n /\ 0..m # 0..n
    <3>1. n \in 0..n /\ n \notin 0..m
      BY <1>4
    <3> QED
      BY <1>4, <3>1
  <2>2. <<0..m, 0..n>> \in StrictSubsetOrdering(Nat)
    BY <2>1 DEF StrictSubsetOrdering
  <2> QED
    BY <1>2, <1>3, <2>2
<1> QED
  BY <1>4

\* Induction over 0..n, for the numbers at which something holds.
LEMMA UpTo ==
    ASSUME NEW n \in Nat, NEW Good, 0 \in Good,
           \A k \in 1..n : k - 1 \in Good => k \in Good
    PROVE  0..n \subseteq Good
<1> DEFINE Bad == {k \in 0..n : k \notin Good}
<1>1. ASSUME Bad # {}
      PROVE  FALSE
  <2>0. Bad \subseteq Nat
    OBVIOUS
  <2>1. PICK k \in Bad : \A m \in Bad : k <= m
    <3> HIDE DEF Bad
    <3> QED
      BY <1>1, <2>0, LeastNumber
  <2>2. k \in 1..n /\ k - 1 \in 0..n /\ ~ (k <= k - 1)
    BY <2>1
  <2>3. k - 1 \in Good
    BY <2>1, <2>2
  <2> QED
    BY <2>1, <2>2, <2>3
<1> QED
  BY <1>1

-----------------------------------------------------------------------------
(* The recursion                                                           *)

\* The body of the recursion of NewestFirst.
SelectStep(s, f, g, n) ==
    IF n = 0 THEN <<>> ELSE IF Passes(s[n], f) THEN <<s[n]>> \o g[n - 1] ELSE g[n - 1]

Computes(g, s, f, k) == g = [n \in 0..k |-> SelectStep(s, f, g, n)]

\* What of the first n entries passes, newest first.
Newest(s, f, n) == (CHOOSE g : Computes(g, s, f, Len(s)))[n]

\* NewestFirst is that of the whole log.
LEMMA Unfold == \A s, f : NewestFirst(s, f) = Newest(s, f, Len(s))
BY DEF NewestFirst, Newest, Computes, SelectStep

\* There is a function that the recursion describes.
LEMMA Computable ==
    ASSUME NEW s, NEW f, NEW n \in Nat
    PROVE  \E g : Computes(g, s, f, n)
<1> DEFINE Good == {k \in Nat : \E g : Computes(g, s, f, k)}
<1>1. 0 \in Good
  <2> DEFINE g == [k \in 0..0 |-> <<>>]
  <2>1. Computes(g, s, f, 0)
    BY DEF Computes, SelectStep
  <2> QED
    BY <2>1
<1>2. ASSUME NEW k \in 1..n, k - 1 \in Good
      PROVE  k \in Good
  <2>1. PICK g : Computes(g, s, f, k - 1)
    BY <1>2
  <2> DEFINE h == [m \in 0..k |-> IF m = k THEN SelectStep(s, f, g, k) ELSE g[m]]
  <2>2. \A m \in 0..(k - 1) : g[m] = SelectStep(s, f, g, m)
    BY <2>1 DEF Computes
  <2>3. \A m \in 0..(k - 1) : h[m] = g[m]
    OBVIOUS
  <2>4. ASSUME NEW m \in 0..k
        PROVE  SelectStep(s, f, h, m) = SelectStep(s, f, g, m)
    <3>1. m = 0 \/ m - 1 \in 0..(k - 1)
      OBVIOUS
    <3> HIDE DEF h
    <3> QED
      BY <2>3, <3>1 DEF SelectStep
  <2>5. \A m \in 0..k : h[m] = SelectStep(s, f, h, m)
    BY <2>2, <2>4
  <2>6. h = [m \in 0..k |-> h[m]]
    OBVIOUS
  <2> HIDE DEF h
  <2>7. Computes(h, s, f, k)
    BY <2>5, <2>6 DEF Computes
  <2> QED
    BY <2>7
<1> HIDE DEF Good
<1>3. 0..n \subseteq Good
  BY <1>1, <1>2, UpTo
<1> QED
  BY <1>3 DEF Good

\* The recursion, as it is read.
LEMMA Recursion ==
    ASSUME NEW s, NEW f, Len(s) \in Nat
    PROVE  /\ Newest(s, f, 0) = <<>>
           /\ \A n \in 1..Len(s) :
                 Newest(s, f, n) = IF Passes(s[n], f) THEN <<s[n]>> \o Newest(s, f, n - 1)
                                   ELSE Newest(s, f, n - 1)
<1> DEFINE g == CHOOSE g : Computes(g, s, f, Len(s))
<1>1. Computes(g, s, f, Len(s))
  BY Computable
<1>2. \A n : Newest(s, f, n) = g[n]
  BY DEF Newest
<1> HIDE DEF g
<1>3. \A n \in 0..Len(s) : g[n] = SelectStep(s, f, g, n)
  BY <1>1 DEF Computes
<1>4. Newest(s, f, 0) = <<>>
  <2>1. g[0] = SelectStep(s, f, g, 0)
    BY <1>3
  <2> QED
    BY <1>2, <2>1 DEF SelectStep
<1>5. ASSUME NEW n \in 1..Len(s)
      PROVE  Newest(s, f, n) = IF Passes(s[n], f) THEN <<s[n]>> \o Newest(s, f, n - 1)
                               ELSE Newest(s, f, n - 1)
  <2>1. g[n] = SelectStep(s, f, g, n) /\ n # 0
    BY <1>3
  <2> QED
    BY <1>2, <2>1 DEF SelectStep
<1> QED
  BY <1>4, <1>5

\* An entry put in front of others.
LEMMA PutInFront ==
    ASSUME NEW E, NEW old \in Seq(E), NEW e \in E
    PROVE  /\ <<e>> \o old \in Seq(E)
           /\ Len(<<e>> \o old) = Len(old) + 1
           /\ \A i \in 1..(Len(old) + 1) :
                 (<<e>> \o old)[i] = IF i = 1 THEN e ELSE old[i - 1]
<1>1. <<e>> \in Seq(E) /\ Len(<<e>>) = 1 /\ <<e>>[1] = e /\ Len(old) \in Nat
  BY LenProperties
<1> DEFINE one == <<e>>
<1> HIDE DEF one
<1>2. /\ one \o old \in Seq(E) /\ Len(one \o old) = Len(one) + Len(old)
      /\ \A i \in 1..(Len(one) + Len(old)) :
            (one \o old)[i] = IF i <= Len(one) THEN one[i] ELSE old[i - Len(one)]
  BY <1>1, ConcatProperties DEF one
<1>3. Len(one) = 1 /\ one[1] = e
  BY <1>1 DEF one
<1> QED
  BY <1>1, <1>2, <1>3 DEF one

\* An entry occurs in a list of entries.
Occurs(e, list) == \E i \in 1..Len(list) : list[i] = e

\* The recursion returns entries, and those that pass.
LEMMA Selected ==
    ASSUME NEW E, NEW s \in Seq(E), NEW f
    PROVE  \A n \in 0..Len(s) :
              /\ Newest(s, f, n) \in Seq(E)
              /\ \A e : Occurs(e, Newest(s, f, n)) <=>
                        \E i \in 1..n : s[i] = e /\ Passes(e, f)
<1> DEFINE Good == {n \in 0..Len(s) :
                       /\ Newest(s, f, n) \in Seq(E)
                       /\ \A e : Occurs(e, Newest(s, f, n)) <=>
                                 \E i \in 1..n : s[i] = e /\ Passes(e, f)}
<1>0. Len(s) \in Nat /\ \A i \in 1..Len(s) : s[i] \in E
  BY LenProperties, ElementOfSeq
<1>1. 0 \in Good
  <2>1. Newest(s, f, 0) = <<>> /\ 0 \in 0..Len(s)
    BY <1>0, Recursion
  <2>2. <<>> \in Seq(E) /\ Len(<<>>) = 0 /\ 1..0 = {}
    BY EmptySeq
  <2> QED
    BY <2>1, <2>2 DEF Occurs
<1>2. ASSUME NEW n \in 1..Len(s), n - 1 \in Good
      PROVE  n \in Good
  <2> DEFINE old == Newest(s, f, n - 1)
             new == Newest(s, f, n)
  <2>1. /\ old \in Seq(E) /\ n \in 0..Len(s) /\ s[n] \in E
        /\ \A e : Occurs(e, old) <=> \E i \in 1..(n - 1) : s[i] = e /\ Passes(e, f)
    BY <1>0, <1>2
  <2>2. new = IF Passes(s[n], f) THEN <<s[n]>> \o old ELSE old
    BY <1>0, Recursion
  <2> HIDE DEF old, new
  <2>3. CASE ~Passes(s[n], f)
    <3>1. \A e : (\E i \in 1..n : s[i] = e /\ Passes(e, f))
                  <=> \E i \in 1..(n - 1) : s[i] = e /\ Passes(e, f)
      BY <2>3
    <3> QED
      BY <2>1, <2>2, <2>3, <3>1 DEF new
  <2>4. CASE Passes(s[n], f)
    <3>1. /\ new \in Seq(E) /\ Len(new) = Len(old) + 1 /\ Len(old) \in Nat
          /\ new[1] = s[n]
          /\ \A i \in 1..Len(old) : new[i + 1] = old[i]
      <4>1. <<s[n]>> \in Seq(E) /\ Len(<<s[n]>>) = 1 /\ <<s[n]>>[1] = s[n]
        BY <2>1
      <4>2. Len(old) \in Nat
        BY <2>1, LenProperties
      <4> DEFINE one == <<s[n]>>
      <4> HIDE DEF one
      <4>3. /\ one \o old \in Seq(E) /\ Len(one \o old) = Len(one) + Len(old)
            /\ \A i \in 1..(Len(one) + Len(old)) :
                  (one \o old)[i] = IF i <= Len(one) THEN one[i] ELSE old[i - Len(one)]
        BY <2>1, <4>1, ConcatProperties DEF one
      <4>4. new = one \o old /\ Len(one) = 1 /\ one[1] = s[n]
        BY <2>2, <2>4 DEF one
      <4> QED
        BY <4>2, <4>3, <4>4
    <3>2. \A e : Occurs(e, new) <=> e = s[n] \/ Occurs(e, old)
      <4>1. ASSUME NEW e, Occurs(e, new)
            PROVE  e = s[n] \/ Occurs(e, old)
        <5>1. PICK i \in 1..Len(new) : new[i] = e
          BY <4>1 DEF Occurs
        <5>2. i = 1 \/ (i - 1 \in 1..Len(old) /\ new[(i - 1) + 1] = old[i - 1])
          BY <3>1
        <5> QED
          BY <3>1, <5>1, <5>2 DEF Occurs
      <4>2. ASSUME NEW e, Occurs(e, old)
            PROVE  Occurs(e, new)
        <5>1. PICK i \in 1..Len(old) : old[i] = e
          BY <4>2 DEF Occurs
        <5>2. i + 1 \in 1..Len(new) /\ new[i + 1] = e
          BY <3>1, <5>1
        <5> QED
          BY <5>2 DEF Occurs
      <4>3. Occurs(s[n], new)
        BY <3>1 DEF Occurs
      <4> QED
        BY <4>1, <4>2, <4>3
    <3>3. \A e : (\E i \in 1..n : s[i] = e /\ Passes(e, f))
                  <=> e = s[n] \/ \E i \in 1..(n - 1) : s[i] = e /\ Passes(e, f)
      BY <2>4
    <3>4. \A e : Occurs(e, new) <=> \E i \in 1..n : s[i] = e /\ Passes(e, f)
      BY <2>1, <3>2, <3>3
    <3> QED
      BY <2>1, <3>1, <3>4 DEF new
  <2> QED
    BY <2>3, <2>4
<1>3. 0..Len(s) \subseteq Good
  <2> HIDE DEF Good
  <2> QED
    BY <1>0, <1>1, <1>2, UpTo
<1> QED
  BY <1>3

\* Only the first n entries matter.
LEMMA SamePrefix ==
    ASSUME NEW s, NEW t, NEW f, NEW n \in Nat, Len(s) \in Nat, Len(t) \in Nat,
           n <= Len(s), n <= Len(t), \A i \in 1..n : s[i] = t[i]
    PROVE  \A k \in 0..n : Newest(s, f, k) = Newest(t, f, k)
<1> DEFINE Good == {k \in 0..n : Newest(s, f, k) = Newest(t, f, k)}
<1>1. 0 \in Good
  BY Recursion
<1>2. ASSUME NEW k \in 1..n, k - 1 \in Good
      PROVE  k \in Good
  <2>1. s[k] = t[k] /\ k \in 1..Len(s) /\ k \in 1..Len(t) /\ k \in 0..n
    OBVIOUS
  <2>2. Newest(s, f, k - 1) = Newest(t, f, k - 1)
    BY <1>2
  <2> QED
    BY <2>1, <2>2, Recursion
<1>3. 0..n \subseteq Good
  <2> HIDE DEF Good
  <2> QED
    BY <1>1, <1>2, UpTo
<1> QED
  BY <1>3

\* What is written later is put in front.
LEMMA Grows ==
    ASSUME NEW E, NEW s \in Seq(E), NEW f, NEW k \in 0..Len(s)
    PROVE  \E new \in Seq(E) : Newest(s, f, Len(s)) = new \o Newest(s, f, k)
<1> DEFINE old == Newest(s, f, k)
           Good == {j \in 0..(Len(s) - k) :
                       \E new \in Seq(E) : Newest(s, f, k + j) = new \o old}
<1>0. Len(s) \in Nat /\ old \in Seq(E) /\ \A i \in 1..Len(s) : s[i] \in E
  BY LenProperties, ElementOfSeq, Selected
<1>1. 0 \in Good
  <2>1. <<>> \in Seq(E) /\ <<>> \o old = old /\ k + 0 = k
    BY <1>0, ConcatEmptySeq, EmptySeq
  <2> HIDE DEF old
  <2>2. Newest(s, f, k + 0) = <<>> \o old
    BY <2>1 DEF old
  <2>3. 0 \in 0..(Len(s) - k)
    BY <1>0
  <2> QED
    BY <2>1, <2>2, <2>3
<1>2. ASSUME NEW j \in 1..(Len(s) - k), j - 1 \in Good
      PROVE  j \in Good
  <2>1. PICK new \in Seq(E) : Newest(s, f, k + (j - 1)) = new \o old
    BY <1>2
  <2>2. k + j \in 1..Len(s) /\ (k + j) - 1 = k + (j - 1) /\ j \in 0..(Len(s) - k)
    BY <1>0
  <2>3. Newest(s, f, k + j) = IF Passes(s[k + j], f) THEN <<s[k + j]>> \o (new \o old)
                              ELSE new \o old
    BY <1>0, <2>1, <2>2, Recursion
  <2> DEFINE one == <<s[k + j]>>
  <2>4. one \in Seq(E)
    BY <1>0, <2>2
  <2>5. one \o new \in Seq(E)
    BY <2>4, ConcatProperties
  <2> HIDE DEF one, old, Good
  <2>6. one \o (new \o old) = (one \o new) \o old
    <3>1. old \in Seq(E) /\ one \in Seq(E)
      BY <1>0, <2>4 DEF one
    <3> QED
      BY <3>1, ConcatAssociative, SMTT(30)
  <2>7. \E front \in Seq(E) : Newest(s, f, k + j) = front \o old
    BY <2>3, <2>5, <2>6 DEF one
  <2> QED
    BY <2>2, <2>7 DEF Good
<1> DEFINE m == Len(s) - k
<1>3. m \in Nat /\ k + m = Len(s)
  BY <1>0
<1> HIDE DEF Good, m
<1>4. 0..m \subseteq Good
  BY <1>1, <1>2, <1>3, UpTo DEF m
<1>5. m \in Good
  BY <1>3, <1>4
<1> QED
  BY <1>3, <1>5 DEF Good

\* Entries have ids of their own.
OwnIds(s) == \A i, j \in 1..Len(s) : s[i].id = s[j].id => i = j

\* So do the entries of a log that pass.
LEMMA OwnIdsSelected ==
    ASSUME NEW E, NEW s \in Seq(E), NEW f, OwnIds(s)
    PROVE  \A n \in 0..Len(s) : OwnIds(Newest(s, f, n))
<1> DEFINE Good == {n \in 0..Len(s) : OwnIds(Newest(s, f, n))}
<1>0. Len(s) \in Nat
  BY LenProperties
<1>1. 0 \in Good
  BY <1>0, Recursion DEF OwnIds
<1>2. ASSUME NEW n \in 1..Len(s), n - 1 \in Good
      PROVE  n \in Good
  <2> DEFINE old == Newest(s, f, n - 1)
             new == Newest(s, f, n)
  <2>1. n \in 0..Len(s) /\ n - 1 \in 0..Len(s)
    BY <1>0
  <2>2. new = IF Passes(s[n], f) THEN <<s[n]>> \o old ELSE old
    BY <1>0, Recursion
  <2>3. old \in Seq(E) /\ OwnIds(old) /\ Len(old) \in Nat
    BY <1>2, <2>1, Selected, LenProperties
  <2>4. ASSUME NEW i \in 1..Len(old)
        PROVE  old[i].id # s[n].id
    <3>1. Occurs(old[i], old)
      BY DEF Occurs
    <3>2. PICK m \in 1..(n - 1) : s[m] = old[i]
      BY <2>1, <3>1, Selected, SMTT(30)
    <3>3. m \in 1..Len(s) /\ m # n
      BY <1>0
    <3> QED
      BY <3>2, <3>3 DEF OwnIds
  <2> HIDE DEF old, new
  <2>5. CASE Passes(s[n], f)
    <3>1. /\ Len(new) = Len(old) + 1
          /\ \A i \in 1..Len(new) : new[i] = IF i = 1 THEN s[n] ELSE old[i - 1]
      BY <2>2, <2>3, <2>5, PutInFront, ElementOfSeq
    <3>2. ASSUME NEW i \in 1..Len(new), NEW j \in 1..Len(new), new[i].id = new[j].id
          PROVE  i = j
      <4>1. /\ i = 1 \/ i - 1 \in 1..Len(old)
            /\ j = 1 \/ j - 1 \in 1..Len(old)
            /\ i \in Nat /\ j \in Nat
        BY <2>3, <3>1
      <4>2. (i - 1) = (j - 1) => i = j
        BY <4>1
      <4>3. \A x, y \in 1..Len(old) : old[x].id = old[y].id => x = y
        BY <2>3 DEF OwnIds
      <4> QED
        BY <2>4, <3>1, <3>2, <4>1, <4>2, <4>3, ZenonT(60)
    <3>3. OwnIds(new)
      BY <3>2 DEF OwnIds
    <3> QED
      BY <2>1, <3>3 DEF new
  <2> QED
    BY <2>1, <2>2, <2>3, <2>5 DEF new
<1>3. 0..Len(s) \subseteq Good
  <2> HIDE DEF Good
  <2> QED
    BY <1>0, <1>1, <1>2, UpTo
<1> QED
  BY <1>3

-----------------------------------------------------------------------------
(* The pages                                                               *)

\* Behind its entry, a cursor leaves what it would have left when the entries
\* in front were not there.
LEMMA Behind ==
    ASSUME NEW E, NEW new \in Seq(E), NEW old \in Seq(E), OwnIds(new \o old),
           NEW p \in 1..Len(old)
    PROVE  AfterCursor(new \o old, old[p].id) = SubSeq(old, p + 1, Len(old))
<1> DEFINE F == new \o old
           c == old[p].id
           n == Len(new)
           o == Len(old)
           at == CHOOSE i \in DOMAIN F : F[i].id = c
<1>1. /\ n \in Nat /\ o \in Nat /\ F \in Seq(E) /\ Len(F) = n + o /\ DOMAIN F = 1..(n + o)
      /\ \A i \in 1..(n + o) : F[i] = IF i <= n THEN new[i] ELSE old[i - n]
      /\ \A i \in 1..o : old[i] \in E
  BY ConcatProperties, LenProperties, ElementOfSeq
<1>2. n + p \in 1..(n + o) /\ F[n + p] = old[p]
  <2>1. n + p \in 1..(n + o) /\ ~(n + p <= n) /\ (n + p) - n = p
    BY <1>1
  <2> QED
    BY <1>1, <2>1
<1> HIDE DEF F, n, o, c
<1>3. \A i, j \in 1..(n + o) : F[i].id = F[j].id => i = j
  BY <1>1 DEF OwnIds, F
<1>4. F[n + p].id = c
  BY <1>2 DEF c
<1>5. at \in 1..(n + o) /\ F[at].id = c
  BY <1>1, <1>2, <1>4
<1> HIDE DEF at
<1>6. at = n + p
  BY <1>2, <1>3, <1>4, <1>5
<1>7. AfterCursor(F, c) = SubSeq(F, n + p + 1, n + o)
  <2>1. \E i \in DOMAIN F : F[i].id = c
    BY <1>1, <1>2, <1>4
  <2>2. AfterCursor(F, c) = SubSeq(F, at + 1, Len(F))
    BY <2>1 DEF AfterCursor, at
  <2> QED
    BY <1>1, <1>6, <2>2
<1>8. p \in 1..o /\ p \in Int /\ o \in Int /\ n \in Int
  BY <1>1 DEF o
<1> DEFINE x == SubSeq(F, n + p + 1, n + o)
           y == SubSeq(old, p + 1, o)
<1>9. /\ x \in Seq(E) /\ Len(x) = o - p
      /\ \A i \in 1..(o - p) : x[i] = F[n + p + i]
  <2>1. \A i \in (n + p + 1)..(n + o) : F[i] \in E
    <3>1. \A i \in 1..(n + o) : F[i] \in E
      BY <1>1, ElementOfSeq
    <3> QED
      BY <1>1, <1>8, <3>1
  <2>2. n + p + 1 \in Int /\ n + o \in Int
    BY <1>8
  <2>3. /\ x \in Seq(E)
        /\ Len(x) = IF n + p + 1 <= n + o THEN (n + o) - (n + p + 1) + 1 ELSE 0
        /\ \A i \in 1..((n + o) - (n + p + 1) + 1) : x[i] = F[(n + p + 1) + i - 1]
    <3> HIDE DEF x
    <3> QED
      BY <2>1, <2>2, SubSeqProperties DEF x
  <2> HIDE DEF x
  <2>4. (n + o) - (n + p + 1) + 1 = o - p /\ (n + p + 1 <= n + o <=> 1 <= o - p) /\ 0 <= o - p
    BY <1>8
  <2>5. \A i \in 1..(o - p) : (n + p + 1) + i - 1 = n + p + i
    BY <1>8
  <2>6. Len(x) = o - p
    BY <1>8, <2>3, <2>4
  <2> QED
    BY <2>3, <2>4, <2>5, <2>6
<1>10. /\ y \in Seq(E) /\ Len(y) = o - p
       /\ \A i \in 1..(o - p) : y[i] = old[p + i]
  <2>1. \A i \in (p + 1)..o : old[i] \in E
    BY <1>1, <1>8
  <2>2. p + 1 \in Int /\ o \in Int
    BY <1>8
  <2>3. /\ y \in Seq(E)
        /\ Len(y) = IF p + 1 <= o THEN o - (p + 1) + 1 ELSE 0
        /\ \A i \in 1..(o - (p + 1) + 1) : y[i] = old[(p + 1) + i - 1]
    <3> HIDE DEF y
    <3> QED
      BY <2>1, <2>2, SubSeqProperties DEF y
  <2> HIDE DEF y
  <2>4. o - (p + 1) + 1 = o - p /\ (p + 1 <= o <=> 1 <= o - p) /\ 0 <= o - p
    BY <1>8
  <2>5. \A i \in 1..(o - p) : (p + 1) + i - 1 = p + i
    BY <1>8
  <2>6. Len(y) = o - p
    BY <1>8, <2>3, <2>4
  <2> QED
    BY <2>3, <2>4, <2>5, <2>6
<1> HIDE DEF x, y
<1>11. \A i \in 1..(o - p) : F[n + p + i] = old[p + i]
  <2>1. ASSUME NEW i \in 1..(o - p)
        PROVE  F[n + p + i] = old[p + i]
    <3>1. n + p + i \in 1..(n + o) /\ ~(n + p + i <= n) /\ (n + p + i) - n = p + i
      BY <1>1, <1>8
    <3> QED
      BY <1>1, <3>1
  <2> QED
    BY <2>1
<1>12. x = y
  BY <1>9, <1>10, <1>11, SeqEqual
<1> QED
  BY <1>7, <1>12 DEF x, y, F, c, o

\* The cursor of who was shown the first p of some entries, and an answer with
\* the next of them: it says that there are no more when it has the last.
CursorAt(old, p) == IF p = 0 THEN Unset ELSE old[p].id

Continues(answer, old, p) ==
    \E q \in p..Len(old) :
        /\ Len(answer.entries) = q - p
        /\ \A i \in 1..(q - p) : answer.entries[i] = old[p + i]
        /\ answer.nextCursor = Unset <=> q = Len(old)
        /\ q = p => q = Len(old)

(* The page behind a cursor has the entries that follow the one it names,   *)
(* all of them if it says that there are no more, whatever was put in front *)
(* since the cursor was given (filterEntries in audit-log/store/filter.ts). *)
THEOREM NextPage ==
    ASSUME NEW E, \A e \in E : e.id # Unset,
           NEW new \in Seq(E), NEW old \in Seq(E), OwnIds(new \o old),
           NEW filter, Filtered(filter) = new \o old,
           NEW p \in 0..Len(old), p = 0 => new = <<>>,
           NEW limit \in Nat \ {0}
    PROVE  Continues(Query(filter, CursorAt(old, p), limit), old, p)
<1> DEFINE cursor == CursorAt(old, p)
           answer == Query(filter, cursor, limit)
           o == Len(old)
           rest == AfterCursor(new \o old, cursor)
<1>1. o \in Nat /\ p \in Nat /\ p <= o /\ \A i \in 1..o : old[i] \in E
  BY LenProperties, ElementOfSeq
<1> HIDE DEF o
<1>2. rest \in Seq(E) /\ Len(rest) = o - p /\ \A i \in 1..(o - p) : rest[i] = old[p + i]
  <2>1. CASE p = 0
    <3>1. new \o old = old
      BY <2>1, ConcatEmptySeq
    <3>2. DOMAIN old = 1..o
      BY LenProperties DEF o
    <3>3. rest = old
      BY <1>1, <2>1, <3>1, <3>2 DEF AfterCursor, CursorAt
    <3> HIDE DEF rest
    <3>4. o - p = o /\ \A i \in 1..o : p + i = i
      BY <1>1, <2>1
    <3> QED
      BY <3>3, <3>4 DEF o
  <2>2. CASE p # 0
    <3>1. rest = SubSeq(old, p + 1, o)
      BY <1>1, <2>2, Behind DEF o, CursorAt
    <3>2. \A i \in (p + 1)..o : old[i] \in E
      BY <1>1
    <3>3. p + 1 \in Int /\ o \in Int
      BY <1>1
    <3> HIDE DEF rest
    <3>4. /\ rest \in Seq(E)
          /\ Len(rest) = IF p + 1 <= o THEN o - (p + 1) + 1 ELSE 0
          /\ \A i \in 1..(o - (p + 1) + 1) : rest[i] = old[(p + 1) + i - 1]
      BY <3>1, <3>2, <3>3, SubSeqProperties, SMTT(30)
    <3>5. o - (p + 1) + 1 = o - p /\ (p + 1 <= o <=> 1 <= o - p) /\ 0 <= o - p
      BY <1>1
    <3>6. \A i \in 1..(o - p) : (p + 1) + i - 1 = p + i
      BY <1>1
    <3>7. Len(rest) = o - p
      BY <1>1, <3>4, <3>5
    <3> QED
      BY <3>4, <3>5, <3>6, <3>7
  <2> QED
    BY <2>1, <2>2
<1> DEFINE more == Len(rest) > limit
           size == IF more THEN limit ELSE Len(rest)
           page == SubSeq(rest, 1, size)
<1>3. /\ answer.entries = page
      /\ answer.nextCursor = IF more THEN page[limit].id ELSE Unset
  BY DEF Query
<1> HIDE DEF rest, answer, cursor
<1>4. size \in Nat /\ size <= o - p /\ (more => size = limit) /\ (~more => size = o - p)
  BY <1>1, <1>2
<1>5. (more <=> p + size < o) /\ (size = 0 => p + size = o) /\ p + size \in p..o
  BY <1>1, <1>2, <1>4
<1> HIDE DEF more, size
<1>6. /\ page \in Seq(E) /\ Len(page) = size
      /\ \A i \in 1..size : page[i] = rest[i]
  <2>1. \A i \in 1..size : rest[i] \in E
    <3>1. \A i \in 1..(o - p) : rest[i] \in E
      BY <1>2, ElementOfSeq
    <3> QED
      BY <1>1, <1>4, <3>1
  <2>2. 1 \in Int /\ size \in Int
    BY <1>4
  <2>3. /\ page \in Seq(E)
        /\ Len(page) = IF 1 <= size THEN size - 1 + 1 ELSE 0
        /\ \A i \in 1..(size - 1 + 1) : page[i] = rest[1 + i - 1]
    <3> HIDE DEF page
    <3> QED
      BY <2>1, <2>2, SubSeqProperties DEF page
  <2> HIDE DEF page
  <2>4. size - 1 + 1 = size /\ \A i \in 1..size : 1 + i - 1 = i
    BY <1>4
  <2>5. Len(page) = size
    BY <1>4, <2>3
  <2> QED
    BY <2>3, <2>4, <2>5
<1> HIDE DEF page
<1>7. more => page[limit].id # Unset
  <2>1. more => limit \in 1..Len(page)
    BY <1>4, <1>6
  <2> QED
    BY <1>6, <2>1, ElementOfSeq
<1>8. \A i \in 1..size : page[i] = old[p + i]
  <2>1. \A i \in 1..size : i \in 1..(o - p)
    BY <1>1, <1>4
  <2> QED
    BY <1>2, <1>6, <2>1
<1> DEFINE q == p + size
<1>9. q \in p..o /\ q - p = size
  BY <1>1, <1>4, <1>5
<1>10. (answer.nextCursor = Unset <=> q = o) /\ (q = p => q = o)
  BY <1>1, <1>3, <1>4, <1>5, <1>7
<1> HIDE DEF q
<1> QED
  BY <1>3, <1>6, <1>8, <1>9, <1>10 DEF answer, cursor, o, Continues

\* Whatever the cursor, a page has entries of the log.
LEMMA PageTyped ==
    ASSUME NEW E, NEW filter, Filtered(filter) \in Seq(E), NEW cursor, NEW limit \in Nat
    PROVE  Query(filter, cursor, limit).entries \in Seq(E)
<1> DEFINE F == Filtered(filter)
           rest == AfterCursor(F, cursor)
           size == IF Len(rest) > limit THEN limit ELSE Len(rest)
<1>1. Len(F) \in Nat /\ DOMAIN F = 1..Len(F) /\ \A i \in 1..Len(F) : F[i] \in E
  BY LenProperties, ElementOfSeq
<1> HIDE DEF F
<1>2. rest \in Seq(E)
  <2>1. CASE \E i \in DOMAIN F : F[i].id = cursor
    <3> DEFINE at == CHOOSE i \in DOMAIN F : F[i].id = cursor
    <3>1. at \in 1..Len(F) /\ rest = SubSeq(F, at + 1, Len(F))
      BY <1>1, <2>1 DEF AfterCursor
    <3> HIDE DEF at, rest
    <3>2. \A i \in (at + 1)..Len(F) : F[i] \in E
      BY <1>1, <3>1
    <3>3. at + 1 \in Int /\ Len(F) \in Int
      BY <1>1, <3>1
    <3> QED
      BY <3>1, <3>2, <3>3, SubSeqProperties
  <2>2. CASE ~\E i \in DOMAIN F : F[i].id = cursor
    BY <2>2 DEF AfterCursor, F
  <2> QED
    BY <2>1, <2>2
<1> HIDE DEF rest
<1>3. Len(rest) \in Nat /\ \A i \in 1..Len(rest) : rest[i] \in E
  BY <1>2, LenProperties, ElementOfSeq
<1>4. 1 \in Int /\ size \in Int /\ \A i \in 1..size : rest[i] \in E
  BY <1>3
<1>5. SubSeq(rest, 1, size) \in Seq(E)
  <2> HIDE DEF size
  <2> QED
    BY <1>4, SubSeqProperties
<1> QED
  BY <1>5 DEF Query, F, rest
=============================================================================
