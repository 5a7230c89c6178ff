---------------------------- MODULE SourcesProofs ----------------------------
(***************************************************************************)
(* Proofs about VersionOrder and Sources, for any tags, specs, releases,   *)
(* digests, page size and largest int.  compareVersions is a total order;  *)
(* so the loop of Latest ends with the highest tag of its page, which is   *)
(* of the newest version on it.                                            *)
(***************************************************************************)
EXTENDS Sources, Least, SequenceTheorems, TLAPS

----------------------------------------------------------------------------
(* The order of tags                                                       *)

\* The first segment in which sa differs from sb is the greater one in sa.
FirstGreater(sa, sb) ==
    \E i \in 1 .. Len(sa) :
        /\ i <= Len(sb) /\ sa[i] > sb[i]
        /\ \A k \in 1 .. i - 1 : sa[k] = sb[k]

\* No segment differs.
Agree(sa, sb) == \A i \in 1 .. Len(sa) : i <= Len(sb) => sa[i] = sb[i]

\* What it means that tag a is above tag b, without Min.
Above(a, b) ==
    LET sa == VersionSegments(a)
        sb == VersionSegments(b)
    IN  \/ FirstGreater(sa, sb)
        \/ Agree(sa, sb) /\ Len(sa) > Len(sb)
        \/ Agree(sa, sb) /\ Len(sa) = Len(sb) /\ a.text > b.text

\* The segments are numbers.
LEMMA SegmentsType ==
    ASSUME NEW t \in Tags
    PROVE  VersionSegments(t) \in Seq(Nat)
<1>1. Numbers(t) \in Seq(Nat)
  BY OrderAssumption DEF Numbers
<1>2. \A i \in 1 .. Len(Numbers(t)) : Numbers(t)[i] \in Nat
  BY <1>1
<1>3. \A i \in 1 .. Len(Numbers(t)) :
        (IF Numbers(t)[i] > MaxInt THEN MaxInt ELSE Numbers(t)[i]) \in Nat
  BY <1>2, OrderAssumption
<1>4. Len(Numbers(t)) \in Nat
  BY <1>1
<1> HIDE DEF Numbers
<1> QED
  BY <1>3, <1>4 DEF VersionSegments

\* Where segments differ does not depend on whose come first.
LEMMA DiffsSymmetric ==
    ASSUME NEW p \in Seq(Nat), NEW q \in Seq(Nat)
    PROVE  Diffs(p, q) = Diffs(q, p)
BY DEF Diffs

\* The least position of a difference has none before it.
LEMMA FirstDiff ==
    ASSUME NEW p \in Seq(Nat), NEW q \in Seq(Nat), Diffs(p, q) # {}
    PROVE  LET d == Min(Diffs(p, q))
           IN  /\ d \in 1 .. Len(p) /\ d <= Len(q) /\ p[d] # q[d]
               /\ p[d] \in Nat /\ q[d] \in Nat
               /\ \A k \in 1 .. d - 1 : p[k] = q[k]
<1> DEFINE d == Min(Diffs(p, q))
<1>1. Diffs(p, q) \in SUBSET Nat
  BY DEF Diffs
<1>2. d \in Diffs(p, q) /\ \A k \in Diffs(p, q) : d <= k
  BY <1>1, MinOfNats
<1>3. d \in 1 .. Len(p) /\ d <= Len(q) /\ p[d] # q[d]
  BY <1>2 DEF Diffs
<1>4. \A k \in 1 .. d - 1 : p[k] = q[k]
  <2> SUFFICES ASSUME NEW k \in 1 .. d - 1, p[k] # q[k] PROVE FALSE
    OBVIOUS
  <2>1. k \in 1 .. Len(p) /\ k <= Len(q) /\ k < d
    BY <1>3
  <2>2. k \in Diffs(p, q)
    BY <2>1 DEF Diffs
  <2> QED
    BY <1>2, <1>3, <2>1, <2>2
<1> HIDE DEF d
<1>5. p[d] \in Nat /\ q[d] \in Nat
  BY <1>3
<1> QED
  BY <1>3, <1>4, <1>5 DEF d

\* compareVersions answers by the first difference, the lengths or the texts.
LEMMA CompareCases ==
    ASSUME NEW a \in Tags, NEW b \in Tags
    PROVE  LET p == VersionSegments(a)
               q == VersionSegments(b)
               d  == Min(Diffs(p, q))
           IN  /\ Diffs(p, q) # {} => CompareVersions(a, b) = Sign(p[d] - q[d])
               /\ Diffs(p, q) = {} /\ Len(p) # Len(q)
                    => CompareVersions(a, b) = Sign(Len(p) - Len(q))
               /\ Diffs(p, q) = {} /\ Len(p) = Len(q)
                    => CompareVersions(a, b) = Sign(a.text - b.text)
BY DEF CompareVersions

\* Sign keeps the sign.
LEMMA SignOf ==
    \A m, n \in Int : /\ Sign(m - n) = -Sign(n - m)
                      /\ Sign(m - n) = 0 <=> m = n
                      /\ Sign(m - n) > 0 <=> m > n
BY DEF Sign

\* Swapping the tags swaps the sign.
LEMMA CompareAntisymmetric ==
    ASSUME NEW a \in Tags, NEW b \in Tags
    PROVE  CompareVersions(a, b) = -CompareVersions(b, a)
<1> DEFINE p == VersionSegments(a)
           q == VersionSegments(b)
<1>1. p \in Seq(Nat) /\ q \in Seq(Nat) /\ a.text \in Int /\ b.text \in Int
  BY SegmentsType, OrderAssumption
<1>2. Diffs(p, q) = Diffs(q, p)
  BY <1>1, DiffsSymmetric
<1>3. Len(p) \in Int /\ Len(q) \in Int
  BY <1>1
<1>4. ASSUME Diffs(p, q) # {}
      PROVE  p[Min(Diffs(p, q))] \in Int /\ q[Min(Diffs(p, q))] \in Int
  BY <1>1, <1>4, FirstDiff
<1> HIDE DEF p, q
<1>5. CASE Diffs(p, q) # {}
  <2> DEFINE d == Min(Diffs(p, q))
  <2>1. CompareVersions(a, b) = Sign(p[d] - q[d])
    BY <1>5, CompareCases DEF p, q
  <2>2. CompareVersions(b, a) = Sign(q[d] - p[d])
    BY <1>2, <1>5, CompareCases DEF p, q
  <2> QED
    BY <1>4, <1>5, <2>1, <2>2, SignOf
<1>6. CASE Diffs(p, q) = {} /\ Len(p) # Len(q)
  <2>1. CompareVersions(a, b) = Sign(Len(p) - Len(q))
    BY <1>6, CompareCases DEF p, q
  <2>2. CompareVersions(b, a) = Sign(Len(q) - Len(p))
    BY <1>2, <1>6, CompareCases DEF p, q
  <2> QED
    BY <1>3, <2>1, <2>2, SignOf
<1>7. CASE Diffs(p, q) = {} /\ Len(p) = Len(q)
  <2> DEFINE m == a.text
             n == b.text
  <2>1. CompareVersions(a, b) = Sign(m - n)
    BY <1>7, CompareCases DEF p, q
  <2>2. CompareVersions(b, a) = Sign(n - m)
    BY <1>2, <1>7, CompareCases DEF p, q
  <2>3. m \in Int /\ n \in Int
    BY <1>1
  <2> HIDE DEF m, n
  <2> QED
    BY <2>1, <2>2, <2>3, SignOf
<1> QED
  BY <1>5, <1>6, <1>7

\* Tags that compare as equal have the same text.
LEMMA CompareIdentity ==
    ASSUME NEW a \in Tags, NEW b \in Tags, CompareVersions(a, b) = 0
    PROVE  a = b
<1> DEFINE p == VersionSegments(a)
           q == VersionSegments(b)
<1>1. p \in Seq(Nat) /\ q \in Seq(Nat) /\ a.text \in Int /\ b.text \in Int
  BY SegmentsType, OrderAssumption
<1>2. Len(p) \in Int /\ Len(q) \in Int
  BY <1>1
<1> HIDE DEF p, q
<1>3. Diffs(p, q) = {}
  <2> SUFFICES ASSUME Diffs(p, q) # {} PROVE FALSE
    OBVIOUS
  <2> DEFINE d == Min(Diffs(p, q))
  <2>1. p[d] \in Int /\ q[d] \in Int /\ p[d] # q[d]
    BY <1>1, FirstDiff
  <2>2. Sign(p[d] - q[d]) = 0
    BY CompareCases DEF p, q
  <2> QED
    BY <2>1, <2>2, SignOf
<1>4. Len(p) = Len(q)
  BY <1>2, <1>3, CompareCases, SignOf DEF p, q
<1>5. a.text = b.text
  BY <1>1, <1>3, <1>4, CompareCases, SignOf DEF p, q
<1> QED
  BY <1>5, OrderAssumption

\* A positive answer means above, and nothing else does.
LEMMA CompareIsAbove ==
    ASSUME NEW a \in Tags, NEW b \in Tags
    PROVE  CompareVersions(a, b) > 0 <=> Above(a, b)
<1> DEFINE p == VersionSegments(a)
           q == VersionSegments(b)
<1>1. p \in Seq(Nat) /\ q \in Seq(Nat) /\ a.text \in Int /\ b.text \in Int
  BY SegmentsType, OrderAssumption
<1>2. Len(p) \in Int /\ Len(q) \in Int
  BY <1>1
<1>3. Agree(p, q) <=> Diffs(p, q) = {}
  BY DEF Agree, Diffs
<1>4. FirstGreater(p, q) => Diffs(p, q) # {}
  <2> SUFFICES ASSUME NEW i \in 1 .. Len(p), i <= Len(q), p[i] > q[i]
               PROVE  Diffs(p, q) # {}
    BY DEF FirstGreater
  <2> HIDE DEF p, q
  <2>1. p[i] # q[i]
    <3>1. p[i] \in Nat /\ q[i] \in Nat
      BY <1>1
    <3> QED
      BY <3>1
  <2> QED
    BY <2>1 DEF Diffs
<1> HIDE DEF p, q
<1>5. CASE Diffs(p, q) # {}
  <2> DEFINE d == Min(Diffs(p, q))
  <2>1. /\ d \in 1 .. Len(p) /\ d <= Len(q) /\ p[d] # q[d]
        /\ p[d] \in Int /\ q[d] \in Int
        /\ \A k \in 1 .. d - 1 : p[k] = q[k]
    BY <1>1, <1>5, FirstDiff
  <2>2. CompareVersions(a, b) = Sign(p[d] - q[d])
    BY <1>5, CompareCases DEF p, q
  <2> HIDE DEF d
  <2>3. CompareVersions(a, b) > 0 <=> p[d] > q[d]
    <3> DEFINE m == p[d]
               n == q[d]
    <3>1. m \in Int /\ n \in Int /\ CompareVersions(a, b) = Sign(m - n)
      BY <2>1, <2>2
    <3>2. CompareVersions(a, b) > 0 <=> m > n
      <4> HIDE DEF m, n
      <4> QED
        BY <3>1, SignOf
    <3> QED
      BY <3>2
  <2>4. p[d] > q[d] => FirstGreater(p, q)
    BY <2>1 DEF FirstGreater
  <2>5. FirstGreater(p, q) => p[d] > q[d]
    <3> SUFFICES ASSUME NEW i \in 1 .. Len(p), i <= Len(q), p[i] > q[i],
                        \A k \in 1 .. i - 1 : p[k] = q[k]
                 PROVE  p[d] > q[d]
      BY DEF FirstGreater
    <3>1. p[i] \in Nat /\ q[i] \in Nat
      BY <1>1
    <3>2. ~(d < i)
      BY <1>2, <2>1
    <3>3. ~(i < d)
      BY <1>2, <2>1, <3>1
    <3> QED
      BY <1>2, <2>1, <3>2, <3>3
  <2> QED
    BY <1>3, <1>5, <2>3, <2>4, <2>5 DEF Above, p, q
<1>6. CASE Diffs(p, q) = {} /\ Len(p) # Len(q)
  <2>1. CompareVersions(a, b) > 0 <=> Len(p) > Len(q)
    BY <1>2, <1>6, CompareCases, SignOf DEF p, q
  <2> QED
    BY <1>3, <1>4, <1>6, <2>1 DEF Above, p, q
<1>7. CASE Diffs(p, q) = {} /\ Len(p) = Len(q)
  <2> DEFINE m == a.text
             n == b.text
  <2>0. m \in Int /\ n \in Int /\ CompareVersions(a, b) = Sign(m - n)
    BY <1>1, <1>7, CompareCases DEF p, q
  <2>1. CompareVersions(a, b) > 0 <=> m > n
    <3> HIDE DEF m, n
    <3> QED
      BY <2>0, SignOf
  <2> QED
    BY <1>2, <1>3, <1>4, <1>7, <2>1 DEF Above, p, q
<1> QED
  BY <1>5, <1>6, <1>7

\* First differences compose: the earlier one of the two decides.
LEMMA FirstGreaterTransitive ==
    ASSUME NEW p \in Seq(Nat), NEW q \in Seq(Nat), NEW r \in Seq(Nat),
           FirstGreater(p, q), FirstGreater(q, r)
    PROVE  FirstGreater(p, r)
<1>1. PICK i \in 1 .. Len(p) : /\ i <= Len(q) /\ p[i] > q[i]
                                /\ \A k \in 1 .. i - 1 : p[k] = q[k]
  BY DEF FirstGreater
<1>2. PICK j \in 1 .. Len(q) : /\ j <= Len(r) /\ q[j] > r[j]
                                /\ \A k \in 1 .. j - 1 : q[k] = r[k]
  BY DEF FirstGreater
<1>3. CASE i <= j
  <2>1. i <= Len(r) /\ \A k \in 1 .. i - 1 : p[k] = r[k]
    BY <1>1, <1>2, <1>3
  <2>2. q[i] >= r[i]
    <3>1. CASE i = j
      BY <1>1, <1>2, <3>1
    <3>2. CASE i < j
      <4>1. q[i] = r[i] /\ q[i] \in Nat
        BY <1>1, <1>2, <3>2
      <4> QED
        BY <4>1
    <3> QED
      BY <1>3, <3>1, <3>2
  <2>3. p[i] \in Nat /\ q[i] \in Nat /\ r[i] \in Nat
    BY <1>1, <2>1
  <2>4. p[i] > r[i]
    BY <1>1, <2>2, <2>3
  <2> QED
    BY <2>1, <2>4 DEF FirstGreater
<1>4. CASE j < i
  <2>1. j \in 1 .. Len(p) /\ \A k \in 1 .. j - 1 : p[k] = r[k]
    BY <1>1, <1>2, <1>4
  <2>2. p[j] = q[j]
    BY <1>1, <1>2, <1>4
  <2> QED
    BY <1>2, <2>1, <2>2 DEF FirstGreater
<1> QED
  BY <1>1, <1>2, <1>3, <1>4

\* A first difference composed with an agreement with something no longer.
LEMMA FirstGreaterThenAgree ==
    ASSUME NEW p \in Seq(Nat), NEW q \in Seq(Nat), NEW r \in Seq(Nat),
           FirstGreater(p, q), Agree(q, r), Len(q) >= Len(r)
    PROVE  FirstGreater(p, r) \/ (Agree(p, r) /\ Len(p) > Len(r))
<1>1. PICK i \in 1 .. Len(p) : /\ i <= Len(q) /\ p[i] > q[i]
                                /\ \A k \in 1 .. i - 1 : p[k] = q[k]
  BY DEF FirstGreater
<1>2. CASE i <= Len(r)
  <2>0. \A k \in 1 .. i : k \in 1 .. Len(q) /\ k <= Len(r)
    BY <1>1, <1>2
  <2>1. q[i] = r[i] /\ \A k \in 1 .. i - 1 : p[k] = r[k]
    <3>1. \A k \in 1 .. i : q[k] = r[k]
      BY <2>0 DEF Agree
    <3> QED
      BY <1>1, <3>1
  <2>2. p[i] > r[i]
    BY <1>1, <2>1
  <2> QED
    BY <1>2, <2>1, <2>2 DEF FirstGreater
<1>3. CASE i > Len(r)
  <2>1. Agree(p, r)
    BY <1>1, <1>3 DEF Agree
  <2> QED
    BY <1>1, <1>3, <2>1
<1> QED
  BY <1>1, <1>2, <1>3

\* An agreement with something no longer composed with a first difference.
LEMMA AgreeThenFirstGreater ==
    ASSUME NEW p \in Seq(Nat), NEW q \in Seq(Nat), NEW r \in Seq(Nat),
           Agree(p, q), Len(p) >= Len(q), FirstGreater(q, r)
    PROVE  FirstGreater(p, r)
<1>1. PICK j \in 1 .. Len(q) : /\ j <= Len(r) /\ q[j] > r[j]
                                /\ \A k \in 1 .. j - 1 : q[k] = r[k]
  BY DEF FirstGreater
<1>2. \A k \in 1 .. j : k \in 1 .. Len(p) /\ p[k] = q[k]
  <2>1. \A k \in 1 .. j : k \in 1 .. Len(p) /\ k <= Len(q)
    BY <1>1
  <2> QED
    BY <2>1 DEF Agree
<1>3. p[j] > r[j] /\ \A k \in 1 .. j - 1 : p[k] = r[k]
  BY <1>1, <1>2
<1> QED
  BY <1>1, <1>2, <1>3 DEF FirstGreater

\* Agreements compose.
LEMMA AgreeTransitive ==
    ASSUME NEW p \in Seq(Nat), NEW q \in Seq(Nat), NEW r \in Seq(Nat),
           Agree(p, q), Len(p) >= Len(q), Agree(q, r), Len(q) >= Len(r)
    PROVE  Agree(p, r)
BY DEF Agree

\* Being above is transitive.
LEMMA AboveTransitive ==
    ASSUME NEW a \in Tags, NEW b \in Tags, NEW c \in Tags, Above(a, b), Above(b, c)
    PROVE  Above(a, c)
<1> DEFINE p == VersionSegments(a)
           q == VersionSegments(b)
           r == VersionSegments(c)
<1>1. p \in Seq(Nat) /\ q \in Seq(Nat) /\ r \in Seq(Nat)
  BY SegmentsType
<1>2. Len(p) \in Int /\ Len(q) \in Int /\ Len(r) \in Int
  BY <1>1
<1>3. a.text \in Int /\ b.text \in Int /\ c.text \in Int
  BY OrderAssumption
<1>4. /\ \/ FirstGreater(p, q)
         \/ Agree(p, q) /\ Len(p) > Len(q)
         \/ Agree(p, q) /\ Len(p) = Len(q) /\ a.text > b.text
      /\ \/ FirstGreater(q, r)
         \/ Agree(q, r) /\ Len(q) > Len(r)
         \/ Agree(q, r) /\ Len(q) = Len(r) /\ b.text > c.text
  BY DEF Above
<1> HIDE DEF p, q, r
<1>5. \/ FirstGreater(p, r)
      \/ Agree(p, r) /\ Len(p) > Len(r)
      \/ Agree(p, r) /\ Len(p) = Len(r) /\ a.text > c.text
  <2>1. CASE FirstGreater(p, q) /\ FirstGreater(q, r)
    BY <1>1, <2>1, FirstGreaterTransitive
  <2>2. CASE FirstGreater(p, q) /\ Agree(q, r) /\ Len(q) >= Len(r)
    BY <1>1, <2>2, FirstGreaterThenAgree
  <2>3. CASE Agree(p, q) /\ Len(p) >= Len(q) /\ FirstGreater(q, r)
    BY <1>1, <2>3, AgreeThenFirstGreater
  <2>4. CASE Agree(p, q) /\ Len(p) >= Len(q) /\ Agree(q, r) /\ Len(q) >= Len(r)
    <3>1. Agree(p, r)
      BY <1>1, <2>4, AgreeTransitive
    <3>2. CASE Len(p) > Len(q) \/ Len(q) > Len(r)
      BY <1>2, <2>4, <3>1, <3>2
    <3>3. CASE Len(p) = Len(q) /\ Len(q) = Len(r) /\ a.text > b.text /\ b.text > c.text
      BY <1>3, <3>1, <3>3
    <3>4. CASE FirstGreater(p, q) \/ FirstGreater(q, r)
      BY <2>2, <2>3, <2>4, <3>4
    <3> QED
      BY <1>2, <1>4, <2>4, <3>2, <3>3, <3>4
  <2> QED
    BY <1>2, <1>4, <2>1, <2>2, <2>3, <2>4
<1> QED
  BY <1>5 DEF Above, p, q, r

\* compareVersions is a total order on tags, however many segments they have
\* and whatever overflows (source_github.go:138-179).
THEOREM TotalOrder == CompareIsTotalOrder
<1>1. \A a, b, c \in Tags :
        CompareVersions(a, b) > 0 /\ CompareVersions(b, c) > 0 => CompareVersions(a, c) > 0
  BY CompareIsAbove, AboveTransitive
<1> QED
  BY <1>1, CompareAntisymmetric, CompareIdentity DEF CompareIsTotalOrder

----------------------------------------------------------------------------
(* What the order is good for                                              *)

\* The segments begin with the numbers of the version proper, cut off at MaxInt.
LEMMA CoreSegments ==
    ASSUME NEW t \in Tags
    PROVE  /\ Len(t.core) <= Len(VersionSegments(t))
           /\ \A i \in 1 .. Len(t.core) :
                VersionSegments(t)[i] = IF t.core[i] > MaxInt THEN MaxInt ELSE t.core[i]
<1> DEFINE c == t.core
           x == t.suffix
<1>1. c \in Seq(Nat) /\ x \in Seq(Nat)
  BY OrderAssumption
<1>2. /\ Len(Numbers(t)) = Len(c) + Len(x)
      /\ \A i \in 1 .. Len(c) : Numbers(t)[i] = c[i]
  <2> HIDE DEF c, x
  <2>1. c \o x = Numbers(t)
    BY DEF Numbers, c, x
  <2>2. /\ Len(c \o x) = Len(c) + Len(x)
        /\ \A i \in 1 .. Len(c) + Len(x) :
             (c \o x)[i] = IF i <= Len(c) THEN c[i] ELSE x[i - Len(c)]
    BY <1>1, ConcatProperties
  <2>3. Len(c) \in Nat /\ Len(x) \in Nat
    BY <1>1
  <2> QED
    BY <2>1, <2>2, <2>3
<1>3. Len(c) \in Nat /\ Len(x) \in Nat
  BY <1>1
<1> HIDE DEF c, x, Numbers
<1>4. Len(VersionSegments(t)) = Len(Numbers(t))
  BY <1>2, <1>3 DEF VersionSegments
<1>5. \A i \in 1 .. Len(c) :
        VersionSegments(t)[i] = IF c[i] > MaxInt THEN MaxInt ELSE c[i]
  BY <1>2, <1>3 DEF VersionSegments
<1> QED
  BY <1>2, <1>3, <1>4, <1>5 DEF c

\* compareVersions tells a newer version from an older one, whatever follows
\* the version proper, if an int can.
LEMMA NewerComparesAbove ==
    ASSUME NEW a \in Tags, NEW b \in Tags, NewerCore(a, b)
    PROVE  CompareVersions(a, b) > 0
<1> DEFINE p == VersionSegments(a)
           q == VersionSegments(b)
<1>1. a.core \in Seq(Nat) /\ b.core \in Seq(Nat) /\ MaxInt \in Nat
  BY OrderAssumption
<1>2. PICK i \in DOMAIN a.core \cap DOMAIN b.core :
        /\ a.core[i] > b.core[i] /\ b.core[i] < MaxInt
        /\ \A k \in 1 .. (i - 1) : a.core[k] = b.core[k]
  BY DEF NewerCore
<1>3. i \in 1 .. Len(a.core) /\ i \in 1 .. Len(b.core)
  BY <1>1, <1>2
<1>4. /\ Len(a.core) <= Len(p) /\ Len(b.core) <= Len(q)
      /\ \A k \in 1 .. Len(a.core) : p[k] = IF a.core[k] > MaxInt THEN MaxInt ELSE a.core[k]
      /\ \A k \in 1 .. Len(b.core) : q[k] = IF b.core[k] > MaxInt THEN MaxInt ELSE b.core[k]
  BY CoreSegments
<1>5. p \in Seq(Nat) /\ q \in Seq(Nat)
  BY SegmentsType
<1>6. Len(p) \in Nat /\ Len(q) \in Nat /\ Len(a.core) \in Nat /\ Len(b.core) \in Nat
  BY <1>1, <1>5
<1>7. a.core[i] \in Nat /\ b.core[i] \in Nat
  BY <1>1, <1>3
<1> HIDE DEF p, q
<1>8. p[i] > q[i]
  BY <1>1, <1>2, <1>3, <1>4, <1>7
<1>9. \A k \in 1 .. i - 1 : p[k] = q[k]
  <2> SUFFICES ASSUME NEW k \in 1 .. i - 1 PROVE p[k] = q[k]
    OBVIOUS
  <2>1. k \in 1 .. Len(a.core) /\ k \in 1 .. Len(b.core) /\ a.core[k] = b.core[k]
    BY <1>2, <1>3, <1>6
  <2> QED
    BY <1>4, <2>1
<1>10. FirstGreater(p, q)
  BY <1>3, <1>4, <1>6, <1>8, <1>9 DEF FirstGreater
<1> QED
  BY <1>10, CompareIsAbove DEF Above, p, q

\* A tag is above another one or below it.
LEMMA CompareDecides ==
    \A a, b \in Tags : CompareVersions(a, b) > 0 \/ CompareVersions(b, a) > 0 \/ a = b
<1> SUFFICES ASSUME NEW a \in Tags, NEW b \in Tags, a # b
             PROVE  CompareVersions(a, b) > 0 \/ CompareVersions(b, a) > 0
  OBVIOUS
<1> DEFINE m == CompareVersions(a, b)
           n == CompareVersions(b, a)
<1>1. m \in Int
  <2>1. VersionSegments(a) \in Seq(Nat) /\ VersionSegments(b) \in Seq(Nat)
    BY SegmentsType
  <2>2. \A z : Sign(z) \in Int
    BY DEF Sign
  <2> QED
    BY <2>2 DEF CompareVersions
<1>2. m # 0
  BY CompareIdentity
<1>3. n = -m
  BY CompareAntisymmetric
<1> HIDE DEF m, n
<1>4. m > 0 \/ n > 0
  BY <1>1, <1>2, <1>3
<1> QED
  BY <1>4 DEF m, n

\* No tag is above a tag that is above it.
LEMMA CompareAsymmetric ==
    \A a, b \in Tags : ~(CompareVersions(a, b) > 0 /\ CompareVersions(b, a) > 0)
<1> SUFFICES ASSUME NEW a \in Tags, NEW b \in Tags,
                    CompareVersions(a, b) > 0, CompareVersions(b, a) > 0
             PROVE  FALSE
  OBVIOUS
<1>1. CompareVersions(a, a) > 0
  BY CompareIsAbove, AboveTransitive
<1> DEFINE z == CompareVersions(a, a)
<1>2. z = -z /\ z > 0
  BY <1>1, CompareAntisymmetric
<1> HIDE DEF z
<1>3. z \in Int
  <2>1. \A y : Sign(y) \in Int
    BY DEF Sign
  <2> QED
    BY <2>1 DEF CompareVersions, z
<1> QED
  BY <1>2, <1>3

----------------------------------------------------------------------------
(* The resolution                                                          *)

\* The tags that qualify among the first n releases of the page.
Fitting(n) == {page[i].tag : i \in {x \in 1 .. n : Qualifies(page[x])}}

\* b is the highest one of the tags; None if there are none.
Highest(b, ts) ==
    IF ts = {} THEN b = None
    ELSE b \in ts /\ \A t \in ts \ {b} : CompareVersions(b, t) > 0

\* A Docker spec does not get to GitHub, and what made it ask for a token is
\* no digest.
OnlyRegistry ==
    /\ spec.scheme = "docker" => pc \notin {"newest", "list", "scan"}
    /\ pc = "token" => answer.digest = None

\* The inductive invariant.
IInv == TypeOK /\ HighestSoFar /\ OnlyRegistry /\ ResultIsLastAnswer

LEMMA HighestMeans == HighestSoFar <=> (pc = "scan" => Highest(best, Fitting(pos - 1)))
BY DEF HighestSoFar, Highest, Fitting

\* One more tag: it is kept if it is above the highest one, and only then.
LEMMA OneMore ==
    ASSUME NEW ts \in SUBSET Tags, NEW b \in Tags \cup {None}, NEW t \in Tags,
           Highest(b, ts)
    PROVE  Highest(IF b = None \/ CompareVersions(t, b) > 0 THEN t ELSE b, ts \cup {t})
<1>1. CASE b = None
  <2>1. ts = {}
    BY <1>1, SourcesAssumption DEF Highest
  <2> QED
    BY <1>1, <2>1 DEF Highest
<1>2. ASSUME b # None
      PROVE  b \in ts /\ b \in Tags /\ \A u \in ts \ {b} : CompareVersions(b, u) > 0
  BY <1>2 DEF Highest
<1>3. CASE b # None /\ CompareVersions(t, b) > 0
  <2>1. \A u \in ts \ {t} : CompareVersions(t, u) > 0
    <3> SUFFICES ASSUME NEW u \in ts, u # t PROVE CompareVersions(t, u) > 0
      OBVIOUS
    <3>1. CASE u = b
      BY <1>3, <3>1
    <3>2. CASE u # b
      BY <1>2, <1>3, <3>2, CompareIsAbove, AboveTransitive
    <3> QED
      BY <3>1, <3>2
  <2> QED
    BY <1>3, <2>1 DEF Highest
<1>4. CASE b # None /\ ~(CompareVersions(t, b) > 0)
  <2>1. t # b => CompareVersions(b, t) > 0
    BY <1>2, <1>4, CompareDecides
  <2> QED
    BY <1>2, <1>4, <2>1 DEF Highest
<1> QED
  BY <1>1, <1>3, <1>4

\* Listings stay lists of releases.
LEMMA ListingTypes ==
    ASSUME NEW l \in Seq(Releases), NEW r \in Releases
    PROVE  /\ \A n \in 0 .. Len(l) : SubSeq(l, 1, n) \in Seq(Releases)
           /\ \A i \in 1 .. Len(l) + 1 : InsertAt(l, i, r) \in Seq(Releases)
           /\ \A i \in 1 .. Len(l) : RemoveAt(l, i) \in Seq(Releases)
<1>1. \A m \in 1 .. Len(l) + 1 : \A n \in 0 .. Len(l) : SubSeq(l, m, n) \in Seq(Releases)
  <2> SUFFICES ASSUME NEW m \in 1 .. Len(l) + 1, NEW n \in 0 .. Len(l)
               PROVE  SubSeq(l, m, n) \in Seq(Releases)
    OBVIOUS
  <2>1. \A i \in m .. n : l[i] \in Releases
    OBVIOUS
  <2> QED
    BY <2>1, SubSeqProperties
<1>2. <<r>> \in Seq(Releases) /\ Len(l) \in Nat
  OBVIOUS
<1>3. ASSUME NEW i \in 1 .. Len(l) + 1
      PROVE  InsertAt(l, i, r) \in Seq(Releases)
  <2>1. SubSeq(l, 1, i - 1) \in Seq(Releases) /\ SubSeq(l, i, Len(l)) \in Seq(Releases)
    BY <1>1, <1>2
  <2> QED
    BY <1>2, <2>1, ConcatProperties DEF InsertAt
<1>4. ASSUME NEW i \in 1 .. Len(l)
      PROVE  RemoveAt(l, i) \in Seq(Releases)
  <2>1. SubSeq(l, 1, i - 1) \in Seq(Releases) /\ SubSeq(l, i + 1, Len(l)) \in Seq(Releases)
    BY <1>1, <1>2
  <2> QED
    BY <2>1, ConcatProperties DEF RemoveAt
<1> QED
  BY <1>1, <1>2, <1>3, <1>4

LEMMA PageTypes ==
    ASSUME listing \in Seq(Releases)
    PROVE  Page \in Seq(Releases)
<1> DEFINE n == IF Len(listing) < PageSize THEN Len(listing) ELSE PageSize
<1>1. n \in 0 .. Len(listing)
  BY SourcesAssumption
<1> HIDE DEF n
<1>2. \A i \in 1 .. n : listing[i] \in Releases
  BY <1>1
<1>3. n \in Int
  BY <1>1
<1>4. SubSeq(listing, 1, n) \in Seq(Releases)
  BY <1>2, <1>3, SubSeqProperties
<1> QED
  BY <1>4 DEF Page, n

\* An answer has a digest only when its status is 200, and what comes out of it
\* is that digest or an error.
LEMMA AnswerFacts ==
    ASSUME image \in Digests \cup {None}, NEW a \in Answers
    PROVE  /\ a \in [status : {"none", "200", "401", "404", "error"},
                     digest : Digests \cup {None}]
           /\ Outcome(a) = IF a.digest # None THEN a.digest ELSE Error
           /\ Outcome(a) \in Digests \cup {Error}
           /\ a.status = "401" => a.digest = None
<1>1. \/ \E s \in {"401", "error"} : a = [status |-> s, digest |-> None]
      \/ image = None /\ a = [status |-> "404", digest |-> None]
      \/ image # None /\ a = [status |-> "200", digest |-> image]
      \/ image # None /\ a = [status |-> "200", digest |-> None]
  BY DEF Answers
<1> QED
  BY <1>1 DEF Outcome

LEMMA InitInv == Init => IInv
<1> SUFFICES ASSUME Init PROVE IInv
  OBVIOUS
<1>1. TypeOK
  BY SourcesAssumption DEF Init, TypeOK, NoAnswer
<1> QED
  BY <1>1 DEF Init, IInv, HighestSoFar, OnlyRegistry, ResultIsLastAnswer

LEMMA StepType == IInv /\ [Next]_vars => TypeOK'
<1> SUFFICES ASSUME IInv, [Next]_vars PROVE TypeOK'
  OBVIOUS
<1> USE DEF Goto, Finish, worldVars, scanVars
<1>0. TypeOK /\ Error \in {Error} /\ Error # None
  BY SourcesAssumption DEF IInv
<1>1. CASE Begin
  BY <1>0, <1>1 DEF Begin, TypeOK
<1>2. CASE AskNewest
  <2>1. CASE UNCHANGED <<listing, image, spec, page, pos, best, answer>> /\ pc' = "done" /\ result' = Error
    BY <1>0, <1>2, <2>1 DEF AskNewest, TypeOK
  <2>2. ASSUME NEW r \in Range(listing), UNCHANGED <<listing, image, spec, page, pos, best, answer>>,
               pc' = "done", result' = r.tag
        PROVE  TypeOK'
    <3>1. r \in Releases
      BY <1>0, <2>2 DEF TypeOK, Range
    <3>2. result' \in Tags /\ result' # None
      BY <2>2, <3>1, SourcesAssumption
    <3> QED
      BY <1>0, <1>2, <2>2, <3>2 DEF AskNewest, TypeOK
  <2> QED
    BY <1>2, <2>1, <2>2 DEF AskNewest
<1>3. CASE AskList
  <2>1. page' \in Seq(Releases)
    BY <1>0, <1>3, PageTypes DEF AskList, TypeOK
  <2>2. 1 \in 1 .. Len(page') + 1
    BY <2>1
  <2> QED
    BY <1>0, <1>3, <2>1, <2>2 DEF AskList, TypeOK
<1>4. CASE Scan
  <2>1. pos \in 1 .. Len(page) /\ page \in Seq(Releases)
    BY <1>0, <1>4 DEF Scan, TypeOK
  <2>2. page[pos].tag \in Tags
    BY <2>1, SourcesAssumption
  <2>3. best' \in Tags \cup {None}
    BY <1>0, <1>4, <2>2 DEF Scan, TypeOK
  <2>4. pos' \in 1 .. Len(page) + 1
    BY <1>4, <2>1 DEF Scan
  <2> QED
    BY <1>0, <1>4, <2>3, <2>4 DEF Scan, TypeOK
<1>5. CASE ScanEnds
  <2>1. result' \in Tags \cup {Error} /\ result' # None
    BY <1>0, <1>5, SourcesAssumption DEF ScanEnds, TypeOK
  <2>2. <<>> \in Seq(Releases)
    OBVIOUS
  <2> QED
    BY <1>0, <1>5, <2>1, <2>2 DEF ScanEnds, TypeOK
<1>6. CASE GitHubFails
  BY <1>0, <1>6 DEF GitHubFails, TypeOK
<1>7. CASE AskManifest \/ Retry
  <2>1. PICK a \in Answers :
          /\ answer' = a
          /\ \/ pc' = "token" /\ result' = result
             \/ pc' = "done" /\ result' = Outcome(a)
    BY <1>7 DEF AskManifest, Retry
  <2>2. Outcome(a) \in Digests \cup {Error} /\ Outcome(a) # None
    BY <1>0, AnswerFacts, SourcesAssumption DEF TypeOK
  <2>3. answer' \in [status : {"none", "200", "401", "404", "error"}, digest : Digests \cup {None}]
    BY <1>0, <2>1, AnswerFacts DEF TypeOK
  <2> QED
    BY <1>0, <1>7, <2>1, <2>2, <2>3 DEF AskManifest, Retry, TypeOK
<1>8. CASE FetchToken \/ NoToken
  BY <1>0, <1>8 DEF FetchToken, NoToken, TypeOK
<1>9. CASE DockerFails
  BY <1>0, <1>9 DEF DockerFails, TypeOK, NoAnswer
<1>10. CASE Again
  BY <1>0, <1>10 DEF Again, TypeOK, NoAnswer
<1>11. CASE Publish
  <2>1. PICK r \in Releases, i \in 1 .. Len(listing) + 1 : listing' = InsertAt(listing, i, r)
    BY <1>11 DEF Publish
  <2>2. listing' \in Seq(Releases)
    BY <1>0, <2>1, ListingTypes DEF TypeOK
  <2> QED
    BY <1>0, <1>11, <2>2 DEF Publish, TypeOK
<1>12. CASE Withdraw
  <2>1. PICK i \in DOMAIN listing : listing' = RemoveAt(listing, i)
    BY <1>12 DEF Withdraw
  <2>2. listing \in Seq(Releases)
    BY <1>0 DEF TypeOK
  <2>3. i \in 1 .. Len(listing) /\ listing[i] \in Releases
    BY <2>2
  <2>4. listing' \in Seq(Releases)
    BY <2>1, <2>2, <2>3, ListingTypes
  <2> QED
    BY <1>0, <1>12, <2>4 DEF Withdraw, TypeOK
<1>13. CASE MoveTag
  BY <1>0, <1>13 DEF MoveTag, TypeOK
<1>14. CASE UNCHANGED vars
  BY <1>0, <1>14 DEF vars, TypeOK
<1> QED
  BY <1>1, <1>2, <1>3, <1>4, <1>5, <1>6, <1>7, <1>8, <1>9, <1>10, <1>11, <1>12, <1>13, <1>14
  DEF Next, Resolution, GitHub, Docker

LEMMA StepHighest == IInv /\ [Next]_vars => HighestSoFar'
<1> SUFFICES ASSUME IInv, [Next]_vars, pc' = "scan"
             PROVE  Highest(best', Fitting(pos - 1)')
  BY DEF HighestSoFar, Highest, Fitting
<1> USE DEF Goto, Finish, worldVars, scanVars
<1>0. TypeOK
  BY DEF IInv
<1>1. CASE AskList
  <2>1. pos' = 1 /\ best' = None
    BY <1>1 DEF AskList
  <2>2. Fitting(pos - 1)' = {}
    BY <2>1 DEF Fitting
  <2> QED
    BY <2>1, <2>2 DEF Highest
<1>2. CASE Scan
  <2> DEFINE r  == page[pos]
             ts == Fitting(pos - 1)
  <2>1. /\ pc = "scan" /\ page' = page /\ spec' = spec /\ pos' = pos + 1
        /\ best' = IF Qualifies(r) /\ Better(r.tag) THEN r.tag ELSE best
    BY <1>2 DEF Scan
  <2>2. pos \in 1 .. Len(page) /\ page \in Seq(Releases) /\ best \in Tags \cup {None}
    BY <1>0, <1>2 DEF Scan, TypeOK
  <2>3. r.tag \in Tags
    BY <2>2, SourcesAssumption
  <2>4. ts \in SUBSET Tags
    <3>1. \A i \in 1 .. pos - 1 : page[i] \in Releases
      BY <2>2
    <3> QED
      BY <3>1, SourcesAssumption DEF Fitting
  <2>5. Highest(best, ts)
    BY <2>1, HighestMeans DEF IInv
  <2>6. Fitting(pos - 1)' = IF Qualifies(r) THEN ts \cup {r.tag} ELSE ts
    <3>1. \A x : Qualifies(x)' <=> Qualifies(x)
      BY <2>1 DEF Qualifies
    <3>2. (pos - 1)' = pos
      BY <2>1, <2>2
    <3>3. Fitting(pos - 1)' = {page[i].tag : i \in {x \in 1 .. pos : Qualifies(page[x])}}
      BY <2>1, <3>1, <3>2 DEF Fitting
    <3>4. \A x : x \in 1 .. pos <=> (x \in 1 .. pos - 1 \/ x = pos)
      BY <2>2
    <3> QED
      BY <3>3, <3>4 DEF Fitting
  <2>7. CASE Qualifies(r)
    <3>1. best' = IF best = None \/ CompareVersions(r.tag, best) > 0 THEN r.tag ELSE best
      BY <2>1, <2>7 DEF Better
    <3> HIDE DEF r, ts
    <3>2. Highest(best', ts \cup {r.tag})
      BY <2>2, <2>3, <2>4, <2>5, <3>1, OneMore
    <3> QED
      BY <2>6, <2>7, <3>2
  <2>8. CASE ~Qualifies(r)
    BY <2>1, <2>5, <2>6, <2>8
  <2> QED
    BY <2>7, <2>8
<1>3. CASE UNCHANGED vars
  BY <1>3, HighestMeans DEF IInv, vars, HighestSoFar, Highest, Fitting, Qualifies
<1> QED
  BY <1>1, <1>2, <1>3
  DEF Next, Resolution, GitHub, Docker, Begin, AskNewest, ScanEnds, GitHubFails, AskManifest,
      FetchToken, NoToken, Retry, DockerFails, Again, Publish, Withdraw, MoveTag

LEMMA StepRegistry == IInv /\ [Next]_vars => OnlyRegistry' /\ ResultIsLastAnswer'
<1> SUFFICES ASSUME IInv, [Next]_vars PROVE OnlyRegistry' /\ ResultIsLastAnswer'
  OBVIOUS
<1> USE DEF Goto, Finish, worldVars, scanVars, OnlyRegistry, ResultIsLastAnswer
<1>0. TypeOK /\ OnlyRegistry /\ ResultIsLastAnswer
  BY DEF IInv
<1>1. CASE Begin
  BY <1>0, <1>1 DEF Begin
<1>2. CASE GitHub
  <2>1. spec.scheme # "docker" /\ spec' = spec /\ pc' # "token"
    BY <1>0, <1>2 DEF GitHub, AskNewest, AskList, Scan, ScanEnds, GitHubFails
  <2> QED
    BY <2>1
<1>3. CASE AskManifest \/ Retry
  <2>1. PICK a \in Answers :
          /\ answer' = a
          /\ \/ pc' = "token" /\ a.status = "401"
             \/ pc' = "done" /\ result' = Outcome(a)
    BY <1>3 DEF AskManifest, Retry
  <2>2. /\ Outcome(a) = IF a.digest # None THEN a.digest ELSE Error
        /\ a.status = "401" => a.digest = None
    BY <1>0, AnswerFacts DEF TypeOK
  <2> QED
    BY <2>1, <2>2
<1>4. CASE FetchToken \/ NoToken
  BY <1>0, <1>4 DEF FetchToken, NoToken
<1>5. CASE DockerFails
  BY <1>5 DEF DockerFails, NoAnswer
<1>6. CASE Again \/ Publish \/ Withdraw \/ MoveTag \/ UNCHANGED vars
  BY <1>0, <1>6 DEF Again, Publish, Withdraw, MoveTag, vars
<1> QED
  BY <1>1, <1>2, <1>3, <1>4, <1>5, <1>6 DEF Next, Resolution, Docker

THEOREM Invariance == Spec => []IInv
<1>1. Init => IInv
  BY InitInv
<1>2. IInv /\ [Next]_vars => IInv'
  BY StepType, StepHighest, StepRegistry DEF IInv
<1> QED
  BY <1>1, <1>2, PTL DEF Spec

\* The types of the variables of a resolution, and that it has a result exactly
\* when it is done, for any specs, releases and digests.
THEOREM TypeCorrect == Spec => []TypeOK
<1>1. IInv => TypeOK
  BY DEF IInv
<1> QED
  BY <1>1, Invariance, PTL

\* The loop of Latest keeps the highest of the tags that it has seen, for pages
\* of any length (source_github.go:80-91).
THEOREM HighestCorrect == Spec => []HighestSoFar
<1>1. IInv => HighestSoFar
  BY DEF IInv
<1> QED
  BY <1>1, Invariance, PTL

\* A Docker resolution returns what its last manifest request was answered with,
\* whatever registry, tags and failures do (source_docker.go:91-126).
THEOREM DigestCorrect == Spec => []ResultIsLastAnswer
<1>1. IInv => ResultIsLastAnswer
  BY DEF IInv
<1> QED
  BY <1>1, Invariance, PTL

\* A list of releases yields a tag on the page that qualifies and of which there
\* is no newer version, however long the page is (source_github.go:75-97).
THEOREM NewestCorrect == Spec => NewestOnPage
<1> DEFINE fit == {r.tag : r \in {x \in Range(page) : ~x.draft
                        /\ (x.prerelease => spec.prereleases)
                        /\ spec.prefix \in x.tag.prefixes \cup {AnyPrefix}}}
<1>1. IInv /\ [Next]_vars =>
        (ScanEnds => IF fit = {} THEN result' = Error
                     ELSE result' \in fit /\ \A t \in fit : ~NewerCore(t, result'))
  <2> SUFFICES ASSUME IInv, ScanEnds
               PROVE  IF fit = {} THEN result' = Error
                      ELSE result' \in fit /\ \A t \in fit : ~NewerCore(t, result')
    OBVIOUS
  <2>1. page \in Seq(Releases) /\ pos = Len(page) + 1
    BY DEF IInv, ScanEnds, TypeOK
  <2>2. fit = Fitting(pos - 1)
    <3>1. 1 .. pos - 1 = DOMAIN page
      BY <2>1
    <3>2. \A x : Qualifies(x) <=> /\ ~x.draft /\ (x.prerelease => spec.prereleases)
                                  /\ spec.prefix \in x.tag.prefixes \cup {AnyPrefix}
      BY DEF Qualifies
    <3>3. fit = {r.tag : r \in {x \in Range(page) : Qualifies(x)}}
      BY <3>2
    <3> HIDE DEF fit
    <3>4. \A t : t \in fit <=> \E i \in DOMAIN page : Qualifies(page[i]) /\ t = page[i].tag
      BY <3>3 DEF Range
    <3>5. \A t : t \in Fitting(pos - 1)
                   <=> \E i \in DOMAIN page : Qualifies(page[i]) /\ t = page[i].tag
      BY <3>1 DEF Fitting
    <3> QED
      BY <3>4, <3>5
  <2>3. Highest(best, fit)
    BY <2>2, HighestMeans DEF IInv, ScanEnds
  <2>4. fit \in SUBSET Tags
    <3>1. \A i \in 1 .. pos - 1 : page[i] \in Releases
      BY <2>1
    <3> QED
      BY <2>2, <3>1, SourcesAssumption DEF Fitting
  <2>5. result' = IF best = None THEN Error ELSE best
    BY DEF ScanEnds, Finish
  <2> HIDE DEF fit
  <2>6. CASE fit = {}
    BY <2>3, <2>5, <2>6 DEF Highest
  <2>7. CASE fit # {}
    <3>1. best \in fit /\ best \in Tags /\ \A t \in fit \ {best} : CompareVersions(best, t) > 0
      BY <2>3, <2>4, <2>7 DEF Highest
    <3>2. result' = best
      BY <2>5, <3>1, SourcesAssumption
    <3>3. \A t \in fit : ~(CompareVersions(t, best) > 0)
      BY <2>4, <3>1, CompareAsymmetric
    <3> QED
      BY <2>4, <2>7, <3>1, <3>2, <3>3, NewerComparesAbove
  <2> QED
    BY <2>6, <2>7
<1> QED
  BY <1>1, Invariance, PTL DEF Spec, NewestOnPage
=============================================================================
