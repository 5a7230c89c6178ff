---------------------------- MODULE VersionOrder ----------------------------
(***************************************************************************)
(* How src/source_github.go orders the tags of releases.  A tag is what    *)
(* the order looks at: the numbers in it and its place in the alphabet.    *)
(***************************************************************************)
EXTENDS Integers, Sequences, FiniteSetsExt

CONSTANTS
    Tags,   \* the tags
    MaxInt  \* the largest int

\* core: the numbers of the version proper; final: nothing follows them;
\* suffix: the numbers in what follows (v2.0.0-rc.1 has the core 2, 0, 0 and
\* the suffix 1); text: the place in the alphabet; prefixes: the values of the
\* prefix option that it starts with.
ASSUME OrderAssumption ==
    /\ MaxInt \in Nat
    /\ \A t \in Tags : /\ t.core \in Seq(Nat)
                       /\ t.suffix \in Seq(Nat)
                       /\ t.final \in BOOLEAN
                       /\ t.text \in Nat
    /\ \A t, u \in Tags : t.text = u.text => t = u

Numbers(t) == t.core \o t.suffix

\* versionSegments.  Atoi answers the largest int for a number beyond it, and
\* its error is ignored.
VersionSegments(t) ==
    [i \in 1 .. Len(Numbers(t)) |->
        IF Numbers(t)[i] > MaxInt THEN MaxInt ELSE Numbers(t)[i]]

Sign(n) == IF n < 0 THEN -1 ELSE IF n > 0 THEN 1 ELSE 0

\* Where the segments differ, as far as both have some.
Diffs(sa, sb) == {i \in 1 .. Len(sa) : i <= Len(sb) /\ sa[i] # sb[i]}

\* A flawed variant: equal segments are followed by the alphabet at once.
CompareIgnoringLength(a, b) ==
    LET sa == VersionSegments(a)
        sb == VersionSegments(b)
        ds == Diffs(sa, sb)
    IN  IF ds # {} THEN Sign(sa[Min(ds)] - sb[Min(ds)]) ELSE Sign(a.text - b.text)

\* compareVersions: the first segment that differs decides, then the number of
\* segments, then the alphabet.
CompareVersions(a, b) ==
    LET sa == VersionSegments(a)
        sb == VersionSegments(b)
        ds == Diffs(sa, sb)
    IN  IF ds # {} THEN Sign(sa[Min(ds)] - sb[Min(ds)])
        ELSE IF Len(sa) # Len(sb) THEN Sign(Len(sa) - Len(sb))
        ELSE Sign(a.text - b.text)

\* compareVersions is a total order, so that which tag is the highest does not
\* depend on the order of a listing: also among tags with and without a "v",
\* of different lengths and with numbers beyond int (source_github.go:139-157).
CompareIsTotalOrder ==
    /\ \A a, b \in Tags : CompareVersions(a, b) = -CompareVersions(b, a)
    /\ \A a, b \in Tags : CompareVersions(a, b) = 0 => a = b
    /\ \A a, b, c \in Tags :
         CompareVersions(a, b) > 0 /\ CompareVersions(b, c) > 0 => CompareVersions(a, c) > 0

\* The reference: the version proper of a is newer than that of b, by a number
\* that an int can tell from the other.
NewerCore(a, b) ==
    \E i \in DOMAIN a.core \cap DOMAIN b.core :
        /\ a.core[i] > b.core[i] /\ b.core[i] < MaxInt
        /\ \A k \in 1 .. (i - 1) : a.core[k] = b.core[k]
=============================================================================
