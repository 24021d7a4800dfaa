-------------------------- MODULE OutdatedVersions --------------------------
(***************************************************************************)
(* How the agent decides how far an image is behind                         *)
(* (agent/kubviz/plugins/outdated/outdated.go, ParseImage and what it       *)
(* calls).  A tag that hashicorp/go-version parses is a version: its        *)
(* numbers, whether it is written with a leading "v", and its suffix; any   *)
(* other tag is a text, of which only its date counts.                      *)
(***************************************************************************)
EXTENDS Integers, Sequences, SequencesExt, FiniteSetsExt

CONSTANT NoDate   \* the date of a tag whose manifest tells none

NoSuffix == ""
Plain  == "-alpine"   \* a suffix without a dot
Dotted == "-rc.1"     \* a suffix with a dot: one more part when the tag is split

Version(v, nums, suffix) == [text |-> "", v |-> v, nums |-> nums, suffix |-> suffix]
Text(name) == [text |-> name, v |-> FALSE, nums |-> <<>>, suffix |-> NoSuffix]
IsVersion(t) == t.nums # <<>>

\* The characters of a tag: of at most four numbers (MaxParts) below 10^10, the
\* dots between them, the "v" and the suffix.
MaxParts == 4
Digits(n) == 1 + Cardinality({d \in 1..9 : 10^d <= n})
Written(t, i) == IF i <= Len(t.nums) THEN Digits(t.nums[i]) ELSE 0
Prefixed(t) == IF t.v THEN 1 ELSE 0
Suffixed(t) == IF t.suffix = Plain THEN 7 ELSE IF t.suffix = Dotted THEN 5 ELSE 0
TagLength(t) ==
  Prefixed(t) + Written(t, 1) + Written(t, 2) + Written(t, 3) + Written(t, 4)
    + Len(t.nums) - 1 + Suffixed(t)

Parts(t) == IF t.suffix = Dotted THEN Len(t.nums) + 1 ELSE Len(t.nums)

\* Version.Segments: at least three.
Segments(t) == [i \in 1..Max({3, Len(t.nums)}) |-> IF i <= Len(t.nums) THEN t.nums[i] ELSE 0]

Segment(t, i) == IF i <= Len(Segments(t)) THEN Segments(t)[i] ELSE 0
FirstDifference(a, b) ==
  LET D == {i \in 1..MaxParts : Segment(a, i) # Segment(b, i)}
  IN  IF D = {} THEN 0 ELSE Min(D)

NumberLess(a, b) == LET d == FirstDifference(a, b)
                    IN  d # 0 /\ Segment(a, d) < Segment(b, d)

\* A release comes after its prereleases, which compare by their text; the
\* suffix counts only between versions of as many segments.
SuffixRank(t) == IF t.suffix = Plain THEN 1 ELSE IF t.suffix = Dotted THEN 2 ELSE 3
LessThan(a, b) ==
  \/ NumberLess(a, b)
  \/ /\ FirstDifference(a, b) = 0
     /\ Len(Segments(a)) = Len(Segments(b))
     /\ SuffixRank(a) < SuffixRank(b)

\* sort.Sort leaves the order of equal versions open; the result of ParseImage
\* does not depend on it, since RemoveLeastSpecific keeps one of each number.
InOrder(s) == \A i, j \in DOMAIN s : i < j => ~LessThan(s[j], s[i])
Sorted(S) == CHOOSE s \in SetToSeqs(S) : InOrder(s)

(***************************************************************************)
(* Which tags are compared.                                                  *)
(***************************************************************************)
SemverOutlierMajorVersionThreshold == 2

\* The first version whose major number is more than the threshold above the
\* one before it, and everything after it, are outliers.
splitOutlierSemvers(all) ==
  LET gap == {i \in 2..Len(all) :
                Segment(all[i], 1) - Segment(all[i - 1], 1) > SemverOutlierMajorVersionThreshold}
      cut == IF gap = {} THEN Len(all) ELSE Min(gap) - 1
  IN  [remaining |-> SubSeq(all, 1, cut), outliers |-> SubSeq(all, cut + 1, Len(all))]

\* An outlier goes on as a text under its canonical form, x.y.z, which is the
\* name its date is asked for.
Canonical(t) == Version(FALSE, Segments(t), t.suffix)
parseTags(tags) ==
  LET split == splitOutlierSemvers(Sorted({t \in tags : IsVersion(t)}))
  IN  [semver    |-> split.remaining,
       nonSemver |-> SetToSeq({t \in tags : ~IsVersion(t)})
                       \o [i \in 1..Len(split.outliers) |-> Canonical(split.outliers[i])]]

\* Tags of the same numbers are one version, of which the shortest tag is kept;
\* a tag of four parts and more has the empty key.
UniqueKey(t) == IF Parts(t) > 3 THEN <<>> ELSE SubSeq(Segments(t), 1, Parts(t))
Kept(c, i) == \A j \in 1..Len(c) :
  UniqueKey(c[j]) = UniqueKey(c[i]) =>
    \/ TagLength(c[i]) < TagLength(c[j])
    \/ TagLength(c[i]) = TagLength(c[j]) /\ i <= j
Unique(c) == Sorted({c[i] : i \in {k \in 1..Len(c) : Kept(c, k)}})

\* The current version and those after it; the current one alone when Unique
\* has dropped it.
VersionsBehind(c, current) ==
  LET u  == Unique(c)
      at == {i \in 1..Len(u) : u[i] = current}
  IN  IF at = {} THEN <<current>> ELSE SubSeq(u, Min(at), Len(u))

\* The second of two neighbours goes when it only repeats the first, or has a
\* zero where the first still counts.
\* (Mutant: the two are swapped.)
LessSpecificSwapped(a, b) ==
  LET d == FirstDifference(a, b)
  IN  d = 0 \/ (Segment(b, d) > 0 /\ Segment(a, d) = 0)
LessSpecific(a, b) ==
  LET d == FirstDifference(a, b) IN
  \/ d = 0
  \/ d > Len(Segments(a)) \/ d > Len(Segments(b))
  \/ Segment(a, d) > 0 /\ Segment(b, d) = 0
RemoveLeastSpecific(c) ==
  LET cleaned[n \in 0..Len(c)] ==
        IF n = 0 THEN <<>>
        ELSE IF n > 1 /\ LessSpecific(c[n - 1], c[n]) THEN cleaned[n - 1]
        ELSE Append(cleaned[n - 1], c[n])
  IN  cleaned[Len(c)]

(***************************************************************************)
(* The answer for one image.  date gives the date of every tag the registry  *)
(* has; behind = -1 stands for "cannot tell".                                *)
(***************************************************************************)
getTagDate(date, t) == IF t \in DOMAIN date THEN date[t] ELSE NoDate

parseNonSemverImage(date, tag, nonSemverTags) ==
  LET mine == getTagDate(date, tag)
      later == {i \in 1..Len(nonSemverTags) :
                  LET d == getTagDate(date, nonSemverTags[i]) IN d # NoDate /\ d > mine}
  IN  [behind |-> IF mine = NoDate THEN -1 ELSE Cardinality(later), latest |-> tag]

ParseImage(date, current) ==
  LET parsed == parseTags(DOMAIN date)
      path == RemoveLeastSpecific(VersionsBehind(Append(parsed.semver, current), current))
  IN  IF IsVersion(current)
      THEN [behind |-> Len(path) - 1, latest |-> Canonical(path[Len(path)])]
      ELSE parseNonSemverImage(date, current, parsed.nonSemver)

(***************************************************************************)
(* What the answer should be.                                                *)
(***************************************************************************)
NewerNumbers(tags, current) ==
  {Segments(t) : t \in {u \in tags : IsVersion(u) /\ NumberLess(current, u)}}

\* Another tag has the numbers of t as t writes them: "4" and "4-alpine".
HasTwin(tags, t) == \E u \in tags \ {t} :
  Parts(u) = Parts(t) /\ Segments(u) = Segments(t)
LongTags(tags) == {t \in tags : Parts(t) > 3}
HasGap(tags) ==
  LET majors == {Segment(u, 1) : u \in {w \in tags : IsVersion(w)}} IN
  \E m \in majors : m > Min(majors) /\ (m - 2)..(m - 1) \cap majors = {}
=============================================================================
