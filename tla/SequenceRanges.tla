---------------------------- MODULE SequenceRanges ----------------------------
(***************************************************************************)
(* How the operations of a queue change the set of its elements; and        *)
(* induction over a number, for the loops of the code.                       *)
(***************************************************************************)
EXTENDS Integers, Sequences, Functions, SequenceTheorems, WellFoundedInduction, TLAPS

(* The elements of a sequence, by position.                                *)
LEMMA RangeIndexed ==
  ASSUME NEW S, NEW s \in Seq(S)
  PROVE  Range(s) = {s[i] : i \in 1..Len(s)}
BY DOMAIN s = 1..Len(s), Zenon DEF Range

(* Enqueueing adds one element.                                            *)
LEMMA RangeAppend ==
  ASSUME NEW S, NEW s \in Seq(S), NEW e \in S
  PROVE  Append(s, e) \in Seq(S) /\ Range(Append(s, e)) = Range(s) \cup {e}
<1>1. /\ Append(s, e) \in Seq(S) /\ Len(s) \in Nat /\ Len(Append(s, e)) = Len(s) + 1
      /\ Append(s, e)[Len(s) + 1] = e
      /\ \A i \in 1..Len(s) : Append(s, e)[i] = s[i]
  OBVIOUS
<1>2. \A i : i \in 1..(Len(s) + 1) <=> i \in 1..Len(s) \/ i = Len(s) + 1
  BY <1>1
<1>3. Range(s) = {s[i] : i \in 1..Len(s)}
  BY RangeIndexed, Zenon
<1>4. Range(Append(s, e)) = {Append(s, e)[i] : i \in 1..(Len(s) + 1)}
  BY <1>1, RangeIndexed
<1> HIDE DEF Range
<1>5. \A x : x \in Range(Append(s, e)) <=> x \in Range(s) \/ x = e
  BY <1>1, <1>2, <1>3, <1>4
<1>6. QED
  BY <1>1, <1>5

(* Dequeueing takes the head and leaves the elements of the tail.          *)
LEMMA RangeHeadTail ==
  ASSUME NEW S, NEW s \in Seq(S), s # <<>>
  PROVE  /\ Head(s) \in S /\ Tail(s) \in Seq(S)
         /\ Range(s) = {Head(s)} \cup Range(Tail(s))
<1>1. Head(s) \in S /\ Tail(s) \in Seq(S) /\ Len(s) \in Nat \ {0}
  OBVIOUS
<1>2. ASSUME NEW i \in 1..Len(s)
      PROVE  s[i] \in {Head(s)} \cup Range(Tail(s))
  <2>1. CASE i = 1
    BY <2>1
  <2>2. CASE i # 1
    <3>1. i - 1 \in 1..Len(Tail(s)) /\ Tail(s)[i - 1] = s[i]
      BY <2>2, <1>1
    <3>2. QED
      BY <3>1 DEF Range
  <2>3. QED
    BY <2>1, <2>2
<1>3. ASSUME NEW i \in 1..Len(Tail(s))
      PROVE  Tail(s)[i] \in Range(s)
  <2>1. i + 1 \in 1..Len(s) /\ Tail(s)[i] = s[i + 1]
    BY <1>1
  <2>2. QED
    BY <2>1 DEF Range
<1>4. Head(s) \in Range(s)
  BY <1>1 DEF Range
<1>5. Range(s) = {s[i] : i \in 1..Len(s)}
  BY RangeIndexed, Zenon
<1>6. Range(Tail(s)) = {Tail(s)[i] : i \in 1..Len(Tail(s))}
  BY <1>1, RangeIndexed, Zenon
<1>7. Range(s) \subseteq {Head(s)} \cup Range(Tail(s))
  BY <1>2, <1>5, Zenon
<1>8. Range(Tail(s)) \subseteq Range(s)
  BY <1>3, <1>6, Zenon
<1>9. QED
  BY <1>1, <1>4, <1>7, <1>8, Zenon

(* The elements have the type of the sequence.                             *)
LEMMA RangeType ==
  ASSUME NEW S, NEW s \in Seq(S)
  PROVE  Range(s) \subseteq S
BY DEF Range

\* The empty queue has nothing.
LEMMA RangeEmpty == Range(<<>>) = {}
BY DEF Range

(* An element that is in a queue at most once.                             *)
Once(s, e) == \A i, j \in 1..Len(s) : s[i] = e /\ s[j] = e => i = j

(* Enqueueing another element, or one that is not in the queue, repeats    *)
(* nothing.                                                                *)
LEMMA OnceAppend ==
  ASSUME NEW S, NEW s \in Seq(S), NEW e \in S, NEW x,
         Once(s, x), x = e => x \notin Range(s)
  PROVE  Once(Append(s, e), x)
<1> SUFFICES ASSUME NEW i \in 1..Len(Append(s, e)), NEW j \in 1..Len(Append(s, e)),
                    Append(s, e)[i] = x, Append(s, e)[j] = x
             PROVE  i = j
  BY Zenon DEF Once
<1>1. Len(Append(s, e)) = Len(s) + 1 /\ Len(s) \in Nat
  OBVIOUS
<1>2. \A k \in 1..Len(s) : Append(s, e)[k] = s[k] /\ s[k] \in Range(s)
  BY DEF Range
<1>3. Append(s, e)[Len(s) + 1] = e
  OBVIOUS
<1>4. QED
  BY <1>1, <1>2, <1>3 DEF Once

(* Dequeueing repeats nothing, and takes the only copy of the head.        *)
LEMMA OnceTail ==
  ASSUME NEW S, NEW s \in Seq(S), s # <<>>, NEW x, Once(s, x)
  PROVE  Once(Tail(s), x) /\ (x = Head(s) => x \notin Range(Tail(s)))
<1>1. Tail(s) \in Seq(S) /\ Len(s) \in Nat \ {0} /\ Len(Tail(s)) = Len(s) - 1
  OBVIOUS
<1>2. \A i \in 1..Len(Tail(s)) : i + 1 \in 1..Len(s) /\ Tail(s)[i] = s[i + 1] /\ i + 1 # 1
  BY <1>1
<1>3. Once(Tail(s), x)
  BY <1>1, <1>2 DEF Once
<1>4. x = Head(s) => x \notin Range(Tail(s))
  <2>1. Range(Tail(s)) = {Tail(s)[i] : i \in 1..Len(Tail(s))}
    BY <1>1, RangeIndexed, Zenon
  <2>2. Head(s) = s[1] /\ 1 \in 1..Len(s)
    BY <1>1
  <2>3. QED
    BY <1>2, <2>1, <2>2 DEF Once
<1>5. QED
  BY <1>3, <1>4

\* What is not in the queue is not in it twice.
LEMMA OnceAbsent ==
  ASSUME NEW S, NEW s \in Seq(S), NEW x, x \notin Range(s)
  PROVE  Once(s, x)
BY DEF Once, Range

(* What is left of a queue when n elements are gone, by position.          *)
LEMMA Suffix ==
  ASSUME NEW S, NEW s \in Seq(S), NEW n \in 0..Len(s), NEW t, t = SubSeq(s, n + 1, Len(s))
  PROVE  /\ t \in Seq(S) /\ Len(t) = Len(s) - n
         /\ \A i \in 1..Len(t) : t[i] = s[i + n]
<1>1. Len(s) \in Nat /\ n \in Nat /\ n <= Len(s)
  OBVIOUS
<1>2. \A i \in (n + 1)..Len(s) : s[i] \in S
  BY <1>1
<1> DEFINE u == SubSeq(s, n + 1, Len(s))
<1>3. /\ u \in Seq(S)
      /\ Len(u) = IF n + 1 <= Len(s) THEN Len(s) - (n + 1) + 1 ELSE 0
      /\ \A i \in 1..(Len(s) - (n + 1) + 1) : u[i] = s[(n + 1) + i - 1]
  <2>1. n + 1 \in Int /\ Len(s) \in Int
    BY <1>1
  <2>2. QED
    BY <1>2, <2>1, SubSeqProperties
<1>4. t = u
  OBVIOUS
<1> HIDE DEF u
<1>5. Len(u) = Len(s) - n /\ Len(s) - (n + 1) + 1 = Len(s) - n
  BY <1>1, <1>3
<1>6. \A i \in 1..(Len(s) - n) : (n + 1) + i - 1 = i + n
  BY <1>1
<1>7. \A i \in 1..Len(u) : u[i] = s[i + n]
  BY <1>3, <1>5, <1>6
<1>8. QED
  BY <1>3, <1>4, <1>5, <1>7, Zenon

(* What is left of a queue that repeats nothing when n elements are gone.  *)
LEMMA OnceSuffix ==
  ASSUME NEW S, NEW s \in Seq(S), \A x \in S : Once(s, x),
         NEW n \in 0..Len(s), NEW t \in Seq(S), Len(t) = Len(s) - n,
         \A i \in 1..Len(t) : t[i] = s[i + n]
  PROVE  /\ Range(t) = Range(s) \ {s[i] : i \in 1..n}
         /\ \A x \in S : Once(t, x)
<1>1. /\ Len(s) \in Nat /\ Len(t) = Len(s) - n
      /\ \A i \in 1..Len(t) : i + n \in 1..Len(s) /\ t[i] = s[i + n]
  OBVIOUS
<1>2. Range(s) = {s[i] : i \in 1..Len(s)} /\ Range(t) = {t[i] : i \in 1..Len(t)}
  BY RangeIndexed
<1>3. \A i, j \in 1..Len(s) : s[i] = s[j] => i = j
  <2>1. \A i \in 1..Len(s) : s[i] \in S
    BY <1>1
  <2>2. QED
    BY <2>1, Zenon DEF Once
<1>4. ASSUME NEW x \in S PROVE Once(t, x)
  <2> SUFFICES ASSUME NEW i \in 1..Len(t), NEW j \in 1..Len(t), t[i] = x, t[j] = x
               PROVE  i = j
    BY Zenon DEF Once
  <2>1. i + n = j + n
    BY <1>1, <1>3
  <2>2. QED
    BY <1>1, <2>1
<1>5. ASSUME NEW i \in 1..Len(t)
      PROVE  t[i] \in Range(s) /\ t[i] \notin {s[j] : j \in 1..n}
  <2>1. i + n \in 1..Len(s) /\ t[i] = s[i + n]
    BY <1>1
  <2>2. \A j \in 1..n : j \in 1..Len(s) /\ j # i + n
    BY <1>1
  <2>3. QED
    BY <1>2, <1>3, <2>1, <2>2
<1>6. ASSUME NEW i \in 1..Len(s), s[i] \notin {s[j] : j \in 1..n}
      PROVE  s[i] \in Range(t)
  <2>1. i \notin 1..n
    BY <1>6
  <2>2. i - n \in 1..Len(t) /\ t[i - n] = s[i]
    BY <1>1, <2>1
  <2>3. QED
    BY <1>2, <2>2
<1>7. Range(t) \subseteq Range(s) \ {s[j] : j \in 1..n}
  BY <1>2, <1>5, Zenon
<1>8. Range(s) \ {s[j] : j \in 1..n} \subseteq Range(t)
  BY <1>2, <1>6, Zenon
<1>9. QED
  BY <1>1, <1>4, <1>7, <1>8, Zenon

(* Enqueueing behind what waits in two queues.                             *)
LEMMA ConcatAppend ==
  ASSUME NEW S, NEW s \in Seq(S), NEW t \in Seq(S), NEW e \in S
  PROVE  s \o Append(t, e) = Append(s \o t, e)
<1>1. /\ s \o Append(t, e) \in Seq(S) /\ Append(s \o t, e) \in Seq(S)
      /\ Len(s \o Append(t, e)) = Len(s) + Len(t) + 1
      /\ Len(Append(s \o t, e)) = Len(s) + Len(t) + 1
      /\ Len(s) \in Nat /\ Len(t) \in Nat
  OBVIOUS
<1>2. \A i \in 1..(Len(s) + Len(t) + 1) : (s \o Append(t, e))[i] = Append(s \o t, e)[i]
  BY <1>1
<1>3. QED
  BY <1>1, <1>2

(* The elements of a concatenation are those of its parts.                 *)
LEMMA RangeConcat ==
  ASSUME NEW S, NEW s \in Seq(S), NEW t \in Seq(S)
  PROVE  Range(s \o t) = Range(s) \cup Range(t)
<1>1. /\ Len(s) \in Nat /\ Len(t) \in Nat /\ s \o t \in Seq(S) /\ Len(s \o t) = Len(s) + Len(t)
      /\ \A k \in 1..Len(s) : (s \o t)[k] = s[k] /\ k \in 1..Len(s \o t)
      /\ \A k \in 1..Len(t) : (s \o t)[Len(s) + k] = t[k] /\ Len(s) + k \in 1..Len(s \o t)
  OBVIOUS
<1>2. /\ Range(s) = {s[i] : i \in 1..Len(s)} /\ Range(t) = {t[i] : i \in 1..Len(t)}
      /\ Range(s \o t) = {(s \o t)[i] : i \in 1..Len(s \o t)}
  BY <1>1, RangeIndexed, Zenon
<1>3. ASSUME NEW i \in 1..Len(s \o t) PROVE (s \o t)[i] \in Range(s) \cup Range(t)
  <2>1. CASE i \in 1..Len(s)
    BY <1>1, <1>2, <2>1
  <2>2. CASE i \notin 1..Len(s)
    <3>1. i - Len(s) \in 1..Len(t) /\ (s \o t)[i] = t[i - Len(s)]
      BY <1>1, <2>2
    <3>2. QED
      BY <1>2, <3>1
  <2>3. QED
    BY <2>1, <2>2
<1>4. Range(s \o t) \subseteq Range(s) \cup Range(t)
  BY <1>2, <1>3, Zenon
<1>5. Range(s) \subseteq Range(s \o t)
  BY <1>1, <1>2
<1>6. Range(t) \subseteq Range(s \o t)
  BY <1>1, <1>2
<1>7. QED
  BY <1>4, <1>5, <1>6
-----------------------------------------------------------------------------
(* A set of naturals has a least element.                                  *)
LEMMA LeastNatural ==
  ASSUME NEW T, T \subseteq Nat, T # {}
  PROVE  \E n \in T : \A m \in T : n <= m
<1> DEFINE R == {p \in Nat \X Nat : p[1] < p[2]}
<1>1. IsWellFoundedOn(R, Nat)
  BY NatLessThanWellFounded DEF OpToRel
<1>2. PICK n \in T : \A m \in T : ~(<<m, n>> \in R)
  BY <1>1, WFMin
<1>3. \A m \in T : ~(m < n)
  BY <1>2
<1>4. \A m \in T : n <= m
  BY <1>3
<1>5. QED
  BY <1>4

(* Induction, about the members of a set, which has no operator for a     *)
(* parameter: a least counterexample would have a predecessor.            *)
LEMMA UptoInduction ==
  ASSUME NEW L \in Nat, NEW S, 0 \in S, \A n \in 1..L : n - 1 \in S => n \in S
  PROVE  0..L \subseteq S
<1> DEFINE T == (0..L) \ S
<1> SUFFICES ASSUME T # {} PROVE FALSE
  OBVIOUS
<1>1. T \subseteq Nat
  OBVIOUS
<1> HIDE DEF T
<1>2. PICK n \in T : \A m \in T : n <= m
  BY <1>1, LeastNatural
<1> USE DEF T
<1>3. n \in 1..L /\ n - 1 \in 0..L /\ n - 1 \notin T
  BY <1>2
<1>4. QED
  BY <1>2, <1>3

(* The states f of a loop over 1..L that starts with x0, its body being g; *)
(* they exist, which is what a recursive function definition needs.        *)
IsLoop(f, X, x0, L, g) ==
  f \in [0..L -> X] /\ f[0] = x0 /\ \A k \in 1..L : f[k] = g[<<f[k - 1], k>>]
LoopStates(X, x0, L, g) == CHOOSE f : IsLoop(f, X, x0, L, g)

LEMMA LoopExists ==
  ASSUME NEW X, NEW x0 \in X, NEW L \in Nat, NEW g \in [X \X (1..L) -> X]
  PROVE  IsLoop(LoopStates(X, x0, L, g), X, x0, L, g)
<1> DEFINE Upto(n) ==
      \E f \in [0..n -> X] : f[0] = x0 /\ \A k \in 1..n : f[k] = g[<<f[k - 1], k>>]
           S == {n \in 0..L : Upto(n)}
<1>1. Upto(0)
  <2> DEFINE f == [k \in 0..0 |-> x0]
  <2>1. f \in [0..0 -> X] /\ f[0] = x0 /\ \A k \in 1..0 : f[k] = g[<<f[k - 1], k>>]
    OBVIOUS
  <2>2. QED
    BY <2>1
<1>2. ASSUME NEW n \in 1..L, Upto(n - 1) PROVE Upto(n)
  <2>1. PICK f \in [0..(n - 1) -> X] :
          f[0] = x0 /\ \A k \in 1..(n - 1) : f[k] = g[<<f[k - 1], k>>]
    BY <1>2
  <2> DEFINE h == [k \in 0..n |-> IF k = n THEN g[<<f[n - 1], n>>] ELSE f[k]]
  <2>2. f[n - 1] \in X /\ g[<<f[n - 1], n>>] \in X
    OBVIOUS
  <2>3. h \in [0..n -> X] /\ h[0] = x0
    BY <2>1, <2>2
  <2>4. ASSUME NEW k \in 1..n PROVE h[k] = g[<<h[k - 1], k>>]
    <3>1. k - 1 \in 0..(n - 1) /\ h[k - 1] = f[k - 1]
      OBVIOUS
    <3>2. CASE k = n
      <4>1. h[k] = g[<<f[n - 1], n>>]
        BY <3>2
      <4> HIDE DEF h
      <4>2. QED
        BY <3>1, <3>2, <4>1
    <3>3. CASE k # n
      BY <2>1, <3>1, <3>3
    <3>4. QED
      BY <3>2, <3>3
  <2>5. QED
    BY <2>3, <2>4
<1> HIDE DEF Upto
<1>3. 0 \in S /\ \A n \in 1..L : n - 1 \in S => n \in S
  BY <1>1, <1>2
<1> HIDE DEF S
<1>4. L \in S
  BY <1>3, UptoInduction
<1>5. \E f : IsLoop(f, X, x0, L, g)
  BY <1>4 DEF S, Upto, IsLoop
<1>6. QED
  BY <1>5, Zenon DEF LoopStates
=============================================================================
