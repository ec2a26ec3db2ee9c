---------------------------- MODULE EditingProofs ----------------------------
(***************************************************************************)
(* What is worked out of a recording for its owner: the trims of an        *)
(* analysis, the zooms of a proposal, the two timelines and the project    *)
(* document they are kept in, for any capture, any project and any number  *)
(* of samples, events, frames, clips, media and revisions.                 *)
(*                                                                         *)
(* The lists are made one element after the other, each joined to the last *)
(* where the two meet, or dropped for one chosen before.  What holds of    *)
(* them is carried from element to element, and section 1 has the lemmas   *)
(* that carry it.                                                          *)
(***************************************************************************)
EXTENDS DeadTime, EditorialProposal, Timeline, Presentation, ProjectDocument,
  FiniteSetTheorems, SequenceTheorems, WellFoundedInduction, TLAPS

-----------------------------------------------------------------------------
(* 1. Data.  A number that breaks a claim would make a least one, and that *)
(* is the induction the recursive functions of the modules need.           *)

(* There are n numbers from 1 to n.                                        *)
LEMMA CountTo ==
  ASSUME NEW n \in Nat
  PROVE  IsFiniteSet(1..n) /\ Cardinality(1..n) = n
<1>1. /\ IsFiniteSet(1..n)
      /\ Cardinality(1..n) = IF 1 > n THEN 0 ELSE n - 1 + 1
  BY FS_Interval
<1>2. (IF 1 > n THEN 0 ELSE n - 1 + 1) = n
  OBVIOUS
<1> QED BY <1>1, <1>2

(* Every set of numbers that is not empty has a least one.                 *)
LEMMA LeastNumber ==
  ASSUME NEW T, T \subseteq Nat, T # {}
  PROVE  \E x \in T : \A y \in T : x <= y
<1> DEFINE R == {ss \in Nat \X Nat : ss[1] < ss[2]}
<1>1. IsWellFoundedOn(R, Nat)
  BY NatLessThanWellFounded DEF OpToRel
<1>3. \A x, y \in Nat : <<y, x>> \notin R => x <= y
  OBVIOUS
<1> HIDE DEF R
<1>2. \E x \in T : \A y \in T : <<y, x>> \notin R
  BY <1>1, WFMin
<1> QED BY <1>2, <1>3

GoesThrough(F, n, A, b, g) == F \in [0..n -> A] /\ F[0] = b /\ \A i \in 1..n : F[i] = g[i][F[i - 1]]

(* What is given step by step, each from the one before, exists.           *)
LEMMA StepByStep ==
  ASSUME NEW n \in Nat, NEW A, NEW b \in A, NEW g \in [1..n -> [A -> A]]
  PROVE  \E F : GoesThrough(F, n, A, b, g)
<1> DEFINE Reaches(k) == \E F \in [0..k -> A] :
                            F[0] = b /\ \A i \in 1..k : F[i] = g[i][F[i - 1]]
           T == {k \in 0..n : ~Reaches(k)}
<1>1. SUFFICES ASSUME ~Reaches(n) PROVE FALSE
  BY DEF GoesThrough
<1>2. n \in T /\ T \subseteq Nat
  BY <1>1
<1> HIDE DEF T
<1>3. PICK k \in T : \A y \in T : k <= y
  BY <1>2, LeastNumber
<1>4. k \in 0..n /\ ~Reaches(k)
  BY DEF T
<1>5. Reaches(0)
  <2> WITNESS [i \in 0..0 |-> b] \in [0..0 -> A]
  <2> QED OBVIOUS
<1> HIDE DEF Reaches
<1>a. k # 0
  BY <1>4, <1>5, Zenon
<1>6. k - 1 \in 0..n /\ k \in 1..n
  BY <1>4, <1>a
<1>b. k - 1 \notin T
  BY <1>3, <1>6
<1>7. Reaches(k - 1)
  BY <1>b, <1>6 DEF T
<1>8. PICK F \in [0..(k - 1) -> A] :
         F[0] = b /\ \A i \in 1..(k - 1) : F[i] = g[i][F[i - 1]]
  BY <1>7 DEF Reaches
<1> DEFINE v == g[k][F[k - 1]]
<1>9. v \in A
  BY <1>6
<1> HIDE DEF v
<1> DEFINE G == [i \in 0..k |-> IF i = k THEN v ELSE F[i]]
<1>10. G \in [0..k -> A]
  BY <1>6, <1>9
<1>11. G[0] = b /\ \A i \in 0..(k - 1) : G[i] = F[i]
  BY <1>6, <1>8
<1>12. ASSUME NEW i \in 1..k PROVE G[i] = g[i][G[i - 1]]
  <2>1. CASE i = k
    <3>1. G[k] = v /\ k - 1 \in 0..(k - 1)
      BY <1>6
    <3>2. G[k - 1] = F[k - 1]
      BY <3>1, <1>11
    <3> QED BY <3>1, <3>2, <2>1 DEF v
  <2>2. CASE i # k
    <3>1. i \in 1..(k - 1) /\ i - 1 \in 0..(k - 1) /\ i \in 0..(k - 1)
      BY <2>2, <1>6
    <3> QED BY <3>1, <1>8, <1>11
  <2> QED BY <2>1, <2>2
<1>13. Reaches(k)
  BY <1>10, <1>11, <1>12 DEF Reaches
<1> QED BY <1>13, <1>4

(* What holds at the start and is handed from each place to the next.      *)
LEMMA HandedOn ==
  ASSUME NEW n \in Nat, NEW H, 0 \in H, \A i \in 1..n : i - 1 \in H => i \in H
  PROVE  \A i \in 0..n : i \in H
<1> DEFINE T == {k \in 0..n : k \notin H}
<1>1. SUFFICES ASSUME T # {} PROVE FALSE
  OBVIOUS
<1>2. T \subseteq Nat
  OBVIOUS
<1> HIDE DEF T
<1>3. PICK k \in T : \A y \in T : k <= y
  BY <1>1, <1>2, LeastNumber
<1>4. k \in 0..n /\ k \notin H
  BY DEF T
<1>5. k \in 1..n /\ k - 1 \in 0..n /\ k - 1 \notin T
  BY <1>3, <1>4
<1> QED BY <1>4, <1>5 DEF T

(* The places of the members of a finite set under a strict total order:   *)
(* how many members lie below.                                             *)
Below(S, R, x) == {y \in S : <<y, x>> \in R}
Rank(S, R, x) == Cardinality(Below(S, R, x))

StrictOrder(S, R) ==
  /\ \A x \in S : <<x, x>> \notin R
  /\ \A x, y, z \in S : <<x, y>> \in R /\ <<y, z>> \in R => <<x, z>> \in R
  /\ \A x, y \in S : x # y => <<x, y>> \in R \/ <<y, x>> \in R

(* A member that is before another has a lower place.                      *)
LEMMA RanksGrow ==
  ASSUME NEW S, IsFiniteSet(S), NEW R, StrictOrder(S, R)
  PROVE  /\ Cardinality(S) \in Nat
         /\ \A x \in S : Rank(S, R, x) \in 0..(Cardinality(S) - 1)
         /\ \A x, y \in S : <<x, y>> \in R <=> Rank(S, R, x) < Rank(S, R, y)
<1>1. Cardinality(S) \in Nat /\ \A x \in S : IsFiniteSet(Below(S, R, x)) /\ Rank(S, R, x) \in Nat
  <2>1. \A x \in S : Below(S, R, x) \in SUBSET S
    BY DEF Below
  <2>2. \A x \in S : IsFiniteSet(Below(S, R, x))
    BY <2>1, FS_Subset
  <2> QED BY <2>2, FS_CardinalityType DEF Rank
<1>2. ASSUME NEW x \in S PROVE Rank(S, R, x) < Cardinality(S)
  <2> DEFINE B == Below(S, R, x)
  <2>1. B \in SUBSET S /\ x \notin B
    BY DEF Below, StrictOrder
  <2> HIDE DEF B
  <2>2. Cardinality(B) <= Cardinality(S) /\ Cardinality(B) # Cardinality(S)
    BY <2>1, FS_Subset
  <2>3. Cardinality(B) = Rank(S, R, x)
    BY DEF B, Rank
  <2> QED BY <2>2, <2>3, <1>1
<1>3. ASSUME NEW x \in S, NEW y \in S, <<x, y>> \in R PROVE Rank(S, R, x) < Rank(S, R, y)
  <2> DEFINE B == Below(S, R, x)
             C == Below(S, R, y)
  <2>1. B \in SUBSET C /\ x \notin B /\ x \in C
    BY <1>3 DEF Below, StrictOrder
  <2>2. IsFiniteSet(C)
    BY <1>1
  <2>a. Cardinality(B) = Rank(S, R, x) /\ Cardinality(C) = Rank(S, R, y)
    BY DEF Rank
  <2> HIDE DEF B, C
  <2>3. Cardinality(B) <= Cardinality(C) /\ Cardinality(B) # Cardinality(C)
    BY <2>1, <2>2, FS_Subset
  <2> QED BY <2>3, <2>a, <1>1
<1>4. ASSUME NEW x \in S, NEW y \in S, Rank(S, R, x) < Rank(S, R, y) PROVE <<x, y>> \in R
  <2>1. x # y
    BY <1>4, <1>1
  <2>2. ~(<<y, x>> \in R)
    <3>1. <<y, x>> \in R => Rank(S, R, y) < Rank(S, R, x)
      BY <1>3
    <3>2. ~(Rank(S, R, y) < Rank(S, R, x))
      BY <1>4, <1>1
    <3> QED BY <3>1, <3>2
  <2> QED BY <2>1, <2>2 DEF StrictOrder
<1>5. \A x \in S : Rank(S, R, x) \in 0..(Cardinality(S) - 1)
  BY <1>1, <1>2
<1> QED BY <1>1, <1>3, <1>4, <1>5

(* No place is left free.                                                  *)
LEMMA EveryRankTaken ==
  ASSUME NEW S, IsFiniteSet(S), NEW R, StrictOrder(S, R)
  PROVE  \A i \in 0..(Cardinality(S) - 1) : \E x \in S : Rank(S, R, x) = i
<1> DEFINE n == Cardinality(S)
           f == [x \in S |-> Rank(S, R, x)]
<1>1. n \in Nat
  BY RanksGrow
<1>2. \A x \in S : Rank(S, R, x) \in 0..(n - 1)
  BY RanksGrow
<1>3. \A x, y \in S : <<x, y>> \in R => Rank(S, R, x) < Rank(S, R, y)
  BY RanksGrow
<1>4. \A x, y \in S : Rank(S, R, x) = Rank(S, R, y) => x = y
  <2> SUFFICES ASSUME NEW x \in S, NEW y \in S, Rank(S, R, x) = Rank(S, R, y), x # y
               PROVE  FALSE
    OBVIOUS
  <2>1. <<x, y>> \in R \/ <<y, x>> \in R
    BY DEF StrictOrder
  <2>2. Rank(S, R, x) < Rank(S, R, y) \/ Rank(S, R, y) < Rank(S, R, x)
    BY <2>1, <1>3
  <2> HIDE DEF n
  <2> QED BY <2>2, <1>2, <1>1
<1> HIDE DEF n
<1>5. f \in Injection(S, 0..(n - 1))
  <2>1. f \in [S -> 0..(n - 1)]
    BY <1>2
  <2> QED BY <2>1, <1>4 DEF Injection, IsInjective
<1>6. IsFiniteSet(0..(n - 1)) /\ Cardinality(0..(n - 1)) = n
  BY <1>1, FS_Interval
<1> HIDE DEF f
<1>7. f \in Surjection(S, 0..(n - 1))
  <2>1. Cardinality(S) = Cardinality(0..(n - 1))
    BY <1>6 DEF n
  <2> QED BY <2>1, <1>5, <1>6, FS_Injection
<1>8. \A i \in 0..(n - 1) : \E x \in S : Rank(S, R, x) = i
  BY <1>7 DEF f, Surjection
<1> QED BY <1>8 DEF n

(* Sequences that grow at their end, or whose last is replaced.            *)
LEMMA IsASeqOf ==
  ASSUME NEW S, NEW n \in Nat, NEW s, s = [i \in 1..n |-> s[i]], \A i \in 1..n : s[i] \in S
  PROVE  s \in Seq(S) /\ Len(s) = n
<1>1. s \in [1..n -> S] /\ DOMAIN s = 1..n
  OBVIOUS
<1> QED BY <1>1

(* Replacing the last element leaves the others alone.                     *)
LEMMA LastReplaced ==
  ASSUME NEW S, NEW m \in Seq(S), m # <<>>, NEW x \in S
  PROVE  LET s == Append(Front(m), x)
         IN  /\ s \in Seq(S) /\ s # <<>> /\ Len(s) = Len(m) /\ s[Len(m)] = x
             /\ \A i \in 1..(Len(m) - 1) : s[i] = m[i]
<1> DEFINE n == Len(m)
           p == SubSeq(m, 1, n - 1)
           s == Append(p, x)
<1>0. s = Append(Front(m), x)
  BY DEF Front
<1>1. n \in Nat \ {0} /\ \A i \in 1..n : m[i] \in S
  BY EmptySeq, ElementOfSeq
<1>2. /\ p \in Seq(S) /\ Len(p) = n - 1
      /\ \A i \in 1..(n - 1) : p[i] = m[i]
  <2>1. \A i \in 1..(n - 1) : m[i] \in S
    BY <1>1
  <2>2. 1 \in Int /\ n - 1 \in Int /\ n \in Nat \ {0} /\ (n - 1) - 1 + 1 = n - 1
    BY <1>1
  <2> HIDE DEF n
  <2>3. /\ p \in Seq(S)
        /\ Len(p) = IF 1 <= n - 1 THEN (n - 1) - 1 + 1 ELSE 0
        /\ \A i \in 1 .. ((n - 1) - 1 + 1) : p[i] = m[1 + i - 1]
    BY <2>1, <2>2, SubSeqProperties
  <2>4. \A i \in 1..(n - 1) : 1 + i - 1 = i
    OBVIOUS
  <2> QED BY <2>2, <2>3, <2>4
<1> HIDE DEF p
<1>3. /\ s \in Seq(S) /\ s # <<>> /\ Len(s) = Len(p) + 1
      /\ \A i \in 1..Len(p) : s[i] = p[i]
      /\ s[Len(p) + 1] = x
  BY <1>2, AppendProperties
<1>4. Len(p) + 1 = n
  BY <1>1, <1>2
<1>5. s \in Seq(S) /\ s # <<>> /\ Len(s) = n /\ s[n] = x /\ \A i \in 1..(n - 1) : s[i] = m[i]
  BY <1>3, <1>4, <1>2
<1> QED BY <1>5, <1>0, Zenon

-----------------------------------------------------------------------------
(* 2. Dead time.  The intervals between the boundaries tile the capture,   *)
(* and so do the merged ones.                                              *)

IntervalType == [start : Nat, end : Nat, class : {"active", "static-reading", "idle"},
                 static : Nat, action : {"keep", "review-trim"},
                 protected : BOOLEAN, supported : BOOLEAN]

Tile(s, upto) ==
  /\ s \in Seq(IntervalType) /\ s # <<>>
  /\ s[1].start = 0 /\ s[Len(s)].end = upto
  /\ \A i \in 1..Len(s) : s[i].start < s[i].end
  /\ \A i \in 1..(Len(s) - 1) : s[i].end = s[i + 1].start

(* The intervals of a tiling are typed.                                    *)
LEMMA TileParts ==
  ASSUME NEW L, NEW s, Tile(s, L)
  PROVE  /\ Len(s) \in Nat \ {0} /\ DOMAIN s = 1..Len(s)
         /\ \A k \in 1..Len(s) : s[k] \in IntervalType /\ s[k].start \in Nat /\ s[k].end \in Nat
<1>1. s \in Seq(IntervalType) /\ s # <<>>
  BY DEF Tile
<1>2. Len(s) \in Nat \ {0} /\ DOMAIN s = 1..Len(s)
  BY <1>1, EmptySeq, LenProperties
<1>3. \A k \in 1..Len(s) : s[k] \in IntervalType
  BY <1>1, ElementOfSeq
<1>4. \A r \in IntervalType : r.start \in Nat /\ r.end \in Nat
  BY DEF IntervalType
<1> QED BY <1>2, <1>3, <1>4

(* An interval ends before any later one starts.                           *)
LEMMA TilesInOrder ==
  ASSUME NEW L \in Nat, NEW s, Tile(s, L), NEW i \in 1..Len(s)
  PROVE  \A j \in (i + 1)..Len(s) : s[i].end <= s[j].start
<1> DEFINE n == Len(s)
<1>0. n \in Nat /\ \A k \in 1..n : s[k].start \in Nat /\ s[k].end \in Nat
  BY TileParts
<1>a. \A k \in 1..n : s[k].start < s[k].end
  BY DEF Tile
<1>b. \A k \in 1..(n - 1) : s[k].end = s[k + 1].start
  BY DEF Tile
<1> HIDE DEF n
<1> DEFINE T == {j \in (i + 1)..n : ~(s[i].end <= s[j].start)}
<1>1. SUFFICES ASSUME T # {} PROVE FALSE
  BY DEF n
<1>i. i \in 1..n
  BY DEF n
<1>2. T \subseteq Nat
  BY <1>0, <1>i
<1> HIDE DEF T
<1>3. PICK j \in T : \A y \in T : j <= y
  BY <1>1, <1>2, LeastNumber
<1>4. j \in (i + 1)..n /\ ~(s[i].end <= s[j].start)
  BY DEF T
<1>5. j # i + 1
  BY <1>4, <1>b, <1>0, <1>i
<1>6. j - 1 \in (i + 1)..n /\ j - 1 \in 1..(n - 1)
  BY <1>4, <1>5, <1>0, <1>i
<1>7. j - 1 \notin T
  <2>1. j - 1 \in T => j <= j - 1
    BY <1>3
  <2>2. j \in Int
    BY <1>4, <1>0, <1>i
  <2> QED BY <2>1, <2>2
<1>8. s[i].end <= s[j - 1].start
  BY <1>7, <1>6 DEF T
<1>9. s[j - 1].start < s[j - 1].end /\ s[j - 1].end = s[j].start
  <2>1. s[j - 1].end = s[(j - 1) + 1].start
    BY <1>6, <1>b
  <2>2. (j - 1) + 1 = j
    BY <1>4, <1>0, <1>i
  <2>3. j - 1 \in 1..n
    BY <1>6, <1>0
  <2> QED BY <2>1, <2>2, <2>3, <1>a
<1> QED
  <2>1. j \in 1..n /\ j - 1 \in 1..n
    BY <1>4, <1>6, <1>0, <1>i
  <2> QED BY <1>4, <1>8, <1>9, <1>0, <1>i, <2>1

(* Every moment lies in exactly one interval of a tiling.                  *)
LEMMA TilesCoverOnce ==
  ASSUME NEW L \in Nat, NEW s, Tile(s, L), NEW t \in 0..(L - 1)
  PROVE  Cardinality({i \in DOMAIN s : s[i].start <= t /\ t < s[i].end}) = 1
<1> DEFINE n == Len(s)
           T == {i \in 1..n : t < s[i].end}
           At == {i \in DOMAIN s : s[i].start <= t /\ t < s[i].end}
<1>0. n \in Nat \ {0} /\ DOMAIN s = 1..n /\ \A k \in 1..n : s[k].start \in Nat /\ s[k].end \in Nat
  BY TileParts
<1>a. s[1].start = 0 /\ s[n].end = L /\ \A k \in 1..(n - 1) : s[k].end = s[k + 1].start
  BY DEF Tile
<1>b. \A i \in 1..n : \A j \in (i + 1)..n : s[i].end <= s[j].start
  BY TilesInOrder
<1> HIDE DEF n
<1>1. n \in T /\ T \subseteq Nat
  BY <1>0, <1>a
<1> HIDE DEF T
<1>2. PICK i \in T : \A y \in T : i <= y
  BY <1>1, LeastNumber
<1>3. i \in 1..n /\ t < s[i].end
  BY DEF T
<1>4. s[i].start <= t
  <2>1. CASE i = 1
    BY <2>1, <1>a
  <2>2. CASE i # 1
    <3>1. i - 1 \in 1..(n - 1) /\ i - 1 \in 1..n /\ (i - 1) + 1 = i
      BY <2>2, <1>3, <1>0
    <3>2. i - 1 \notin T
      BY <3>1, <1>2, <1>3
    <3>3. ~(t < s[i - 1].end)
      BY <3>1, <3>2 DEF T
    <3>4. s[i - 1].end = s[i].start
      BY <3>1, <1>a
    <3> QED BY <3>1, <3>3, <3>4, <1>0, <1>3
  <2> QED BY <2>1, <2>2
<1>5. ASSUME NEW j \in At PROVE j = i
  <2>1. j \in 1..n /\ s[j].start <= t /\ t < s[j].end
    BY <1>0
  <2>2. ~(j < i)
    <3>1. j < i => s[j].end <= s[i].start
      BY <2>1, <1>3, <1>b, <1>0
    <3> QED BY <3>1, <2>1, <1>4, <1>0, <1>3
  <2>3. ~(i < j)
    <3>1. i < j => s[i].end <= s[j].start
      BY <2>1, <1>3, <1>b, <1>0
    <3> QED BY <3>1, <2>1, <1>3, <1>0
  <2> QED BY <2>1, <2>2, <2>3, <1>3
<1>6. At = {i}
  BY <1>3, <1>4, <1>5, <1>0
<1> QED BY <1>6, FS_Singleton

SparesNeeded(r) ==
  r.action = "review-trim" =>
    /\ \A t \in r.start..(r.end - 1) : ~Needed(t)
    /\ r.end - r.start >= Least(config.idleReview, config.readingReview)

Sound(s, upto) == Tile(s, upto) /\ \A i \in 1..Len(s) : SparesNeeded(s[i])

(* The times an analysis works with lie in its capture.                    *)
LEMMA TimesOfInput ==
  ASSUME sampled \in Inputs, InputFits
  PROVE  /\ sampled.length \in Nat \ {0}
         /\ config \in Config
         /\ OpeningEnd \in 0..sampled.length /\ EndingStart \in 0..sampled.length
         /\ \A i \in DOMAIN sampled.frames : sampled.frames[i].at \in 0..sampled.length
         /\ \A a \in ActionSet : a.at \in 0..sampled.length /\ Context(a) \in Nat
<1>1. sampled.length \in Nat \ {0} /\ config \in Config
  BY InputsAreTimed DEF InputFits, config
<1>2. \A a \in ActionSet : a.at \in 0..sampled.length
  BY DEF ActionSet, InputFits, Follow
<1>3. \A i \in DOMAIN sampled.frames : sampled.frames[i].at \in 0..sampled.length
  BY DEF InputFits, Follow
<1>4. config.opening \in Nat /\ config.ending \in Nat /\ config.click \in Nat /\ config.action \in Nat
  BY <1>1 DEF Config
<1>5. \A a : Context(a) \in Nat
  BY <1>4 DEF Context
<1>6. OpeningEnd \in 0..sampled.length /\ EndingStart \in 0..sampled.length
  BY <1>1, <1>4 DEF OpeningEnd, EndingStart, Least, Most
<1> QED BY <1>1, <1>2, <1>3, <1>5, <1>6

(* So do the boundaries, which are finitely many.                          *)
LEMMA BoundariesLieWithin ==
  ASSUME sampled \in Inputs, InputFits
  PROVE  Boundaries \in SUBSET (0..sampled.length)
<1> DEFINE L == sampled.length
<1>1. L \in Nat \ {0}
  BY TimesOfInput
<1>2. \A a \in ActionSet : Most(0, a.at - Context(a)) \in 0..L /\ Least(L, a.at + Context(a)) \in 0..L
  <2> TAKE a \in ActionSet
  <2> DEFINE c == Context(a)
             t == a.at
  <2>1. t \in 0..L /\ c \in Nat
    BY TimesOfInput
  <2> HIDE DEF c, t, L
  <2>2. Most(0, t - c) \in 0..L /\ Least(L, t + c) \in 0..L
    BY <1>1, <2>1 DEF Most, Least
  <2> QED BY <2>2 DEF c, t
<1>3. {0, L, OpeningEnd, EndingStart} \subseteq 0..L
  BY TimesOfInput, <1>1
<1>4. {sampled.frames[i].at : i \in DOMAIN sampled.frames} \subseteq 0..L
  BY TimesOfInput
<1>5. /\ {Most(0, a.at - Context(a)) : a \in ActionSet} \subseteq 0..L
      /\ {Least(L, a.at + Context(a)) : a \in ActionSet} \subseteq 0..L
  BY <1>2
<1> QED BY <1>3, <1>4, <1>5 DEF Boundaries

(* A moment between two neighbouring boundaries lies after the same frames *)
(* as the first of them.                                                   *)
LEMMA SameFrames ==
  ASSUME sampled \in Inputs, InputFits,
         NEW start \in 0..sampled.length, NEW end \in 0..sampled.length,
         \A c \in Boundaries : ~(start < c /\ c < end),
         NEW t \in start..(end - 1)
  PROVE  Before(t) = Before(start)
<1>1. \A i \in DOMAIN sampled.frames : sampled.frames[i].at \in Boundaries
  BY DEF Boundaries
<1>2. sampled.length \in Nat
  BY TimesOfInput
<1>3. ASSUME NEW i \in DOMAIN sampled.frames
      PROVE  sampled.frames[i].at <= t <=> sampled.frames[i].at <= start
  <2>1. sampled.frames[i].at \in 0..sampled.length
    BY TimesOfInput
  <2>2. ~(start < sampled.frames[i].at /\ sampled.frames[i].at < end)
    BY <1>1
  <2> QED BY <2>1, <2>2, <1>2
<1> QED BY <1>3 DEF Before

(* No trim between two boundaries holds a moment a viewer needs.           *)
LEMMA IntervalSpares ==
  ASSUME sampled \in Inputs, InputFits,
         NEW start \in 0..sampled.length, NEW end \in 0..sampled.length, start < end,
         \A c \in Boundaries : ~(start < c /\ c < end)
  PROVE  /\ Interval(start, end) \in IntervalType
         /\ Interval(start, end).start = start /\ Interval(start, end).end = end
         /\ SparesNeeded(Interval(start, end))
<1> DEFINE r == Interval(start, end)
           hit == {a \in ActionSet : ActionOverlaps(a, start, end)}
<1>0. sampled.length \in Nat \ {0}
  BY TimesOfInput
<1>1. r.start = start /\ r.end = end
  BY DEF Interval
<1>2. r \in IntervalType
  <2>1. r = [start |-> start, end |-> end, class |-> r.class, static |-> r.static,
             action |-> r.action, protected |-> r.protected, supported |-> r.supported]
    BY DEF Interval
  <2>2. r.class \in {"active", "static-reading", "idle"} /\ r.action \in {"keep", "review-trim"}
    BY DEF Interval
  <2>3. r.static \in Nat
    BY DEF Interval
  <2>4. r.protected \in BOOLEAN /\ r.supported \in BOOLEAN
    BY Zenon DEF Interval, Bracketed
  <2>5. start \in Nat /\ end \in Nat
    BY <1>0
  <2> DEFINE c == r.class
             a == r.action
             k == r.static
             p == r.protected
             q == r.supported
  <2>6. r = [start |-> start, end |-> end, class |-> c, static |-> k,
             action |-> a, protected |-> p, supported |-> q]
    BY <2>1
  <2>7. /\ c \in {"active", "static-reading", "idle"} /\ a \in {"keep", "review-trim"}
        /\ k \in Nat /\ p \in BOOLEAN /\ q \in BOOLEAN
    BY <2>2, <2>3, <2>4
  <2> HIDE DEF r, c, a, k, p, q
  <2> QED BY <2>5, <2>6, <2>7, Zenon DEF IntervalType
<1>3. ASSUME r.action = "review-trim" PROVE SparesNeeded(r)
  <2>1. r.class # "active" /\ Bracketed(start) /\ r.class \in {"active", "static-reading", "idle"}
    BY <1>3, <1>2 DEF Interval, IntervalType
  <2>2. end - start >= (IF r.class = "idle" THEN config.idleReview ELSE config.readingReview)
    BY <1>3 DEF Interval
  <2>3. /\ ~(start < OpeningEnd \/ end > EndingStart)
        /\ ~\E a \in hit : Discrete(a)
        /\ ~(ChangeFrom(start) > config.reading)
    BY <2>1 DEF Interval
  <2>4. end - start >= Least(config.idleReview, config.readingReview)
    <3>1. config.idleReview \in Nat /\ config.readingReview \in Nat
      BY TimesOfInput DEF Config
    <3> QED BY <3>1, <2>2, <1>0 DEF Least
  <2>5. ASSUME NEW t \in start..(end - 1) PROVE ~Needed(t)
    <3>1. Before(t) = Before(start)
      BY SameFrames
    <3>2. Bracketed(t) /\ ~(ChangeFrom(t) > config.reading)
      BY <3>1, <2>1, <2>3 DEF Bracketed, ChangeFrom
    <3>3. ~(t < OpeningEnd) /\ ~(t >= EndingStart)
      BY <2>3, <1>0, TimesOfInput
    <3>4. ASSUME NEW a \in ActionSet, Discrete(a), t >= a.at - Context(a), t < a.at + Context(a)
          PROVE  FALSE
      <4>1. a.at \in Int /\ Context(a) \in Int
        BY TimesOfInput, <1>0
      <4>2. ActionOverlaps(a, start, end)
        <5> DEFINE from == a.at - Context(a)
                   upto == a.at + Context(a)
        <5>1. from \in Int /\ upto \in Int /\ t >= from /\ t < upto
          BY <4>1, <3>4
        <5> HIDE DEF from, upto
        <5>2. upto > start /\ from < end
          BY <5>1, <1>0
        <5> QED BY <5>2 DEF from, upto, ActionOverlaps
      <4> QED BY <4>2, <3>4, <2>3
    <3> QED BY <3>2, <3>3, <3>4 DEF Needed
  <2> QED BY <2>4, <2>5, <1>1 DEF SparesNeeded
<1>4. SparesNeeded(r)
  BY <1>3 DEF SparesNeeded
<1> QED BY <1>1, <1>2, <1>4

(* The boundaries one after another: the first and the last are the ends   *)
(* of the capture, and none lies between two neighbours.                   *)
CutAt(i) == CHOOSE b \in Boundaries : Cardinality({c \in Boundaries : c < b}) = i

(* The boundaries, counted, are in order and leave none out.               *)
LEMMA CutsInOrder ==
  ASSUME sampled \in Inputs, InputFits
  PROVE  LET n == Cardinality(Boundaries) IN
         /\ n \in Nat /\ n >= 2
         /\ \A i \in 0..(n - 1) : CutAt(i) \in Boundaries
         /\ CutAt(0) = 0 /\ CutAt(n - 1) = sampled.length
         /\ \A i \in 1..(n - 1) :
              /\ CutAt(i - 1) < CutAt(i)
              /\ \A c \in Boundaries : ~(CutAt(i - 1) < c /\ c < CutAt(i))
<1> DEFINE B == Boundaries
           L == sampled.length
           R == {z \in B \X B : z[1] < z[2]}
           n == Cardinality(B)
<1>1. L \in Nat \ {0} /\ B \in SUBSET (0..L) /\ 0 \in B /\ L \in B
  BY TimesOfInput, BoundariesLieWithin DEF Boundaries
<1>2. \A b \in B : Rank(B, R, b) = Cardinality({c \in B : c < b})
  <2> TAKE b \in B
  <2>1. Below(B, R, b) = {c \in B : c < b}
    BY DEF Below
  <2> QED BY <2>1 DEF Rank
<1>a. \A i : CutAt(i) = CHOOSE b \in B : Cardinality({c \in B : c < b}) = i
  BY DEF CutAt
<1> HIDE DEF B, L
<1>3. IsFiniteSet(B)
  <2>1. IsFiniteSet(0..L)
    BY <1>1, FS_Interval
  <2> QED BY <1>1, <2>1, FS_Subset
<1>4. \A b, c \in B : <<b, c>> \in R <=> b < c
  OBVIOUS
<1> HIDE DEF R
<1>5. StrictOrder(B, R)
  BY <1>1, <1>4 DEF StrictOrder
<1>6. /\ n \in Nat
      /\ \A b \in B : Rank(B, R, b) \in 0..(n - 1)
      /\ \A b, c \in B : b < c <=> Rank(B, R, b) < Rank(B, R, c)
  BY <1>3, <1>4, <1>5, RanksGrow
<1>7. \A i \in 0..(n - 1) : CutAt(i) \in B /\ Rank(B, R, CutAt(i)) = i
  <2> TAKE i \in 0..(n - 1)
  <2>1. \E b \in B : Rank(B, R, b) = i
    BY <1>3, <1>5, EveryRankTaken
  <2>2. \E b \in B : Cardinality({c \in B : c < b}) = i
    BY <2>1, <1>2
  <2>3. CutAt(i) \in B /\ Cardinality({c \in B : c < CutAt(i)}) = i
    BY <2>2, <1>a
  <2> QED BY <2>3, <1>2
<1> HIDE DEF n
<1>8. n >= 2
  <2>1. Rank(B, R, 0) < Rank(B, R, L) /\ Rank(B, R, 0) \in 0..(n - 1) /\ Rank(B, R, L) \in 0..(n - 1)
    BY <1>1, <1>6
  <2> QED BY <2>1, <1>6
<1>9. CutAt(0) = 0
  <2>1. 0 \in 0..(n - 1)
    BY <1>8, <1>6
  <2>2. CutAt(0) \in B /\ Rank(B, R, CutAt(0)) = 0
    BY <2>1, <1>7
  <2>3. 0 < CutAt(0) <=> Rank(B, R, 0) < Rank(B, R, CutAt(0))
    BY <2>2, <1>1, <1>6
  <2>4. Rank(B, R, 0) \in 0..(n - 1) /\ CutAt(0) \in 0..L
    BY <2>2, <1>1, <1>6
  <2> QED BY <2>2, <2>3, <2>4, <1>1
<1>10. CutAt(n - 1) = L
  <2>1. n - 1 \in 0..(n - 1)
    BY <1>8, <1>6
  <2>2. CutAt(n - 1) \in B /\ Rank(B, R, CutAt(n - 1)) = n - 1
    BY <2>1, <1>7
  <2>3. CutAt(n - 1) < L <=> Rank(B, R, CutAt(n - 1)) < Rank(B, R, L)
    BY <2>2, <1>1, <1>6
  <2>4. Rank(B, R, L) \in 0..(n - 1) /\ CutAt(n - 1) \in 0..L
    BY <2>2, <1>1, <1>6
  <2> QED BY <2>2, <2>3, <2>4, <1>1, <1>6
<1>11. ASSUME NEW i \in 1..(n - 1)
       PROVE  /\ CutAt(i - 1) < CutAt(i)
              /\ \A c \in B : ~(CutAt(i - 1) < c /\ c < CutAt(i))
  <2> DEFINE b == CutAt(i - 1)
             d == CutAt(i)
  <2>1. i - 1 \in 0..(n - 1) /\ i \in 0..(n - 1) /\ i \in Int
    BY <1>6
  <2>2. b \in B /\ Rank(B, R, b) = i - 1 /\ d \in B /\ Rank(B, R, d) = i
    BY <2>1, <1>7
  <2> HIDE DEF b, d
  <2>3. b < d
    <3>1. b < d <=> Rank(B, R, b) < Rank(B, R, d)
      BY <2>2, <1>6
    <3> QED BY <2>2, <3>1, <2>1
  <2>4. ASSUME NEW c \in B PROVE ~(b < c /\ c < d)
    <3>1. b < c <=> i - 1 < Rank(B, R, c)
      BY <2>2, <1>6
    <3>2. c < d <=> Rank(B, R, c) < i
      BY <2>2, <1>6
    <3>3. Rank(B, R, c) \in 0..(n - 1)
      BY <1>6
    <3> QED BY <3>1, <3>2, <3>3, <2>1, <1>6
  <2> QED BY <2>3, <2>4 DEF b, d
<1> QED BY <1>6, <1>7, <1>8, <1>9, <1>10, <1>11 DEF B, L, n

(* The intervals between the boundaries tile the capture.                  *)
LEMMA BuiltSound ==
  ASSUME sampled \in Inputs, InputFits
  PROVE  /\ Tile(BuildIntervals, sampled.length)
         /\ \A i \in 1..Len(BuildIntervals) : SparesNeeded(BuildIntervals[i])
<1> DEFINE L == sampled.length
           n == Cardinality(Boundaries)
           s == BuildIntervals
<1>2. Boundaries \in SUBSET (0..L)
  BY BoundariesLieWithin
<1>3. s = [i \in 1..(n - 1) |-> Interval(CutAt(i - 1), CutAt(i))]
  BY DEF BuildIntervals, CutAt
<1>4. /\ n \in Nat /\ n >= 2
      /\ \A i \in 0..(n - 1) : CutAt(i) \in Boundaries
      /\ CutAt(0) = 0 /\ CutAt(n - 1) = L
      /\ \A i \in 1..(n - 1) : /\ CutAt(i - 1) < CutAt(i)
                               /\ \A c \in Boundaries : ~(CutAt(i - 1) < c /\ c < CutAt(i))
  BY CutsInOrder
<1> HIDE DEF n
<1>5. ASSUME NEW i \in 1..(n - 1)
      PROVE  /\ s[i] \in IntervalType /\ SparesNeeded(s[i])
             /\ s[i].start = CutAt(i - 1) /\ s[i].end = CutAt(i)
             /\ CutAt(i - 1) < CutAt(i)
  <2> DEFINE from == CutAt(i - 1)
             upto == CutAt(i)
  <2>1. i - 1 \in 0..(n - 1) /\ i \in 0..(n - 1)
    BY <1>4
  <2>2. from \in 0..L /\ upto \in 0..L
    BY <2>1, <1>2, <1>4
  <2>3. from < upto /\ \A c \in Boundaries : ~(from < c /\ c < upto)
    BY <1>4
  <2>4. s[i] = Interval(from, upto)
    BY <1>3
  <2> HIDE DEF from, upto, s
  <2>5. /\ Interval(from, upto) \in IntervalType
        /\ Interval(from, upto).start = from /\ Interval(from, upto).end = upto
        /\ SparesNeeded(Interval(from, upto))
    BY <2>2, <2>3, IntervalSpares
  <2>6. s[i] \in IntervalType /\ SparesNeeded(s[i]) /\ s[i].start = from /\ s[i].end = upto
    BY <2>4, <2>5, Zenon
  <2> QED BY <2>3, <2>6 DEF from, upto
<1>6. s = [i \in 1..(n - 1) |-> s[i]] /\ n - 1 \in Nat
  BY <1>3, <1>4
<1> HIDE DEF s
<1>7. s \in Seq(IntervalType) /\ Len(s) = n - 1
  BY <1>5, <1>6, IsASeqOf
<1>8. s # <<>>
  BY <1>7, <1>4, EmptySeq
<1>9. s[1].start = 0 /\ s[Len(s)].end = L
  <2>1. 1 \in 1..(n - 1) /\ n - 1 \in 1..(n - 1) /\ 1 - 1 = 0
    BY <1>4
  <2> QED BY <2>1, <1>5, <1>7, <1>4
<1>10. \A i \in 1..(Len(s) - 1) : s[i].end = s[i + 1].start
  <2> TAKE i \in 1..(Len(s) - 1)
  <2>1. i \in 1..(n - 1) /\ i + 1 \in 1..(n - 1) /\ (i + 1) - 1 = i
    BY <1>7, <1>4
  <2> QED BY <2>1, <1>5
<1>11. \A i \in 1..Len(s) : s[i].start < s[i].end /\ SparesNeeded(s[i])
  BY <1>5, <1>7
<1> QED BY <1>7, <1>8, <1>9, <1>10, <1>11 DEF s, Tile

(* An interval made longer keeps its start and what is done with it.       *)
LEMMA Lengthened ==
  ASSUME NEW y \in IntervalType, NEW r \in IntervalType
  PROVE  LET x == [y EXCEPT !.end = r.end, !.static = @ + r.static]
         IN  x \in IntervalType /\ x.start = y.start /\ x.end = r.end /\ x.action = y.action
<1> DEFINE k == y.static + r.static
           x == [y EXCEPT !.end = r.end, !.static = k]
<1>1. k \in Nat /\ r.end \in Nat
  BY DEF IntervalType
<1> HIDE DEF k
<1>2. x \in IntervalType
  BY <1>1, Zenon DEF IntervalType
<1>3. x.start = y.start /\ x.end = r.end /\ x.action = y.action
  BY DEF IntervalType
<1> QED BY <1>2, <1>3 DEF k

(* Merging takes one more interval, or lets it lengthen the last.          *)
LEMMA MergeType ==
  ASSUME NEW m \in Seq(IntervalType), NEW r \in IntervalType
  PROVE  Merge(m, r) \in Seq(IntervalType)
<1>1. CASE m # <<>> /\ Compatible(Last(m), r)
  <2> DEFINE x == [Last(m) EXCEPT !.end = r.end, !.static = @ + r.static]
  <2>1. Last(m) \in IntervalType
    BY <1>1, EmptySeq, ElementOfSeq DEF Last
  <2>2. x \in IntervalType
    BY <2>1, Lengthened
  <2>3. Merge(m, r) = Append(Front(m), x)
    BY <1>1 DEF Merge
  <2> HIDE DEF x
  <2> QED BY <1>1, <2>2, <2>3, LastReplaced
<1>2. CASE ~(m # <<>> /\ Compatible(Last(m), r))
  BY <1>2, AppendProperties DEF Merge
<1> QED BY <1>1, <1>2

(* A tiling is continued by an interval that starts at its end.            *)
LEMMA AppendedTile ==
  ASSUME NEW L \in Nat, NEW m, Sound(m, L), NEW r \in IntervalType, SparesNeeded(r),
         r.start = L, r.start < r.end
  PROVE  Sound(Append(m, r), r.end)
<1> DEFINE n == Len(m)
           s == Append(m, r)
<1>1. /\ n \in Nat \ {0} /\ m \in Seq(IntervalType) /\ m # <<>>
      /\ m[1].start = 0 /\ m[n].end = L
      /\ \A i \in 1..n : m[i].start < m[i].end
      /\ \A i \in 1..(n - 1) : m[i].end = m[i + 1].start
      /\ \A i \in 1..n : SparesNeeded(m[i])
  BY TileParts DEF Sound, Tile
<1>2. /\ s \in Seq(IntervalType) /\ s # <<>> /\ Len(s) = n + 1
      /\ \A i \in 1..n : s[i] = m[i]
      /\ s[n + 1] = r
  BY <1>1, AppendProperties
<1> HIDE DEF n, s
<1>3. s[1].start = 0 /\ s[Len(s)].end = r.end
  BY <1>1, <1>2
<1>4. \A i \in 1..Len(s) : s[i].start < s[i].end /\ SparesNeeded(s[i])
  <2> TAKE i \in 1..Len(s)
  <2>1. i \in 1..n \/ i = n + 1
    BY <1>1, <1>2
  <2>2. i \in 1..n => s[i] = m[i]
    BY <1>2
  <2>3. i = n + 1 => s[i] = r
    BY <1>2
  <2> QED BY <2>1, <2>2, <2>3, <1>1, Zenon
<1>5. \A i \in 1..(Len(s) - 1) : s[i].end = s[i + 1].start
  <2> TAKE i \in 1..(Len(s) - 1)
  <2>1. i \in 1..n
    BY <1>1, <1>2
  <2>2. CASE i = n
    BY <2>1, <2>2, <1>1, <1>2
  <2>3. CASE i # n
    <3>1. i \in 1..(n - 1) /\ i + 1 \in 1..n
      BY <2>1, <2>3, <1>1
    <3>2. s[i] = m[i] /\ s[i + 1] = m[i + 1]
      BY <2>1, <3>1, <1>2
    <3> QED BY <3>1, <3>2, <1>1
  <2> QED BY <2>2, <2>3
<1> QED BY <1>2, <1>3, <1>4, <1>5 DEF Sound, Tile, s

(* So it is when its last interval takes the next one in.                  *)
LEMMA LengthenedTile ==
  ASSUME sampled \in Inputs, InputFits,
         NEW L \in Nat, NEW m, Sound(m, L), NEW r \in IntervalType, SparesNeeded(r),
         r.start = L, r.start < r.end, m[Len(m)].action = r.action
  PROVE  Sound(Append(Front(m), [Last(m) EXCEPT !.end = r.end, !.static = @ + r.static]), r.end)
<1> DEFINE n == Len(m)
           y == Last(m)
           x == [y EXCEPT !.end = r.end, !.static = @ + r.static]
           s == Append(Front(m), x)
<1>1. /\ n \in Nat \ {0} /\ m \in Seq(IntervalType) /\ m # <<>>
      /\ m[1].start = 0 /\ m[n].end = L
      /\ \A i \in 1..n : m[i].start < m[i].end /\ m[i] \in IntervalType
      /\ \A i \in 1..(n - 1) : m[i].end = m[i + 1].start
      /\ \A i \in 1..n : SparesNeeded(m[i])
  BY TileParts DEF Sound, Tile
<1>b. y = m[n]
  BY DEF Last
<1>2. x \in IntervalType /\ x.start = y.start /\ x.end = r.end /\ x.action = y.action
  <2>1. y \in IntervalType
    BY <1>1, <1>b
  <2> HIDE DEF y
  <2> QED BY <2>1, Lengthened
<1> HIDE DEF x, y
<1>4. /\ s \in Seq(IntervalType) /\ s # <<>> /\ Len(s) = n
      /\ \A i \in 1..(n - 1) : s[i] = m[i]
      /\ s[n] = x
  BY <1>1, <1>2, LastReplaced
<1> HIDE DEF n, s
<1>5. s[1].start = 0 /\ s[Len(s)].end = r.end
  <2>1. n = 1 => s[1].start = 0
    BY <1>1, <1>2, <1>4, <1>b
  <2>2. n # 1 => s[1].start = 0
    BY <1>1, <1>4
  <2> QED BY <2>1, <2>2, <1>4, <1>2
<1>a. y.action = r.action /\ y.end = L /\ y.start < L /\ y \in IntervalType /\ SparesNeeded(y)
  BY <1>1, <1>b DEF n
<1>6. SparesNeeded(x)
  <2>1. y.start \in Nat /\ y.end \in Nat /\ r.start \in Nat /\ r.end \in Nat
    BY <1>a DEF IntervalType
  <2> SUFFICES ASSUME r.action = "review-trim"
               PROVE  /\ \A t \in y.start..(r.end - 1) : ~Needed(t)
                      /\ r.end - y.start >= Least(config.idleReview, config.readingReview)
    BY <1>2, <1>a DEF SparesNeeded
  <2>2. \A t \in y.start..(L - 1) : ~Needed(t)
    BY <1>a DEF SparesNeeded
  <2>3. \A t \in L..(r.end - 1) : ~Needed(t)
    BY DEF SparesNeeded
  <2>4. r.end - L >= Least(config.idleReview, config.readingReview)
    BY DEF SparesNeeded
  <2>5. \A t \in y.start..(r.end - 1) : t \in y.start..(L - 1) \/ t \in L..(r.end - 1)
    BY <2>1
  <2>6. r.end - y.start >= Least(config.idleReview, config.readingReview)
    <3> DEFINE q == Least(config.idleReview, config.readingReview)
    <3>1. q \in Nat
      BY TimesOfInput DEF Config, Least
    <3> HIDE DEF q
    <3>2. r.end - L >= q
      BY <2>4 DEF q
    <3>3. r.end - y.start >= q
      BY <3>1, <3>2, <2>1, <1>a
    <3> QED BY <3>3 DEF q
  <2> QED BY <2>2, <2>3, <2>5, <2>6
<1>7. \A i \in 1..Len(s) : s[i].start < s[i].end /\ SparesNeeded(s[i])
  <2> TAKE i \in 1..Len(s)
  <2>1. i \in 1..(n - 1) \/ i = n
    BY <1>1, <1>4
  <2>2. i \in 1..(n - 1) => i \in 1..n /\ s[i] = m[i]
    BY <1>4, <1>1
  <2>3. i = n => s[i] = x
    BY <1>4
  <2>4. x.start < x.end
    <3>1. y.start \in Nat /\ r.end \in Nat
      BY <1>a DEF IntervalType
    <3> QED BY <1>2, <1>a, <3>1
  <2> QED BY <2>1, <2>2, <2>3, <2>4, <1>1, <1>6, Zenon
<1>8. \A i \in 1..(Len(s) - 1) : s[i].end = s[i + 1].start
  <2> TAKE i \in 1..(Len(s) - 1)
  <2>1. i \in 1..(n - 1) /\ (i + 1 \in 1..(n - 1) \/ i + 1 = n)
    BY <1>1, <1>4
  <2>2. s[i] = m[i] /\ m[i].end = m[i + 1].start
    BY <2>1, <1>1, <1>4
  <2>3. s[i + 1].start = m[i + 1].start
    <3>1. i + 1 = n => s[i + 1].start = m[i + 1].start
      BY <1>2, <1>4, <1>b
    <3> QED BY <3>1, <2>1, <1>4
  <2> QED BY <2>2, <2>3
<1> QED BY <1>4, <1>5, <1>7, <1>8, Zenon DEF Sound, Tile, s, x, y

(* Merging an interval after the other is well defined.                    *)
LEMMA MergingExists ==
  ASSUME NEW n \in Nat, NEW s, \A i \in 1..n : s[i] \in IntervalType
  PROVE  \E F \in [0..n -> Seq(IntervalType)] :
            F[0] = <<>> /\ \A i \in 1..n : F[i] = Merge(F[i - 1], s[i])
<1>a. PICK A : A = Seq(IntervalType)
  OBVIOUS
<1>b. PICK g : g = [i \in 1..n |-> [m \in A |-> Merge(m, s[i])]]
  OBVIOUS
<1>1. g \in [1..n -> [A -> A]]
  <2>1. \A m \in A, i \in 1..n : Merge(m, s[i]) \in A
    BY <1>a, MergeType
  <2> QED BY <2>1, <1>b
<1>2. \A m \in A, i \in 1..n : g[i][m] = Merge(m, s[i])
  BY <1>b
<1>3. <<>> \in A
  BY <1>a, EmptySeq
<1>4. PICK F \in [0..n -> A] : F[0] = <<>> /\ \A i \in 1..n : F[i] = g[i][F[i - 1]]
  <2>1. \E F : GoesThrough(F, n, A, <<>>, g)
    BY <1>1, <1>3, StepByStep
  <2> QED BY <2>1 DEF GoesThrough
<1>5. \A i \in 1..n : i - 1 \in 0..n
  OBVIOUS
<1>6. \A i \in 1..n : F[i] = Merge(F[i - 1], s[i])
  BY <1>2, <1>4, <1>5
<1> QED BY <1>4, <1>6, <1>a

(* What is merged from intervals that tile the capture tiles it too.       *)
LEMMA MergedSound ==
  ASSUME sampled \in Inputs, InputFits
  PROVE  Sound(Merged(BuildIntervals), sampled.length)
<1> DEFINE s == BuildIntervals
           n == Len(s)
           A == Seq(IntervalType)
           upTo == CHOOSE F : F = [i \in 0..n |-> IF i = 0 THEN <<>> ELSE Merge(F[i - 1], s[i])]
<1>1. Tile(s, sampled.length) /\ \A i \in 1..n : SparesNeeded(s[i])
  BY BuiltSound
<1>2. Merged(s) = upTo[n]
  BY DEF Merged
<1> HIDE DEF s
<1>3. n \in Nat \ {0} /\ \A i \in 1..n : s[i] \in IntervalType
  BY <1>1, TileParts
<1> HIDE DEF n
<1>7. PICK F \in [0..n -> A] : F[0] = <<>> /\ \A i \in 1..n : F[i] = Merge(F[i - 1], s[i])
  BY <1>3, MergingExists
<1>8. F = [i \in 0..n |-> IF i = 0 THEN <<>> ELSE Merge(F[i - 1], s[i])]
  <2>3. \A i \in 0..n : F[i] = IF i = 0 THEN <<>> ELSE Merge(F[i - 1], s[i])
    BY <1>7, <1>3
  <2> QED BY <2>3, <1>7
<1>9. upTo = [i \in 0..n |-> IF i = 0 THEN <<>> ELSE Merge(upTo[i - 1], s[i])]
  BY <1>8
<1> HIDE DEF upTo
<1>10. upTo[0] = <<>> /\ \A i \in 1..n : upTo[i] = Merge(upTo[i - 1], s[i])
  BY <1>9, <1>3
<1> DEFINE P == {i \in 0..n : i # 0 => Sound(upTo[i], s[i].end)}
<1>11. 1 \in P
  <2>1. upTo[1] = Merge(<<>>, s[1])
    BY <1>10, <1>3
  <2>2. Merge(<<>>, s[1]) = Append(<<>>, s[1])
    BY DEF Merge
  <2>3. s[1].start = 0 /\ s[1].start < s[1].end /\ s[1] \in IntervalType /\ SparesNeeded(s[1])
    BY <1>1, <1>3 DEF Tile, n
  <2>4. Sound(Append(<<>>, s[1]), s[1].end)
    <3> DEFINE x == s[1]
    <3>1. x.start = 0 /\ x.start < x.end /\ x \in IntervalType /\ SparesNeeded(x)
      BY <2>3
    <3> HIDE DEF x
    <3>2. Append(<<>>, x) = <<x>>
      OBVIOUS
    <3>3. <<x>> \in Seq(IntervalType) /\ <<x>> # <<>> /\ Len(<<x>>) = 1 /\ <<x>>[1] = x
      BY <3>1
    <3>4. Sound(<<x>>, x.end)
      BY <3>1, <3>3 DEF Sound, Tile
    <3> QED BY <3>2, <3>4 DEF x
  <2> QED BY <2>1, <2>2, <2>4, <1>3
<1>12. ASSUME NEW i \in 1..n, i - 1 \in P PROVE i \in P
  <2>1. CASE i = 1
    BY <2>1, <1>11
  <2>2. CASE i # 1
    <3> DEFINE m == upTo[i - 1]
               r == s[i]
               L == s[i - 1].end
    <3>1. i - 1 \in 1..n /\ i - 1 \in 1..(n - 1) /\ i - 1 \in 0..n /\ (i - 1) + 1 = i
      BY <2>2, <1>3
    <3>2. Sound(m, L)
      BY <1>12, <3>1
    <3>3. r.start = L /\ r.start < r.end /\ r \in IntervalType /\ SparesNeeded(r) /\ L \in Nat
      <4>1. s[i - 1].end = s[(i - 1) + 1].start
        BY <3>1, <1>1 DEF Tile, n
      <4>2. s[i - 1] \in IntervalType
        BY <3>1, <1>3
      <4>3. s[i].start < s[i].end
        BY <1>1 DEF Tile, n
      <4> QED BY <4>1, <4>2, <4>3, <3>1, <1>1, <1>3 DEF IntervalType
    <3>4. upTo[i] = Merge(m, r)
      BY <1>10
    <3>a. m # <<>>
      BY <3>2 DEF Sound, Tile
    <3> HIDE DEF m, r, L, P
    <3>5. Sound(Merge(m, r), r.end)
      <4>1. CASE Compatible(Last(m), r)
        <5>1. m[Len(m)].action = r.action
          BY <4>1 DEF Compatible, Last
        <5>2. Sound(Append(Front(m), [Last(m) EXCEPT !.end = r.end, !.static = @ + r.static]), r.end)
          BY <5>1, <3>2, <3>3, LengthenedTile
        <5> QED BY <5>2, <4>1, <3>a, Zenon DEF Merge
      <4>2. CASE ~Compatible(Last(m), r)
        <5>1. Sound(Append(m, r), r.end)
          BY <3>2, <3>3, AppendedTile
        <5> QED BY <5>1, <4>2, Zenon DEF Merge
      <4> QED BY <4>1, <4>2
    <3>6. Sound(upTo[i], s[i].end)
      BY <3>4, <3>5, Zenon DEF r
    <3> QED BY <3>6, <1>3 DEF P
  <2> QED BY <2>1, <2>2
<1>13. 0 \in P
  BY <1>3
<1> HIDE DEF P
<1>14. \A i \in 0..n : i \in P
  BY <1>12, <1>13, <1>3, HandedOn
<1>15. Sound(upTo[n], s[n].end)
  <2>1. n \in 0..n /\ n # 0
    BY <1>3
  <2> QED BY <1>14, <2>1 DEF P
<1>16. s[n].end = sampled.length
  BY <1>1 DEF Tile, n
<1> QED BY <1>2, <1>15, <1>16 DEF s

(* TrimsSpareTheActive also needs that the capture is one of the inputs.   *)
ActivityInvariant == sampled \in Inputs /\ TrimsSpareTheActive

(* TrimsSpareTheActive: whatever samples a capture has and however the     *)
(* limits are set, the intervals leave no moment of it out and none in     *)
(* two, and nothing that mergeCompatibleIntervals proposes for a trim      *)
(* holds a moment a viewer needs (src/src/analysis/dead-time.ts).          *)
THEOREM NothingNeededIsTrimmed == ActivitySpec => []TrimsSpareTheActive
<1>1. ActivityInit => ActivityInvariant
  BY DEF ActivityInit, ActivityInvariant, TrimsSpareTheActive
<1>2. ActivityInvariant /\ [ActivityNext]_activityVars => ActivityInvariant'
  <2> SUFFICES ASSUME ActivityInvariant, [ActivityNext]_activityVars
               PROVE  ActivityInvariant'
    OBVIOUS
  <2>0. sampled' = sampled /\ sampled \in Inputs
    BY DEF ActivityInvariant, ActivityNext, Analyze, activityVars
  <2>1. OpeningEnd' = OpeningEnd /\ EndingStart' = EndingStart /\ config' = config
    BY <2>0 DEF OpeningEnd, EndingStart, config
  <2>2. \A t : Needed(t)' = Needed(t)
    <3>1. ActionSet' = ActionSet /\ \A a : Context(a)' = Context(a) /\ Discrete(a)' = Discrete(a)
      BY <2>0, <2>1 DEF ActionSet, Context, Discrete
    <3>2. \A t : Bracketed(t)' = Bracketed(t) /\ ChangeFrom(t)' = ChangeFrom(t)
      BY <2>0 DEF Bracketed, ChangeFrom, Before
    <3> QED BY <2>1, <3>1, <3>2 DEF Needed
  <2>3. CASE activity' = activity
    BY <2>0, <2>1, <2>2, <2>3 DEF ActivityInvariant, TrimsSpareTheActive
  <2>4. CASE Analyze /\ InputFits
    <3> DEFINE found == Merged(BuildIntervals)
               L == sampled.length
    <3>1. activity' = [state |-> "analysed", intervals |-> found]
      BY <2>4 DEF Analyze
    <3>2. Sound(found, L) /\ L \in Nat
      BY <2>0, <2>4, MergedSound, TimesOfInput
    <3> HIDE DEF found, L
    <3>3. \A t \in 0..(L - 1) :
             Cardinality({i \in DOMAIN found : found[i].start <= t /\ t < found[i].end}) = 1
      BY <3>2, TilesCoverOnce DEF Sound
    <3>4. \A i \in DOMAIN found : SparesNeeded(found[i])
      BY <3>2, TileParts DEF Sound
    <3>5. activity'.intervals = found /\ L = sampled'.length
      BY <3>1, <2>0 DEF L
    <3>6. TrimsSpareTheActive'
      BY <3>3, <3>4, <3>5, <2>1, <2>2 DEF TrimsSpareTheActive, SparesNeeded
    <3> QED BY <3>6, <2>0 DEF ActivityInvariant
  <2>5. CASE Analyze /\ ~InputFits
    BY <2>0, <2>5 DEF Analyze, ActivityInvariant, TrimsSpareTheActive
  <2> QED BY <2>3, <2>4, <2>5 DEF ActivityNext, activityVars
<1>3. ActivityInvariant => TrimsSpareTheActive
  BY DEF ActivityInvariant
<1> QED BY <1>1, <1>2, <1>3, PTL DEF ActivitySpec

-----------------------------------------------------------------------------
(* 3. Editorial proposals.  The candidates, in their order, are joined to  *)
(* suggestions that lie apart; what is stored stays a valid project.       *)

Suggestion == [clip : Nat, source : Nat, start : Nat, end : Nat, events : SUBSET Nat]

EventsTyped(events) == IsFiniteSet(events) /\ \A e \in events : e.id \in Nat /\ e.at \in Nat

(* A suggestion that could be taken: it lies in a clip and clear of every  *)
(* zoom the project has.                                                   *)
Suits(project, z) ==
  /\ z \in Suggestion /\ z.start < z.end
  /\ \E c \in Clips(project) :
       c.id = z.clip /\ c.source = z.source /\ c.start <= z.start /\ z.end <= c.end
  /\ \A y \in project.zooms : y.clip = z.clip => ~Overlaps(y, z)

(* What a valid project says of its clips and zooms.                       *)
LEMMA ClipFacts ==
  ASSUME NEW project, ProjectFits(project)
  PROVE  /\ IsFiniteSet(Clips(project))
         /\ \A c \in Clips(project) :
              /\ c \in Clip /\ c.start < c.end
              /\ c.end <= project.sources[c.source] /\ c.source \in DOMAIN project.sources
         /\ \A c, d \in Clips(project) : c.id = d.id => c = d
         /\ \A y \in project.zooms : y \in Zoom /\ y.start < y.end
<1>1. project.clips \in Seq(Clip) /\ project.zooms \subseteq Zoom
  BY DEF ProjectFits, Project
<1> DEFINE n == Len(project.clips)
           C == Clips(project)
<1>2. n \in Nat /\ DOMAIN project.clips = 1..n /\ \A i \in 1..n : project.clips[i] \in Clip
  BY <1>1, LenProperties, ElementOfSeq
<1>3. C \subseteq Clip
  BY <1>2 DEF Clips
<1>4. IsFiniteSet(C)
  <2> DEFINE f == [i \in 1..n |-> project.clips[i]]
  <2>1. f \in Surjection(1..n, C)
    BY <1>2 DEF Surjection, Clips
  <2>2. IsFiniteSet(1..n)
    BY <1>2, FS_Interval
  <2> HIDE DEF f, n, C
  <2> QED BY <2>1, <2>2, FS_Surjection
<1>5. \A c \in C : c.start < c.end /\ c.end <= project.sources[c.source] /\ c.source \in DOMAIN project.sources
  BY DEF ProjectFits
<1>6. \A c, d \in C : c.id = d.id => c = d
  BY DEF Clips, ProjectFits
<1>7. \A y \in project.zooms : y.start < y.end
  BY DEF ProjectFits, ZoomsInside
<1> QED BY <1>1, <1>3, <1>4, <1>5, <1>6, <1>7

(* A window does not leave its clip.                                       *)
LEMMA WindowFacts ==
  ASSUME NEW c \in Clip, NEW e, e.at \in Nat
  PROVE  LET w == Window(c, e) IN
         w.start \in Nat /\ w.end \in Int /\ c.start <= w.start /\ w.end <= c.end
<1> DEFINE s == c.start
           f == c.end
           t == e.at
<1>1. s \in Nat /\ f \in Nat /\ t \in Nat
  BY DEF Clip
<1> HIDE DEF s, f, t
<1>2. /\ Maximum(s, t - Lead) \in Nat /\ s <= Maximum(s, t - Lead)
      /\ Minimum(f, t + Trail) \in Int /\ Minimum(f, t + Trail) <= f
  BY <1>1 DEF Maximum, Minimum, Lead, Trail
<1> QED BY <1>2 DEF Window, s, f, t

(* What a candidate is made from.                                          *)
LEMMA CandidatesSuit ==
  ASSUME NEW project, ProjectFits(project), NEW events, EventsTyped(events)
  PROVE  \A z \in Candidates(project, events) :
            /\ Suits(project, z)
            /\ \E c \in Clips(project), e \in events : z = CandidateOf(c, e)
<1> SUFFICES ASSUME NEW c \in Clips(project), NEW e \in events, Suggests(project, c, e)
             PROVE  Suits(project, CandidateOf(c, e))
  BY DEF Candidates
<1> DEFINE w == Window(c, e)
           a == w.start
           b == w.end
           z == CandidateOf(c, e)
<1>1. c \in Clip /\ e.at \in Nat /\ e.id \in Nat
  BY ClipFacts DEF EventsTyped
<1>2. a \in Nat /\ b \in Int /\ c.start <= a /\ b <= c.end
  BY <1>1, WindowFacts
<1>3. b - a >= 250000
  BY DEF Suggests, ShortestZoom
<1>4. z = [clip |-> c.id, source |-> c.source, start |-> a, end |-> b, events |-> {e.id}]
  BY DEF CandidateOf
<1>a. \A y \in project.zooms : y.clip = c.id => ~(y.start < b /\ a < y.end)
  BY DEF Suggests, Occupied, Overlaps
<1> HIDE DEF a, b, w, z
<1>5. a < b /\ b \in Nat
  BY <1>2, <1>3
<1>6. c.id \in Nat /\ c.source \in Nat
  BY <1>1 DEF Clip
<1>7. z \in Suggestion
  <2>1. {e.id} \in SUBSET Nat
    BY <1>1
  <2> QED BY <1>2, <1>4, <1>5, <1>6, <2>1, Zenon DEF Suggestion
<1>8. z.clip = c.id /\ z.source = c.source /\ z.start = a /\ z.end = b
  BY <1>4
<1>9. \A y \in project.zooms : y.clip = z.clip => ~Overlaps(y, z)
  BY <1>a, <1>8 DEF Overlaps
<1>10. Suits(project, z)
  BY <1>2, <1>5, <1>7, <1>8, <1>9 DEF Suits
<1> QED BY <1>10 DEF z

(* There are finitely many.                                                *)
LEMMA CandidatesFinite ==
  ASSUME NEW project, ProjectFits(project), NEW events, EventsTyped(events)
  PROVE  IsFiniteSet(Candidates(project, events))
<1> DEFINE C == Clips(project)
           P == C \X events
           f == [p \in P |-> CandidateOf(p[1], p[2])]
           D == {f[p] : p \in P}
<1>1. IsFiniteSet(P)
  BY ClipFacts, FS_Product DEF EventsTyped
<1>2. Candidates(project, events) \in SUBSET D
  <2>1. \A c \in C, e \in events : CandidateOf(c, e) \in D
    <3> TAKE c \in C, e \in events
    <3>1. <<c, e>> \in P /\ f[<<c, e>>] = CandidateOf(c, e)
      OBVIOUS
    <3> HIDE DEF f, P
    <3> QED BY <3>1
  <2> QED BY <2>1 DEF Candidates
<1>3. f \in Surjection(P, D)
  <2> HIDE DEF P
  <2> QED BY DEF Surjection
<1> HIDE DEF P, f, D
<1>4. IsFiniteSet(D)
  BY <1>1, <1>3, FS_Surjection
<1> QED BY <1>2, <1>4, FS_Subset

(* The order of the candidates is total, for clips and events have ids of  *)
(* their own.                                                              *)
LEMMA CandidatesOrdered ==
  ASSUME NEW project, ProjectFits(project), NEW events, EventsTyped(events),
         EventsFit(project, events),
         NEW S, S = Candidates(project, events),
         NEW R, \A x, y \in S : <<x, y>> \in R <=> CandidateBefore(x, y)
  PROVE  StrictOrder(S, R)
<1> DEFINE Id(z) == CHOOSE i \in Nat : z.events = {i}
<1>1. \A z \in S : z.clip \in Nat /\ z.start \in Nat
  BY CandidatesSuit DEF Suits, Suggestion
<1>2. \A z \in S : Id(z) \in Nat /\ z.events = {Id(z)}
  <2> TAKE z \in S
  <2>1. PICK c \in Clips(project), e \in events : z = CandidateOf(c, e)
    BY CandidatesSuit
  <2>2. e.id \in Nat /\ z.events = {e.id}
    BY <2>1 DEF CandidateOf, EventsTyped
  <2> QED BY <2>2
<1> HIDE DEF Id
<1>3. \A x, y \in S : CandidateBefore(x, y) <=>
          \/ x.clip < y.clip
          \/ x.clip = y.clip /\ x.start < y.start
          \/ x.clip = y.clip /\ x.start = y.start /\ Id(x) < Id(y)
  <2> TAKE x, y \in S
  <2>1. (\E i \in x.events : \A j \in y.events : i < j) <=> Id(x) < Id(y)
    BY <1>2
  <2> QED BY <2>1 DEF CandidateBefore
<1>4. ASSUME NEW x \in S, NEW y \in S, x.clip = y.clip, x.start = y.start, Id(x) = Id(y)
      PROVE  x = y
  <2>1. PICK c \in Clips(project), e \in events : x = CandidateOf(c, e)
    BY CandidatesSuit
  <2>2. PICK d \in Clips(project), f \in events : y = CandidateOf(d, f)
    BY CandidatesSuit
  <2>3. c.id = x.clip /\ d.id = y.clip /\ x.events = {e.id} /\ y.events = {f.id}
    BY <2>1, <2>2 DEF CandidateOf
  <2>4. c = d
    BY <2>3, <1>4, ClipFacts
  <2>5. e.id = f.id
    BY <2>3, <1>4, <1>2
  <2>6. e = f
    BY <2>5 DEF EventsFit
  <2> QED BY <2>1, <2>2, <2>4, <2>6
<1>5. \A x \in S : <<x, x>> \notin R
  BY <1>1, <1>2, <1>3
<1>6. \A x, y, z \in S : <<x, y>> \in R /\ <<y, z>> \in R => <<x, z>> \in R
  BY <1>1, <1>2, <1>3
<1>7. \A x, y \in S : x # y => <<x, y>> \in R \/ <<y, x>> \in R
  <2> TAKE x, y \in S
  <2> HAVE x # y
  <2>1. x.clip # y.clip \/ x.start # y.start \/ Id(x) # Id(y)
    BY <1>4
  <2>2. CandidateBefore(x, y) \/ CandidateBefore(y, x)
    BY <2>1, <1>1, <1>2, <1>3
  <2> QED BY <2>2
<1> QED BY <1>5, <1>6, <1>7 DEF StrictOrder

(* Sorted takes every candidate in its turn.                               *)
LEMMA SortedInOrder ==
  ASSUME NEW project, ProjectFits(project), NEW events, EventsTyped(events),
         EventsFit(project, events)
  PROVE  LET S == Candidates(project, events)
             q == Sorted(S)
         IN  /\ q \in Seq(S) /\ Len(q) \in Nat
             /\ \A i \in 2..Len(q) : \/ q[i - 1].clip < q[i].clip
                                     \/ q[i - 1].clip = q[i].clip /\ q[i - 1].start <= q[i].start
<1> DEFINE S == Candidates(project, events)
           R == {z \in S \X S : CandidateBefore(z[1], z[2])}
           n == Cardinality(S)
           q == Sorted(S)
<1>1. IsFiniteSet(S)
  BY CandidatesFinite
<1>2. \A z \in S : z.clip \in Nat /\ z.start \in Nat
  BY CandidatesSuit DEF Suits, Suggestion
<1>3. StrictOrder(S, R)
  <2>1. \A x, y \in S : <<x, y>> \in R <=> CandidateBefore(x, y)
    OBVIOUS
  <2> HIDE DEF R, S
  <2> QED BY <2>1, CandidatesOrdered DEF S
<1>4. q = [i \in 1..n |-> CHOOSE c \in S : Cardinality({b \in S : CandidateBefore(b, c)}) = i - 1]
  BY DEF Sorted
<1>5. \A c \in S : Rank(S, R, c) = Cardinality({b \in S : CandidateBefore(b, c)})
  <2> TAKE c \in S
  <2>1. Below(S, R, c) = {b \in S : CandidateBefore(b, c)}
    BY DEF Below
  <2> QED BY <2>1 DEF Rank
<1>6. \A x, y \in S : <<x, y>> \in R => CandidateBefore(x, y)
  OBVIOUS
<1> HIDE DEF S, R, n, q
<1>7. n \in Nat /\ \A x, y \in S : <<x, y>> \in R <=> Rank(S, R, x) < Rank(S, R, y)
  BY <1>1, <1>3, RanksGrow DEF n
<1>8. ASSUME NEW i \in 1..n PROVE q[i] \in S /\ Rank(S, R, q[i]) = i - 1
  <2>0. i - 1 \in 0..(n - 1)
    BY <1>7
  <2>1. \E x \in S : Rank(S, R, x) = i - 1
    BY <1>1, <1>3, <2>0, EveryRankTaken DEF n
  <2>2. \E c \in S : Cardinality({b \in S : CandidateBefore(b, c)}) = i - 1
    BY <2>1, <1>5
  <2>3. q[i] \in S /\ Cardinality({b \in S : CandidateBefore(b, q[i])}) = i - 1
    BY <2>2, <1>4
  <2> QED BY <2>3, <1>5
<1>9. q = [i \in 1..n |-> q[i]]
  <2> DEFINE v(i) == CHOOSE c \in S : Cardinality({b \in S : CandidateBefore(b, c)}) = i - 1
  <2>1. q = [i \in 1..n |-> v(i)]
    BY <1>4
  <2> HIDE DEF v
  <2> QED BY <2>1
<1>10. q \in Seq(S) /\ Len(q) = n
  BY <1>7, <1>8, <1>9, IsASeqOf
<1>11. ASSUME NEW i \in 2..n
       PROVE  \/ q[i - 1].clip < q[i].clip
              \/ q[i - 1].clip = q[i].clip /\ q[i - 1].start <= q[i].start
  <2>1. i - 1 \in 1..n /\ i \in 1..n /\ (i - 1) - 1 < i - 1
    BY <1>7
  <2>2. CandidateBefore(q[i - 1], q[i])
    <3> DEFINE x == q[i - 1]
               y == q[i]
    <3>1. x \in S /\ y \in S /\ Rank(S, R, x) = (i - 1) - 1 /\ Rank(S, R, y) = i - 1
      BY <2>1, <1>8
    <3> HIDE DEF x, y
    <3>2. <<x, y>> \in R
      BY <3>1, <2>1, <1>7
    <3> QED BY <3>1, <3>2, <1>6 DEF x, y
  <2>3. q[i - 1].start \in Nat /\ q[i].start \in Nat
    BY <2>1, <1>8, <1>2
  <2> QED BY <2>2, <2>3 DEF CandidateBefore
<1> QED BY <1>7, <1>10, <1>11 DEF S, q

(* Suggestions one after another, each before the next of its clip.        *)
OneAfterAnother(s) ==
  \A i, j \in 1..Len(s) : i < j =>
     s[i].clip < s[j].clip \/ (s[i].clip = s[j].clip /\ s[i].end < s[j].start)

(* What the candidates up to z have become.                                *)
Grown(project, s, z) ==
  /\ s \in Seq(Suggestion) /\ s # <<>>
  /\ \A i \in 1..Len(s) : Suits(project, s[i])
  /\ OneAfterAnother(s)
  /\ s[Len(s)].clip = z.clip /\ s[Len(s)].start <= z.start

(* Joining keeps the clip and the start of the first.                      *)
LEMMA JoinedType ==
  ASSUME NEW y \in Suggestion, NEW w \in Suggestion
  PROVE  LET x == Joined(y, w) IN
         /\ x \in Suggestion /\ x.clip = y.clip /\ x.source = y.source /\ x.start = y.start
         /\ x.end = Maximum(y.end, w.end)
<1> DEFINE m == Maximum(y.end, w.end)
           v == y.events \cup w.events
           x == [y EXCEPT !.end = m, !.events = v]
<1>1. m \in Nat /\ v \in SUBSET Nat
  BY DEF Suggestion, Maximum
<1>2. x.clip = y.clip /\ x.source = y.source /\ x.start = y.start /\ x.end = m
  BY DEF Suggestion
<1> HIDE DEF m, v
<1>3. x \in Suggestion
  BY <1>1, Zenon DEF Suggestion
<1> QED BY <1>2, <1>3 DEF Joined, m, v

(* Coalescing lists suggestions.                                           *)
LEMMA CoalesceType ==
  ASSUME NEW m \in Seq(Suggestion), NEW w \in Suggestion
  PROVE  Coalesce(m, w) \in Seq(Suggestion)
<1>1. CASE m # <<>> /\ Last(m).clip = w.clip /\ OverlapsOrTouches(Last(m), w)
  <2> DEFINE x == Joined(Last(m), w)
  <2>1. Last(m) \in Suggestion
    BY <1>1, EmptySeq, ElementOfSeq DEF Last
  <2>2. x \in Suggestion
    BY <2>1, JoinedType
  <2>3. Coalesce(m, w) = Append(Front(m), x)
    BY <1>1 DEF Coalesce
  <2> HIDE DEF x
  <2> QED BY <1>1, <2>2, <2>3, LastReplaced
<1>2. CASE ~(m # <<>> /\ Last(m).clip = w.clip /\ OverlapsOrTouches(Last(m), w))
  BY <1>2, AppendProperties DEF Coalesce
<1> QED BY <1>1, <1>2

(* Windows that meet are clear of every zoom that both were clear of.      *)
LEMMA JoinedSuits ==
  ASSUME NEW project, ProjectFits(project), NEW y, Suits(project, y), NEW w, Suits(project, w),
         y.clip = w.clip, y.start <= w.start, OverlapsOrTouches(y, w)
  PROVE  Suits(project, Joined(y, w))
<1> DEFINE x == Joined(y, w)
           a == y.start
           b == y.end
           c == w.start
           d == w.end
<1>1. y \in Suggestion /\ w \in Suggestion
  BY DEF Suits
<1>2. /\ a \in Nat /\ b \in Nat /\ c \in Nat /\ d \in Nat
      /\ a < b /\ c < d /\ a <= c /\ c <= b
  BY <1>1 DEF Suits, Suggestion, OverlapsOrTouches
<1>3. /\ x \in Suggestion /\ x.clip = y.clip /\ x.source = y.source /\ x.start = a
      /\ x.end = Maximum(b, d)
  BY <1>1, JoinedType
<1>4. PICK k \in Clips(project) : k.id = y.clip /\ k.source = y.source /\ k.start <= a /\ b <= k.end
  BY DEF Suits
<1>5. PICK l \in Clips(project) : l.id = w.clip /\ d <= l.end
  BY DEF Suits
<1>6. k = l
  BY <1>4, <1>5, ClipFacts
<1>7. \A z \in project.zooms : z.clip = y.clip => ~Overlaps(z, y) /\ ~Overlaps(z, w)
  BY DEF Suits
<1>8. ASSUME NEW z \in project.zooms, z.clip = y.clip PROVE ~Overlaps(z, x)
  <2>1. z.start \in Nat /\ z.end \in Nat /\ z.start < z.end
    BY ClipFacts DEF Zoom
  <2>2. ~(z.start < b /\ a < z.end) /\ ~(z.start < d /\ c < z.end)
    BY <1>7, <1>8 DEF Overlaps
  <2> HIDE DEF a, b, c, d, x
  <2>3. ~(z.start < Maximum(b, d) /\ a < z.end)
    BY <2>1, <2>2, <1>2 DEF Maximum
  <2> QED BY <2>3, <1>3 DEF Overlaps
<1>9. x.start < x.end /\ x.end <= k.end
  <2> HIDE DEF a, b, c, d, x
  <2>1. a < Maximum(b, d) /\ (b <= k.end /\ d <= k.end => Maximum(b, d) <= k.end)
    BY <1>2 DEF Maximum
  <2>2. b <= k.end /\ d <= k.end
    BY <1>4, <1>5, <1>6
  <2> QED BY <2>1, <2>2, <1>3
<1> HIDE DEF x
<1>10. Suits(project, x)
  BY <1>3, <1>4, <1>8, <1>9 DEF Suits
<1> QED BY <1>10 DEF x

(* One more candidate in its turn leaves the list in order.                *)
LEMMA CoalesceGrows ==
  ASSUME NEW project, ProjectFits(project), NEW s, NEW z, Grown(project, s, z),
         NEW w, Suits(project, w), z.start \in Nat, z.clip \in Nat,
         z.clip < w.clip \/ (z.clip = w.clip /\ z.start <= w.start)
  PROVE  Grown(project, Coalesce(s, w), w)
<1> DEFINE n == Len(s)
           y == Last(s)
<1>1. n \in Nat \ {0} /\ s \in Seq(Suggestion) /\ s # <<>> /\ \A i \in 1..n : Suits(project, s[i])
  BY EmptySeq DEF Grown
<1>2. y = s[n] /\ Suits(project, y) /\ y.clip = z.clip /\ y.start <= z.start
  BY <1>1 DEF Grown, Last
<1>3. w \in Suggestion /\ w.start \in Nat /\ w.end \in Nat /\ w.clip \in Nat /\ w.start < w.end
  BY DEF Suits, Suggestion
<1>4. \A i \in 1..n : s[i].start \in Nat /\ s[i].end \in Nat /\ s[i].clip \in Nat /\ s[i].start < s[i].end
  BY <1>1 DEF Suits, Suggestion
<1>5. \A i, j \in 1..n : i < j =>
         s[i].clip < s[j].clip \/ (s[i].clip = s[j].clip /\ s[i].end < s[j].start)
  BY DEF Grown, OneAfterAnother
<1>6. n \in 1..n
  BY <1>1
<1> HIDE DEF n, y
<1>7. CASE y.clip = w.clip /\ OverlapsOrTouches(y, w)
  <2> DEFINE x == Joined(y, w)
             t == Append(Front(s), x)
  <2>1. Coalesce(s, w) = t
    BY <1>1, <1>7 DEF Coalesce, y
  <2>2. y.start <= w.start
    BY <1>2, <1>3, <1>4, <1>6, <1>7
  <2>3. Suits(project, x)
    BY <1>2, <1>7, <2>2, JoinedSuits
  <2>4. x.clip = y.clip /\ x.start = y.start /\ x \in Suggestion
    BY <1>2, <1>3, JoinedType DEF Suits
  <2> HIDE DEF x
  <2>5. /\ t \in Seq(Suggestion) /\ t # <<>> /\ Len(t) = n /\ t[n] = x
        /\ \A i \in 1..(n - 1) : t[i] = s[i]
    BY <1>1, <2>4, LastReplaced DEF n
  <2> HIDE DEF t
  <2>6. \A i \in 1..n : Suits(project, t[i])
    <3> TAKE i \in 1..n
    <3>1. i \in 1..(n - 1) \/ i = n
      BY <1>1
    <3> QED BY <3>1, <2>3, <2>5, <1>1
  <2>7. \A i, j \in 1..n : i < j =>
           t[i].clip < t[j].clip \/ (t[i].clip = t[j].clip /\ t[i].end < t[j].start)
    <3> TAKE i, j \in 1..n
    <3> HAVE i < j
    <3>1. i \in 1..(n - 1) /\ t[i] = s[i]
      BY <1>1, <2>5
    <3>2. t[j].clip = s[j].clip /\ t[j].start = s[j].start
      <4>1. j \in 1..(n - 1) \/ j = n
        BY <1>1
      <4> QED BY <4>1, <2>4, <2>5, <1>2
    <3> QED BY <3>1, <3>2, <1>5
  <2>8. t[n].clip = w.clip /\ t[n].start <= w.start
    BY <2>2, <2>4, <2>5, <1>7
  <2> QED BY <2>1, <2>5, <2>6, <2>7, <2>8 DEF Grown, OneAfterAnother
<1>8. CASE ~(y.clip = w.clip /\ OverlapsOrTouches(y, w))
  <2> DEFINE t == Append(s, w)
  <2>1. Coalesce(s, w) = t
    BY <1>1, <1>8 DEF Coalesce, y
  <2>2. /\ t \in Seq(Suggestion) /\ t # <<>> /\ Len(t) = n + 1 /\ t[n + 1] = w
        /\ \A i \in 1..n : t[i] = s[i]
    BY <1>1, <1>3, AppendProperties DEF n
  <2> HIDE DEF t
  <2>3. y.clip < w.clip \/ (y.clip = w.clip /\ y.end < w.start)
    <3>1. CASE y.clip = w.clip
      <4>1. y.start <= z.start /\ z.start <= w.start
        BY <3>1, <1>2, <1>3
      <4>2. ~(y.start <= w.end /\ w.start <= y.end)
        BY <3>1, <1>8 DEF OverlapsOrTouches
      <4> QED BY <3>1, <4>1, <4>2, <1>2, <1>3, <1>4, <1>6
    <3>2. CASE y.clip # w.clip
      BY <3>2, <1>2
    <3> QED BY <3>1, <3>2
  <2>4. \A i \in 1..(n + 1) : Suits(project, t[i])
    <3> TAKE i \in 1..(n + 1)
    <3>1. i \in 1..n \/ i = n + 1
      BY <1>1
    <3> QED BY <3>1, <2>2, <1>1
  <2>5. \A i \in 1..n : s[i].clip < w.clip \/ (s[i].clip = w.clip /\ s[i].end < w.start)
    <3> TAKE i \in 1..n
    <3>1. CASE i = n
      BY <3>1, <2>3, <1>2
    <3>2. CASE i # n
      <4>1. s[i].clip < y.clip \/ (s[i].clip = y.clip /\ s[i].end < y.start)
        BY <3>2, <1>1, <1>2, <1>5, <1>6
      <4>2. y.start \in Nat /\ y.end \in Nat /\ y.clip \in Nat /\ y.start < y.end
        BY <1>2, <1>4, <1>6
      <4>3. s[i].start \in Nat /\ s[i].end \in Nat /\ s[i].clip \in Nat
        BY <1>4
      <4> QED BY <4>1, <4>2, <4>3, <2>3, <1>3
    <3> QED BY <3>1, <3>2
  <2>6. \A i, j \in 1..(n + 1) : i < j =>
           t[i].clip < t[j].clip \/ (t[i].clip = t[j].clip /\ t[i].end < t[j].start)
    <3> TAKE i, j \in 1..(n + 1)
    <3> HAVE i < j
    <3>1. i \in 1..n /\ t[i] = s[i]
      BY <1>1, <2>2
    <3>2. CASE j = n + 1
      BY <3>1, <3>2, <2>2, <2>5
    <3>3. CASE j # n + 1
      <4>1. j \in 1..n /\ t[j] = s[j]
        BY <3>3, <1>1, <2>2
      <4> QED BY <3>1, <4>1, <1>5
    <3> QED BY <3>2, <3>3
  <2>7. t[n + 1].clip = w.clip /\ t[n + 1].start <= w.start
    BY <2>2, <1>3
  <2> QED BY <2>1, <2>2, <2>4, <2>6, <2>7 DEF Grown, OneAfterAnother
<1> QED BY <1>7, <1>8

(* Taking one window after the other is well defined.                      *)
LEMMA CoalescingExists ==
  ASSUME NEW n \in Nat, NEW s, \A i \in 1..n : s[i] \in Suggestion
  PROVE  \E F \in [0..n -> Seq(Suggestion)] :
            F[0] = <<>> /\ \A i \in 1..n : F[i] = Coalesce(F[i - 1], s[i])
<1>a. PICK A : A = Seq(Suggestion)
  OBVIOUS
<1>b. PICK g : g = [i \in 1..n |-> [m \in A |-> Coalesce(m, s[i])]]
  OBVIOUS
<1>1. g \in [1..n -> [A -> A]]
  <2>1. \A m \in A, i \in 1..n : Coalesce(m, s[i]) \in A
    BY <1>a, CoalesceType
  <2> QED BY <2>1, <1>b
<1>2. \A m \in A, i \in 1..n : g[i][m] = Coalesce(m, s[i])
  BY <1>b
<1>3. <<>> \in A
  BY <1>a, EmptySeq
<1>4. PICK F \in [0..n -> A] : F[0] = <<>> /\ \A i \in 1..n : F[i] = g[i][F[i - 1]]
  <2>1. \E F : GoesThrough(F, n, A, <<>>, g)
    BY <1>1, <1>3, StepByStep
  <2> QED BY <2>1 DEF GoesThrough
<1>5. \A i \in 1..n : i - 1 \in 0..n
  OBVIOUS
<1>6. \A i \in 1..n : F[i] = Coalesce(F[i - 1], s[i])
  BY <1>2, <1>4, <1>5
<1> QED BY <1>4, <1>6, <1>a

(* Suggestions that can be taken, in order and clear of each other.        *)
Takeable(project, s) ==
  /\ s \in Seq(Suggestion)
  /\ \A i \in 1..Len(s) : Suits(project, s[i])
  /\ OneAfterAnother(s)

(* What the candidates in their order become can be taken.                 *)
LEMMA CoalescedSuits ==
  ASSUME NEW project, ProjectFits(project), NEW q, q \in Seq(Suggestion),
         \A i \in 1..Len(q) : Suits(project, q[i]),
         \A i \in 2..Len(q) : \/ q[i - 1].clip < q[i].clip
                              \/ q[i - 1].clip = q[i].clip /\ q[i - 1].start <= q[i].start
  PROVE  Takeable(project, Coalesced(q))
<1> DEFINE n == Len(q)
           upTo == CHOOSE F : F = [i \in 0..n |-> IF i = 0 THEN <<>> ELSE Coalesce(F[i - 1], q[i])]
<1>1. Coalesced(q) = upTo[n]
  BY DEF Coalesced
<1>2. n \in Nat /\ \A i \in 1..n : q[i] \in Suggestion /\ Suits(project, q[i])
  BY DEF Suits
<1>3. \A i \in 2..n : \/ q[i - 1].clip < q[i].clip
                      \/ q[i - 1].clip = q[i].clip /\ q[i - 1].start <= q[i].start
  OBVIOUS
<1> HIDE DEF n
<1>4. PICK F \in [0..n -> Seq(Suggestion)] : F[0] = <<>> /\ \A i \in 1..n : F[i] = Coalesce(F[i - 1], q[i])
  BY <1>2, CoalescingExists
<1>5. F = [i \in 0..n |-> IF i = 0 THEN <<>> ELSE Coalesce(F[i - 1], q[i])]
  <2>1. \A i \in 0..n : F[i] = IF i = 0 THEN <<>> ELSE Coalesce(F[i - 1], q[i])
    BY <1>4, <1>2
  <2> QED BY <2>1, <1>4
<1>6. upTo = [i \in 0..n |-> IF i = 0 THEN <<>> ELSE Coalesce(upTo[i - 1], q[i])]
  BY <1>5
<1> HIDE DEF upTo
<1>7. upTo[0] = <<>> /\ \A i \in 1..n : upTo[i] = Coalesce(upTo[i - 1], q[i])
  BY <1>6, <1>2
<1> DEFINE P == {i \in 0..n : i # 0 => Grown(project, upTo[i], q[i])}
<1>8. ASSUME 1 \in 1..n PROVE 1 \in P
  <2> DEFINE x == q[1]
  <2>1. upTo[1] = Coalesce(<<>>, x)
    BY <1>7, <1>8
  <2>2. x \in Suggestion /\ Suits(project, x) /\ x.start \in Nat
    BY <1>2, <1>8 DEF Suggestion
  <2> HIDE DEF x
  <2>3. Coalesce(<<>>, x) = <<x>>
    <3>1. Append(<<>>, x) = <<x>>
      OBVIOUS
    <3> QED BY <3>1 DEF Coalesce
  <2>4. <<x>> \in Seq(Suggestion) /\ <<x>> # <<>> /\ Len(<<x>>) = 1 /\ <<x>>[1] = x
    BY <2>2
  <2>5. Grown(project, <<x>>, x)
    BY <2>2, <2>4 DEF Grown, OneAfterAnother
  <2>6. Grown(project, upTo[1], q[1])
    BY <2>1, <2>3, <2>5, Zenon DEF x
  <2> QED BY <2>6, <1>2, <1>8
<1>9. ASSUME NEW i \in 1..n, i - 1 \in P PROVE i \in P
  <2>1. CASE i = 1
    BY <2>1, <1>8
  <2>2. CASE i # 1
    <3> DEFINE s == upTo[i - 1]
               z == q[i - 1]
               w == q[i]
    <3>1. i - 1 \in 1..n /\ i \in 2..n /\ i - 1 # 0
      BY <2>2, <1>2
    <3>2. Grown(project, s, z)
      BY <1>9, <3>1
    <3>3. Suits(project, w) /\ z.start \in Nat /\ z.clip \in Nat
      BY <3>1, <1>2 DEF Suggestion
    <3>4. z.clip < w.clip \/ (z.clip = w.clip /\ z.start <= w.start)
      BY <3>1, <1>3
    <3>5. upTo[i] = Coalesce(s, w)
      BY <1>7
    <3> HIDE DEF s, z, w, P
    <3>6. Grown(project, Coalesce(s, w), w)
      BY <3>2, <3>3, <3>4, CoalesceGrows
    <3>7. Grown(project, upTo[i], q[i])
      BY <3>5, <3>6, Zenon DEF w
    <3> QED BY <3>7, <1>2 DEF P
  <2> QED BY <2>1, <2>2
<1>10. 0 \in P
  BY <1>2
<1> HIDE DEF P
<1>11. \A i \in 0..n : i \in P
  BY <1>2, <1>9, <1>10, HandedOn
<1>12. CASE n = 0
  <2>1. Coalesced(q) = <<>>
    BY <1>1, <1>7, <1>12
  <2>2. Takeable(project, <<>>)
    BY EmptySeq DEF Takeable, OneAfterAnother
  <2> QED BY <2>1, <2>2
<1>13. CASE n # 0
  <2>1. Grown(project, upTo[n], q[n])
    <3>1. n \in 0..n
      BY <1>2
    <3> QED BY <3>1, <1>11, <1>13 DEF P
  <2>2. Takeable(project, upTo[n])
    BY <2>1 DEF Grown, Takeable
  <2> QED BY <1>1, <2>2
<1> QED BY <1>12, <1>13

(* So can the first of them.                                               *)
LEMMA FirstTakeable ==
  ASSUME NEW project, NEW s, Takeable(project, s), NEW k \in Nat
  PROVE  Takeable(project, First(s, k))
<1> DEFINE l == Len(s)
           m == Minimum(l, k)
           f == SubSeq(s, 1, m)
<1>1. l \in Nat /\ s \in Seq(Suggestion) /\ \A i \in 1..l : s[i] \in Suggestion /\ Suits(project, s[i])
  BY DEF Takeable, Suits
<1>2. \A i, j \in 1..l : i < j =>
         s[i].clip < s[j].clip \/ (s[i].clip = s[j].clip /\ s[i].end < s[j].start)
  BY DEF Takeable, OneAfterAnother
<1> HIDE DEF l
<1>3. m \in Nat /\ m <= l
  BY <1>1 DEF Minimum
<1> HIDE DEF m
<1>4. f \in Seq(Suggestion) /\ Len(f) = m /\ \A i \in 1..m : f[i] = s[i]
  <2>1. \A i \in 1..m : s[i] \in Suggestion
    BY <1>1, <1>3
  <2>2. 1 \in Int /\ m \in Int /\ m - 1 + 1 = m /\ \A i \in 1..m : 1 + i - 1 = i
    BY <1>3
  <2>3. /\ f \in Seq(Suggestion)
        /\ Len(f) = IF 1 <= m THEN m - 1 + 1 ELSE 0
        /\ \A i \in 1 .. (m - 1 + 1) : f[i] = s[1 + i - 1]
    BY <2>1, <2>2, SubSeqProperties
  <2>4. Len(f) = m
    BY <2>2, <2>3, <1>3
  <2> QED BY <2>2, <2>3, <2>4
<1> HIDE DEF f
<1>5. \A i \in 1..m : i \in 1..l
  BY <1>1, <1>3
<1>6. OneAfterAnother(f)
  BY <1>2, <1>4, <1>5 DEF OneAfterAnother
<1>7. \A i \in 1..m : Suits(project, f[i])
  BY <1>1, <1>4, <1>5
<1>8. Takeable(project, f)
  BY <1>4, <1>6, <1>7 DEF Takeable
<1> QED BY <1>8 DEF First, f, m, l

(* What is offered of a project that fits can be taken from it.            *)
LEMMA OfferTakeable ==
  ASSUME NEW project, ProjectFits(project), NEW events, EventsTyped(events),
         EventsFit(project, events)
  PROVE  Takeable(project, BuildZooms(project, events))
<1> DEFINE S == Candidates(project, events)
           q == Sorted(S)
<1>1. /\ q \in Seq(S) /\ Len(q) \in Nat
      /\ \A i \in 2..Len(q) : \/ q[i - 1].clip < q[i].clip
                              \/ q[i - 1].clip = q[i].clip /\ q[i - 1].start <= q[i].start
  BY SortedInOrder
<1>2. \A z \in S : Suits(project, z) /\ z \in Suggestion
  BY CandidatesSuit DEF Suits
<1>3. BuildZooms(project, events) = First(Coalesced(q), 32)
  BY DEF BuildZooms, MaxZoomProposals
<1> HIDE DEF S, q
<1>4. \A i \in 1..Len(q) : q[i] \in S
  BY <1>1, ElementOfSeq
<1>5. q \in Seq(Suggestion)
  <2>1. S \subseteq Suggestion
    BY <1>2
  <2> QED BY <1>1, <2>1
<1>6. Takeable(project, Coalesced(q))
  BY <1>1, <1>2, <1>4, <1>5, CoalescedSuits
<1>7. Takeable(project, First(Coalesced(q), 32))
  BY <1>6, FirstTakeable
<1> QED BY <1>3, <1>7

(* Suggestions in order do not overlap.                                    *)
LEMMA TakeableApart ==
  ASSUME NEW project, NEW s, Takeable(project, s)
  PROVE  (\A z \in ToSet(s) : Suits(project, z)) /\ Apart(ToSet(s))
<1>1. /\ DOMAIN s = 1..Len(s) /\ Len(s) \in Nat
      /\ \A i \in 1..Len(s) : Suits(project, s[i]) /\ s[i] \in Suggestion /\ s[i].start < s[i].end
  BY DEF Takeable, Suits
<1>2. \A i \in 1..Len(s) : s[i].clip \in Nat /\ s[i].start \in Nat /\ s[i].end \in Nat
  BY <1>1 DEF Suggestion
<1>3. \A i, j \in 1..Len(s) : i < j /\ s[i].clip = s[j].clip => s[i].end < s[j].start
  BY <1>2 DEF Takeable, OneAfterAnother
<1>4. \A z \in ToSet(s) : Suits(project, z)
  BY <1>1 DEF ToSet
<1>5. ASSUME NEW y \in ToSet(s), NEW z \in ToSet(s), y # z, y.clip = z.clip PROVE ~Overlaps(y, z)
  <2>1. PICK i \in 1..Len(s), j \in 1..Len(s) : y = s[i] /\ z = s[j]
    BY <1>1 DEF ToSet
  <2>2. i < j \/ j < i
    BY <2>1, <1>5
  <2>3. y.end < z.start \/ z.end < y.start
    BY <2>1, <2>2, <1>3, <1>5
  <2>4. y.start \in Nat /\ y.end \in Nat /\ z.start \in Nat /\ z.end \in Nat
    BY <2>1, <1>2
  <2> QED BY <2>3, <2>4 DEF Overlaps
<1> QED BY <1>4, <1>5 DEF Apart

(* The owner may accept any suggestions that suit and are apart.           *)
LEMMA AnyCanBeTaken ==
  ASSUME NEW project, ProjectFits(project), project.automated < project.limit,
         NEW accepted, accepted # {}, \A z \in accepted : Suits(project, z), Apart(accepted)
  PROVE  CanAccept(project, accepted)
<1>1. ASSUME NEW z \in accepted PROVE FitsProject(project, z)
  <2>1. PICK c \in Clips(project) :
           c.id = z.clip /\ c.source = z.source /\ c.start <= z.start /\ z.end <= c.end
    BY DEF Suits
  <2>2. c.end <= project.sources[c.source] /\ c.source \in DOMAIN project.sources /\ c \in Clip
    BY ClipFacts
  <2>3. project.sources[c.source] \in Nat
    <3>1. project.sources \in Seq(Nat)
      BY DEF ProjectFits, Project
    <3> QED BY <3>1, <2>2
  <2>4. c.end \in Nat /\ z.end \in Nat
    BY <2>2 DEF Suits, Suggestion, Clip
  <2>5. z.end <= project.sources[c.source]
    BY <2>1, <2>2, <2>3, <2>4
  <2> QED BY <2>1, <2>5 DEF FitsProject
<1>2. \A z \in accepted, y \in project.zooms : y.clip = z.clip => ~Overlaps(y, z)
  BY DEF Suits
<1> QED BY <1>1, <1>2 DEF CanAccept

(* A project whose owner accepts suggestions stays valid.                  *)
LEMMA AcceptedFits ==
  ASSUME NEW project, ProjectFits(project),
         NEW accepted, CanAccept(project, accepted), \A z \in accepted : Suits(project, z)
  PROVE  ProjectFits(Accepted(project, accepted))
<1> DEFINE fresh == {[clip |-> z.clip, start |-> z.start, end |-> z.end] : z \in accepted}
           r == project.revision + 1
           a == project.automated + 1
           Z == project.zooms \cup fresh
           p == [project EXCEPT !.revision = r, !.automated = a, !.zooms = Z]
<1>1. \A z \in accepted : z.clip \in Nat /\ z.start \in Nat /\ z.end \in Nat /\ z.start < z.end
  BY DEF Suits, Suggestion
<1>2. \A x \in fresh : x \in Zoom /\ \E z \in accepted : x.clip = z.clip /\ x.start = z.start /\ x.end = z.end
  BY <1>1 DEF Zoom
<1>a. \A x, y \in fresh : x.clip = y.clip /\ x.start = y.start /\ x.end = y.end => x = y
  OBVIOUS
<1>3. project \in Project
  BY DEF ProjectFits
<1>4. r \in Nat /\ a \in Nat /\ Z \in SUBSET Zoom
  BY <1>2, <1>3 DEF Project
<1>5. Accepted(project, accepted) = p
  BY DEF Accepted
<1>b. \A y \in Z : y \in project.zooms \/ y \in fresh
  OBVIOUS
<1> HIDE DEF r, a, Z, fresh
<1>6. p \in Project
  BY <1>3, <1>4, Zenon DEF Project
<1>7. p.clips = project.clips /\ p.sources = project.sources /\ p.zooms = Z
  BY <1>3 DEF Project
<1> HIDE DEF p
<1>8. Clips(p) = Clips(project)
  BY <1>7 DEF Clips
<1>9. \A y \in Z : y.start \in Nat /\ y.end \in Nat
  BY <1>4 DEF Zoom
<1>10. Apart(Z)
  <2> SUFFICES ASSUME NEW x \in Z, NEW y \in Z, x # y, x.clip = y.clip PROVE ~Overlaps(x, y)
    BY DEF Apart
  <2>1. CASE x \in project.zooms /\ y \in project.zooms
    BY <2>1 DEF ProjectFits, Apart
  <2>2. CASE x \in fresh /\ y \in fresh
    <3>1. PICK v \in accepted : x.clip = v.clip /\ x.start = v.start /\ x.end = v.end
      BY <2>2, <1>2
    <3>2. PICK w \in accepted : y.clip = w.clip /\ y.start = w.start /\ y.end = w.end
      BY <2>2, <1>2
    <3>3. v # w
      BY <3>1, <3>2, <2>2, <1>a
    <3>4. ~Overlaps(v, w)
      BY <3>1, <3>2, <3>3 DEF CanAccept, Apart
    <3> QED BY <3>1, <3>2, <3>4 DEF Overlaps
  <2>3. CASE x \in project.zooms /\ y \in fresh
    <3>1. PICK w \in accepted : y.clip = w.clip /\ y.start = w.start /\ y.end = w.end
      BY <2>3, <1>2
    <3>2. ~Overlaps(x, w)
      BY <2>3, <3>1 DEF CanAccept
    <3> QED BY <3>1, <3>2 DEF Overlaps
  <2>4. CASE x \in fresh /\ y \in project.zooms
    <3>1. PICK v \in accepted : x.clip = v.clip /\ x.start = v.start /\ x.end = v.end
      BY <2>4, <1>2
    <3>2. ~Overlaps(y, v)
      BY <2>4, <3>1 DEF CanAccept
    <3> QED BY <3>1, <3>2 DEF Overlaps
  <2> QED BY <2>1, <2>2, <2>3, <2>4, <1>b
<1>11. ZoomsInside(p)
  <2> SUFFICES ASSUME NEW y \in Z
               PROVE  \E c \in Clips(project) :
                         c.id = y.clip /\ c.start <= y.start /\ y.start < y.end /\ y.end <= c.end
    BY <1>7, <1>8 DEF ZoomsInside
  <2>1. CASE y \in project.zooms
    BY <2>1 DEF ProjectFits, ZoomsInside
  <2>2. CASE y \in fresh
    <3>1. PICK v \in accepted : y.clip = v.clip /\ y.start = v.start /\ y.end = v.end
      BY <2>2, <1>2
    <3> QED BY <3>1 DEF Suits
  <2> QED BY <2>1, <2>2, <1>b
<1>12. ProjectFits(p)
  BY <1>6, <1>7, <1>8, <1>10, <1>11 DEF ProjectFits
<1> QED BY <1>5, <1>12

(* And so does one whose first clip is made longer or shorter by hand.     *)
LEMMA RevisedFits ==
  ASSUME NEW project, ProjectFits(project), NEW v \in Int,
         project.clips[1].start < v, v <= project.sources[project.clips[1].source],
         \A z \in project.zooms : z.clip = project.clips[1].id => z.end <= v
  PROVE  LET p == [project EXCEPT !.clips[1].end = v, !.revision = @ + 1]
         IN  ProjectFits(p) /\ p.sources = project.sources
<1> DEFINE n == Len(project.clips)
           k == project.clips[1]
           l == [k EXCEPT !.end = v]
           s == [project.clips EXCEPT ![1] = l]
           r == project.revision + 1
           p == [project EXCEPT !.clips = s, !.revision = r]
<1>1. project \in Project /\ project.clips \in Seq(Clip) /\ project.clips # <<>>
  BY DEF ProjectFits, Project
<1>2. n \in Nat \ {0} /\ DOMAIN project.clips = 1..n /\ \A i \in 1..n : project.clips[i] \in Clip
  BY <1>1, LenProperties, ElementOfSeq, EmptySeq
<1>3. k \in Clip /\ k \in Clips(project) /\ k.start < v
  BY <1>2 DEF Clips
<1>4. v \in Nat
  BY <1>3 DEF Clip
<1>5. l \in Clip /\ l.id = k.id /\ l.source = k.source /\ l.start = k.start /\ l.end = v
  <2> HIDE DEF k
  <2>1. l \in Clip
    BY <1>3, <1>4, Zenon DEF Clip
  <2> QED BY <2>1, <1>3 DEF Clip
<1>6. [project EXCEPT !.clips[1].end = v, !.revision = @ + 1] = p
  OBVIOUS
<1>a. 1 \in 1..n /\ project.clips[1] = k
  BY <1>2
<1> HIDE DEF n, k, l
<1>7. s \in Seq(Clip) /\ DOMAIN s = 1..n /\ s[1] = l /\ \A i \in 2..n : s[i] = project.clips[i]
  <2>1. s = [i \in 1..n |-> IF i = 1 THEN l ELSE project.clips[i]]
    BY <1>2
  <2>2. s = [i \in 1..n |-> s[i]] /\ \A i \in 1..n : s[i] \in Clip
    BY <2>1, <1>2, <1>5
  <2>3. s \in Seq(Clip) /\ Len(s) = n
    <3> HIDE DEF s
    <3> QED BY <2>2, <1>2, IsASeqOf
  <2> QED BY <2>1, <2>3, <1>2
<1>8. r \in Nat
  BY <1>1 DEF Project
<1> HIDE DEF s, r
<1>9. p \in Project
  BY <1>1, <1>7, <1>8, Zenon DEF Project
<1>10. p.clips = s /\ p.sources = project.sources /\ p.zooms = project.zooms
  BY <1>1 DEF Project
<1> HIDE DEF p
<1>11. \A i \in 1..n : s[i].id = project.clips[i].id
  BY <1>7, <1>5, <1>2, <1>a
<1>12. p.clips # <<>>
  BY <1>10, <1>7, <1>2
<1>13. \A c, d \in DOMAIN p.clips : p.clips[c].id = p.clips[d].id => c = d
  BY <1>10, <1>7, <1>11, <1>2 DEF ProjectFits
<1>14. \A c \in Clips(p) :
          c = l \/ \E i \in 2..n : c = project.clips[i] /\ c \in Clips(project)
  <2> TAKE c \in Clips(p)
  <2>1. PICK i \in 1..n : c = s[i]
    BY <1>10, <1>7 DEF Clips
  <2>2. i = 1 \/ i \in 2..n
    BY <1>2
  <2>3. project.clips[i] \in Clips(project)
    BY <1>2 DEF Clips
  <2> QED BY <2>1, <2>2, <2>3, <1>7
<1>15. \A c \in Clips(p) :
          c.source \in DOMAIN p.sources /\ c.start < c.end /\ c.end <= p.sources[c.source]
  BY <1>14, <1>10, <1>3, <1>5, ClipFacts DEF k
<1>16. Apart(p.zooms)
  BY <1>10 DEF ProjectFits
<1>17. ASSUME NEW z \in p.zooms
       PROVE  \E c \in Clips(p) :
                 c.id = z.clip /\ c.start <= z.start /\ z.start < z.end /\ z.end <= c.end
  <2>1. PICK c \in Clips(project) :
           c.id = z.clip /\ c.start <= z.start /\ z.start < z.end /\ z.end <= c.end
    BY <1>10 DEF ProjectFits, ZoomsInside
  <2>2. PICK i \in 1..n : c = project.clips[i]
    BY <1>2 DEF Clips
  <2>3. s[i] \in Clips(p)
    BY <1>7, <1>10 DEF Clips
  <2>4. CASE i = 1
    <3>1. l \in Clips(p)
      BY <2>3, <2>4, <1>7
    <3>2. c = k /\ z.end <= v
      BY <2>1, <2>2, <2>4, <1>a, <1>10
    <3> QED BY <2>1, <3>1, <3>2, <1>5
  <2>5. CASE i # 1
    <3>1. i \in 2..n
      BY <2>5, <1>2
    <3>2. c \in Clips(p)
      BY <3>1, <2>2, <2>3, <1>7
    <3> QED BY <2>1, <3>2
  <2> QED BY <2>4, <2>5
<1>18. ProjectFits(p)
  BY <1>9, <1>12, <1>13, <1>15, <1>16, <1>17 DEF ProjectFits, ZoomsInside
<1> QED BY <1>6, <1>10, <1>18

(* The stored project stays valid, the events go on to fit it, and an      *)
(* offer is what its own project gives.                                    *)
ReviewInvariant ==
  /\ ProjectFits(edited)
  /\ EventsTyped(observed)
  /\ EventsFit(edited, observed)
  /\ offered # NoProposal => offered.content.zooms = BuildZooms(offered.content.project, observed)

(* The zooms of a proposal are those of its project.                       *)
LEMMA ProposalZooms ==
  ASSUME NEW project, NEW events, NEW analyses
  PROVE  LET p == BuildProposal(project, events, analyses) IN
         p.content.project = project /\ p.content.zooms = BuildZooms(project, events)
<1> DEFINE z == BuildZooms(project, events)
           t == BuildTrims(project, analyses)
           c == BuildTransitions(project)
<1>1. Payload(project, events, analyses) =
        [project |-> project, zooms |-> z, trims |-> t, transitions |-> c]
  BY DEF Payload
<1> HIDE DEF z, t, c
<1> QED BY <1>1 DEF BuildProposal, z

(* The invariant is enough for OffersAreSafe.                              *)
LEMMA OffersInvariant == ReviewInvariant => OffersAreSafe
<1> SUFFICES ASSUME ReviewInvariant PROVE OffersAreSafe
  OBVIOUS
<1>1. ZoomsStayApart
  BY DEF ReviewInvariant, ProjectFits, ZoomsStayApart
<1>2. ASSUME offered # NoProposal, offered.content.project = edited, edited.automated < edited.limit,
             NEW accepted \in SUBSET ToSet(offered.content.zooms), accepted # {}
      PROVE  CanAccept(edited, accepted)
  <2> DEFINE s == BuildZooms(edited, observed)
  <2>1. offered.content.zooms = s
    BY <1>2 DEF ReviewInvariant
  <2>2. Takeable(edited, s)
    BY OfferTakeable DEF ReviewInvariant
  <2> HIDE DEF s
  <2>3. (\A z \in ToSet(s) : Suits(edited, z)) /\ Apart(ToSet(s))
    BY <2>2, TakeableApart
  <2>4. \A z \in accepted : z \in ToSet(s)
    BY <2>1
  <2>5. (\A z \in accepted : Suits(edited, z)) /\ Apart(accepted)
    BY <2>3, <2>4 DEF Apart
  <2>6. ProjectFits(edited)
    BY DEF ReviewInvariant
  <2> QED BY <2>5, <2>6, <1>2, AnyCanBeTaken
<1>3. OffersCanBeTaken
  BY <1>2 DEF OffersCanBeTaken
<1> QED BY <1>1, <1>3 DEF OffersAreSafe

(* Events go on to fit a project that keeps its sources.                   *)
LEMMA EventsStillFit ==
  ASSUME NEW p, NEW project, NEW events, EventsFit(project, events), p.sources = project.sources
  PROVE  EventsFit(p, events)
BY DEF EventsFit, Sources

(* OffersAreSafe: from any valid project and whatever a capture observed,  *)
(* however often the owner accepts suggestions or revises by hand, zooms   *)
(* of a clip stay apart and inside it, and any part of a fresh proposal    *)
(* can be accepted (src/src/analysis/editorial-proposal.ts; the service    *)
(* of src/mcp/session-store-service.ts).                                   *)
THEOREM OffersStaySafe == ReviewSpec => []OffersAreSafe
<1>1. ReviewInit => ReviewInvariant
  BY ReviewConstants DEF ReviewInit, ReviewInvariant, EventsTyped
<1>2. ReviewInvariant /\ [ReviewNext]_reviewVars => ReviewInvariant'
  <2> SUFFICES ASSUME ReviewInvariant, [ReviewNext]_reviewVars
               PROVE  ReviewInvariant'
    OBVIOUS
  <2>1. CASE Propose
    <3>1. edited' = edited /\ observed' = observed /\ offered' = BuildProposal(edited, observed, analysed)
      BY <2>1 DEF Propose
    <3>2. offered'.content.zooms = BuildZooms(offered'.content.project, observed)
      BY <3>1, ProposalZooms
    <3> QED BY <3>1, <3>2 DEF ReviewInvariant
  <2>2. CASE ApplyAccepted
    <3> DEFINE s == BuildZooms(edited, observed)
    <3>1. BuildProposal(edited, observed, analysed).content.zooms = s
      BY ProposalZooms
    <3>2. /\ observed' = observed /\ offered' = offered
          /\ \E accepted \in SUBSET ToSet(s) :
                CanAccept(edited, accepted) /\ edited' = Accepted(edited, accepted)
      BY <2>2, <3>1 DEF ApplyAccepted
    <3>3. Takeable(edited, s)
      BY OfferTakeable DEF ReviewInvariant
    <3> HIDE DEF s
    <3>4. PICK accepted \in SUBSET ToSet(s) :
             CanAccept(edited, accepted) /\ edited' = Accepted(edited, accepted)
      BY <3>2
    <3>5. \A z \in accepted : Suits(edited, z)
      BY <3>3, TakeableApart
    <3>6. ProjectFits(edited) /\ ProjectFits(edited')
      BY <3>4, <3>5, AcceptedFits DEF ReviewInvariant
    <3>7. edited'.sources = edited.sources
      BY <3>4, <3>6 DEF Accepted, ProjectFits, Project
    <3>8. EventsFit(edited', observed)
      BY <3>7, EventsStillFit DEF ReviewInvariant
    <3> QED BY <3>2, <3>6, <3>8 DEF ReviewInvariant
  <2>3. CASE ReviseByHand
    <3>1. observed' = observed /\ offered' = offered
      BY <2>3 DEF ReviseByHand
    <3>2. PICK shift \in Shifts :
             LET clip == edited.clips[1]
             IN  /\ clip.start < clip.end + shift
                 /\ clip.end + shift <= edited.sources[clip.source]
                 /\ \A z \in edited.zooms : z.clip = clip.id => z.end <= clip.end + shift
                 /\ edited' = [edited EXCEPT !.clips[1].end = clip.end + shift, !.revision = @ + 1]
      BY <2>3 DEF ReviseByHand
    <3> DEFINE v == edited.clips[1].end + shift
    <3>3. ProjectFits(edited)
      BY DEF ReviewInvariant
    <3>4. v \in Int
      <4>1. edited.clips \in Seq(Clip) /\ edited.clips # <<>>
        BY <3>3 DEF ProjectFits, Project
      <4>2. edited.clips[1] \in Clip
        BY <4>1, EmptySeq, ElementOfSeq
      <4>3. shift \in Int
        BY ReviewConstants
      <4> QED BY <4>2, <4>3 DEF Clip
    <3>5. /\ edited.clips[1].start < v /\ v <= edited.sources[edited.clips[1].source]
          /\ \A z \in edited.zooms : z.clip = edited.clips[1].id => z.end <= v
          /\ edited' = [edited EXCEPT !.clips[1].end = v, !.revision = @ + 1]
      BY <3>2
    <3> HIDE DEF v
    <3>6. ProjectFits(edited') /\ edited'.sources = edited.sources
      BY <3>3, <3>4, <3>5, RevisedFits
    <3>7. EventsFit(edited', observed)
      BY <3>6, EventsStillFit DEF ReviewInvariant
    <3> QED BY <3>1, <3>6, <3>7 DEF ReviewInvariant
  <2>4. CASE UNCHANGED reviewVars
    BY <2>4 DEF ReviewInvariant, reviewVars
  <2> QED BY <2>1, <2>2, <2>3, <2>4 DEF ReviewNext
<1> QED BY <1>1, <1>2, OffersInvariant, PTL DEF ReviewSpec

-----------------------------------------------------------------------------
(* 4. The two timelines.  Times are divided and rounded in one order; the  *)
(* ranked candidates are settled one by one.                               *)

(* Whole division leaves less than the divisor.                            *)
LEMMA DivFacts ==
  ASSUME NEW a \in Nat, NEW b \in Nat \ {0}
  PROVE  a \div b \in Nat /\ b * (a \div b) <= a /\ a < b * (a \div b) + b
BY SMT

(* The more is divided, the more each gets.                                *)
LEMMA DivGrows ==
  ASSUME NEW x \in Nat, NEW y \in Nat, x <= y, NEW b \in Nat \ {0}
  PROVE  x \div b <= y \div b
<1> DEFINE p == x \div b
           q == y \div b
<1>1. p \in Nat /\ q \in Nat /\ b * p <= x /\ y < b * q + b
  BY DivFacts
<1> HIDE DEF p, q
<1>2. SUFFICES ASSUME q < p PROVE FALSE
  BY <1>1 DEF p, q
<1>3. PICK d \in Nat : p = q + 1 + d
  <2>1. p - q - 1 \in Nat /\ p = q + 1 + (p - q - 1)
    BY <1>1, <1>2
  <2> QED BY <2>1
<1>4. b * p = b * q + b + b * d /\ b * d >= 0
  BY <1>1, <1>3
<1> QED BY <1>1, <1>4

(* Rounding errs by half at most.                                          *)
LEMMA RoundFacts ==
  ASSUME NEW a \in Nat, NEW b \in Nat \ {0}
  PROVE  Round(a, b) \in Nat /\ 2 * (b * Round(a, b)) <= 2 * a + b /\ 2 * a < 2 * (b * Round(a, b)) + b
<1> DEFINE q == (2 * a + b) \div (2 * b)
<1>1. 2 * a + b \in Nat /\ 2 * b \in Nat \ {0}
  OBVIOUS
<1>2. q \in Nat /\ (2 * b) * q <= 2 * a + b /\ 2 * a + b < (2 * b) * q + 2 * b
  BY <1>1, DivFacts
<1> HIDE DEF q
<1>3. (2 * b) * q = 2 * (b * q)
  BY <1>2
<1>4. b * q \in Nat
  BY <1>2
<1> QED BY <1>2, <1>3, <1>4 DEF q, Round

(* Rounding keeps the order.                                               *)
LEMMA RoundGrows ==
  ASSUME NEW x \in Nat, NEW y \in Nat, x <= y, NEW b \in Nat \ {0}
  PROVE  Round(x, b) <= Round(y, b)
<1>1. 2 * x + b \in Nat /\ 2 * y + b \in Nat /\ 2 * x + b <= 2 * y + b /\ 2 * b \in Nat \ {0}
  OBVIOUS
<1> QED BY <1>1, DivGrows DEF Round

(* A rising list rises from any place to any later one.                    *)
LEMMA RisingFar ==
  ASSUME NEW s, NEW n \in Nat, Len(s) = n, \A i \in 1..n : s[i] \in Nat, Rising(s)
  PROVE  \A i, j \in 1..n : i < j => s[i] < s[j]
<1> SUFFICES ASSUME NEW i \in 1..n PROVE \A j \in 1..n : i < j => s[i] < s[j]
  OBVIOUS
<1> DEFINE H == {k \in 0..n : k > i => s[i] < s[k]}
<1>1. 0 \in H
  OBVIOUS
<1>2. ASSUME NEW k \in 1..n, k - 1 \in H PROVE k \in H
  <2>1. SUFFICES ASSUME k > i PROVE s[i] < s[k]
    OBVIOUS
  <2>2. k \in 2..n /\ s[k - 1] < s[k]
    BY <2>1 DEF Rising
  <2>3. s[i] \in Nat /\ s[k] \in Nat /\ s[k - 1] \in Nat
    BY <2>2
  <2>4. k - 1 = i \/ s[i] < s[k - 1]
    BY <1>2, <2>1
  <2> QED BY <2>2, <2>3, <2>4
<1> HIDE DEF H
<1>3. \A k \in 0..n : k \in H
  BY <1>1, <1>2, HandedOn
<1> QED BY <1>3 DEF H

(* The events of a kind are events of that kind.                           *)
LEMMA OfTypeFacts ==
  ASSUME NEW events, StreamTyped(events), NEW kind
  PROVE  LET s == OfType(events, kind) IN
         /\ Len(s) \in Nat /\ DOMAIN s = 1..Len(s)
         /\ \A i \in 1..Len(s) : s[i] \in ToSet(events) /\ s[i].type = kind
<1> DEFINE P == Places(events, kind)
           R == {z \in P \X P : z[1] < z[2]}
           n == Cardinality(P)
           s == OfType(events, kind)
<1>1. P \in SUBSET (1..Len(events)) /\ Len(events) \in Nat /\ DOMAIN events = 1..Len(events)
  BY DEF StreamTyped, Places
<1>2. IsFiniteSet(P)
  <2> HIDE DEF P
  <2>1. IsFiniteSet(1..Len(events))
    BY <1>1, FS_Interval
  <2> QED BY <1>1, <2>1, FS_Subset
<1>3. \A x, y \in P : <<x, y>> \in R <=> x < y
  OBVIOUS
<1>4. s = [k \in 1..n |-> events[CHOOSE i \in P : Cardinality({j \in P : j < i}) = k - 1]]
  BY DEF OfType
<1>5. \A i \in P : events[i] \in ToSet(events) /\ events[i].type = kind
  BY <1>1 DEF Places, ToSet
<1> HIDE DEF P, R, n, s
<1>6. StrictOrder(P, R)
  <2>1. \A x \in P : x \in Nat
    BY <1>1
  <2> QED BY <2>1, <1>3 DEF StrictOrder
<1>7. n \in Nat
  BY <1>2, <1>6, RanksGrow DEF n
<1>8. ASSUME NEW k \in 1..n PROVE s[k] \in ToSet(events) /\ s[k].type = kind
  <2> DEFINE c == CHOOSE i \in P : Cardinality({j \in P : j < i}) = k - 1
  <2>1. k - 1 \in 0..(n - 1)
    BY <1>7
  <2>2. \E x \in P : Rank(P, R, x) = k - 1
    BY <1>2, <1>6, <2>1, EveryRankTaken DEF n
  <2>3. \A x \in P : Rank(P, R, x) = Cardinality({j \in P : j < x})
    <3> TAKE x \in P
    <3>1. Below(P, R, x) = {j \in P : j < x}
      BY <1>3 DEF Below
    <3> QED BY <3>1 DEF Rank
  <2>4. c \in P
    BY <2>2, <2>3
  <2>5. s[k] = events[c]
    BY <1>4
  <2> HIDE DEF c
  <2> QED BY <2>4, <2>5, <1>5
<1>9. DOMAIN s = 1..n /\ Len(s) = n
  <2>1. s = [k \in 1..n |-> s[k]]
    <3> DEFINE v(k) == events[CHOOSE i \in P : Cardinality({j \in P : j < i}) = k - 1]
    <3>1. s = [k \in 1..n |-> v(k)]
      BY <1>4
    <3> HIDE DEF v
    <3> QED BY <3>1
  <2>2. s \in Seq(ToSet(events)) /\ Len(s) = n
    BY <2>1, <1>7, <1>8, IsASeqOf
  <2> QED BY <2>2
<1> QED BY <1>7, <1>8, <1>9 DEF s

(* The frames a moment knows are the first ones, as many as ActiveIndex.   *)
LEMMA ActiveFacts ==
  ASSUME NEW frames, NEW n \in Nat, Len(frames) = n, DOMAIN frames = 1..n,
         \A k \in 1..n : frames[k].at \in Nat, Rising(Times(frames)), NEW t \in Nat
  PROVE  /\ ActiveIndex(frames, t) \in 0..n
         /\ \A k \in 1..n : frames[k].at <= t <=> k <= ActiveIndex(frames, t)
<1> DEFINE S == {k \in DOMAIN frames : frames[k].at <= t}
           T == {k \in 1..(n + 1) : k = n + 1 \/ frames[k].at > t}
           s == Times(frames)
<1>1. Len(s) = n /\ \A k \in 1..n : s[k] = frames[k].at
  <2>1. s = [k \in 1..n |-> frames[k].at]
    BY DEF Times
  <2>2. s = [k \in 1..n |-> s[k]] /\ \A k \in 1..n : s[k] = frames[k].at
    BY <2>1
  <2>3. \A k \in 1..n : s[k] \in Nat
    BY <2>2
  <2> HIDE DEF s
  <2>4. Len(s) = n
    BY <2>2, <2>3, IsASeqOf
  <2> QED BY <2>2, <2>4
<1>2. \A i, j \in 1..n : i < j => frames[i].at < frames[j].at
  <2>1. Rising(s) /\ \A k \in 1..n : s[k] \in Nat
    BY <1>1
  <2> HIDE DEF s
  <2> QED BY <1>1, <2>1, RisingFar
<1>3. T # {} /\ T \subseteq Nat
  OBVIOUS
<1> HIDE DEF T
<1>4. PICK l \in T : \A k \in T : l <= k
  BY <1>3, LeastNumber
<1>5. l \in 1..(n + 1) /\ (l = n + 1 \/ frames[l].at > t)
  BY DEF T
<1>6. \A k \in 1..n : k < l => frames[k].at <= t
  <2> TAKE k \in 1..n
  <2> HAVE k < l
  <2>1. k \notin T
    BY <1>4, <1>5
  <2>2. k \in 1..(n + 1)
    OBVIOUS
  <2> QED BY <2>1, <2>2 DEF T
<1>7. \A k \in 1..n : k >= l => frames[k].at > t
  BY <1>2, <1>5
<1>8. \A k \in 1..n : frames[k].at <= t <=> k < l
  BY <1>5, <1>6, <1>7
<1>9. S = 1..(l - 1)
  BY <1>5, <1>8
<1>10. Cardinality(1..(l - 1)) = l - 1
  <2>1. l - 1 \in Nat
    BY <1>5
  <2> QED BY <2>1, CountTo
<1>11. ActiveIndex(frames, t) = l - 1
  BY <1>9, <1>10 DEF ActiveIndex
<1> QED BY <1>5, <1>8, <1>11

(* The later the moment, the more frames it knows.                         *)
LEMMA ActiveGrows ==
  ASSUME NEW frames, NEW n \in Nat, Len(frames) = n, DOMAIN frames = 1..n,
         \A k \in 1..n : frames[k].at \in Nat, Rising(Times(frames)),
         NEW t \in Nat, NEW u \in Nat, t <= u
  PROVE  ActiveIndex(frames, t) <= ActiveIndex(frames, u)
<1> DEFINE a == ActiveIndex(frames, t)
           b == ActiveIndex(frames, u)
<1>1. a \in 0..n /\ \A k \in 1..n : frames[k].at <= t <=> k <= a
  BY ActiveFacts
<1>2. b \in 0..n /\ \A k \in 1..n : frames[k].at <= u <=> k <= b
  BY ActiveFacts
<1> HIDE DEF a, b
<1>3. CASE a = 0
  BY <1>2, <1>3 DEF a, b
<1>4. CASE a # 0
  <2>1. a \in 1..n /\ frames[a].at <= t
    BY <1>1, <1>4
  <2>2. frames[a].at <= u
    BY <2>1
  <2> QED BY <2>1, <2>2, <1>2 DEF a, b
<1> QED BY <1>3, <1>4

(* A compiled timeline has a slot for every begun output frame.            *)
LEMMA GridCount ==
  ASSUME NEW D \in Nat \ {0}
  PROVE  LET n == (D * Fps + Second - 1) \div Second IN
         n \in Nat \ {0} /\ (n - 1) * Second < D * Fps /\ D * Fps <= n * Second
<1>1. Second \in Nat \ {0} /\ Fps \in Nat \ {0}
  BY TimelineConstants, SecondAssumption
<1> DEFINE x == D * Fps
           n == (x + Second - 1) \div Second
<1>2. x \in Nat \ {0}
  <2>1. \A a, b \in Nat \ {0} : a * b \in Nat \ {0}
    OBVIOUS
  <2> QED BY <2>1, <1>1
<1> HIDE DEF x
<1>3. x + Second - 1 \in Nat
  BY <1>1, <1>2
<1>4. n \in Nat /\ Second * n <= x + Second - 1 /\ x + Second - 1 < Second * n + Second
  BY <1>1, <1>3, DivFacts
<1> HIDE DEF n
<1>5. (n - 1) * Second = Second * n - Second /\ n * Second = Second * n
  BY <1>1, <1>4
<1>6. n # 0
  <2>1. n = 0 => Second * n = 0
    BY <1>1
  <2> QED BY <2>1, <1>2, <1>4, <1>1
<1>7. Second * n \in Nat
  BY <1>1, <1>4
<1>8. (n - 1) * Second < x /\ x <= n * Second
  BY <1>1, <1>2, <1>4, <1>5, <1>7
<1> QED BY <1>4, <1>6, <1>8 DEF n, x

(* The times and the frames of the slots of a compiled timeline.           *)
LEMMA SlotTimes ==
  /\ \A i \in Nat \ {0} : SlotTime(i) \in Nat
  /\ \A i, j \in Nat \ {0} : i <= j => SlotTime(i) <= SlotTime(j)
<1>1. Second \in Nat \ {0} /\ Fps \in Nat \ {0}
  BY TimelineConstants, SecondAssumption
<1>2. \A i \in Nat \ {0} : (i - 1) * Second \in Nat
  <2>1. \A a, b \in Nat : a * b \in Nat
    OBVIOUS
  <2> QED BY <2>1, <1>1
<1>3. ASSUME NEW i \in Nat \ {0} PROVE SlotTime(i) \in Nat
  BY <1>1, <1>2, DivFacts DEF SlotTime
<1>4. ASSUME NEW i \in Nat \ {0}, NEW j \in Nat \ {0}, i <= j PROVE SlotTime(i) <= SlotTime(j)
  <2>1. (i - 1) * Second <= (j - 1) * Second
    <3>1. PICK d \in Nat : j = i + d
      <4>1. j - i \in Nat /\ j = i + (j - i)
        BY <1>4
      <4> QED BY <4>1
    <3>2. (j - 1) * Second = (i - 1) * Second + d * Second /\ d * Second >= 0
      BY <3>1, <1>1
    <3> QED BY <3>2, <1>2
  <2>2. (i - 1) * Second \in Nat /\ (j - 1) * Second \in Nat
    BY <1>2
  <2> DEFINE x == (i - 1) * Second
             y == (j - 1) * Second
  <2>3. SlotTime(i) = x \div Fps /\ SlotTime(j) = y \div Fps
    BY DEF SlotTime
  <2>4. x <= y /\ x \in Nat /\ y \in Nat
    BY <2>1, <2>2
  <2> HIDE DEF x, y
  <2>5. x \div Fps <= y \div Fps
    BY <2>4, <1>1, DivGrows
  <2> QED BY <2>3, <2>5
<1> QED BY <1>3, <1>4

(* The last slot of a compiled timeline begins with its last output frame. *)
LEMMA LastSlotTime ==
  ASSUME NEW last \in Nat, NEW m, m = ((last + 1) * Fps + Second - 1) \div Second
  PROVE  /\ m \in Nat \ {0}
         /\ SlotTime(m) <= last
         /\ last * Fps < SlotTime(m) * Fps + Fps + Second
<1>1. Second \in Nat \ {0} /\ Fps \in Nat \ {0}
  BY TimelineConstants, SecondAssumption
<1>2. m \in Nat \ {0} /\ (m - 1) * Second < (last + 1) * Fps /\ (last + 1) * Fps <= m * Second
  <2> DEFINE D == last + 1
  <2>1. D \in Nat \ {0}
    OBVIOUS
  <2>2. m = (D * Fps + Second - 1) \div Second
    OBVIOUS
  <2>3. D = last + 1
    OBVIOUS
  <2> HIDE DEF D
  <2>4. m \in Nat \ {0} /\ (m - 1) * Second < D * Fps /\ D * Fps <= m * Second
    BY <2>1, <2>2, GridCount
  <2> QED BY <2>3, <2>4
<1> DEFINE x == (m - 1) * Second
           q == SlotTime(m)
<1>3. x \in Nat
  <2>1. \A a, b \in Nat : a * b \in Nat
    OBVIOUS
  <2>2. m - 1 \in Nat /\ Second \in Nat
    BY <1>1, <1>2
  <2> QED BY <2>1, <2>2
<1>4. q = x \div Fps
  BY DEF SlotTime
<1>5. x < (last + 1) * Fps /\ (last + 1) * Fps <= x + Second
  <2>1. m * Second = x + Second
    BY <1>1, <1>2
  <2> QED BY <1>2, <2>1
<1> HIDE DEF x, q
<1>6. q \in Nat /\ Fps * q <= x /\ x < Fps * q + Fps
  BY <1>1, <1>3, <1>4, DivFacts
<1>7. (last + 1) * Fps = last * Fps + Fps /\ q * Fps = Fps * q /\ last * Fps \in Nat /\ Fps * q \in Nat
  BY <1>1, <1>6
<1>8. last * Fps < q * Fps + Fps + Second
  BY <1>1, <1>3, <1>5, <1>6, <1>7
<1>9. q <= last
  <2>1. SUFFICES ASSUME q > last PROVE FALSE
    BY <1>6
  <2>2. PICK d \in Nat : q = last + 1 + d
    <3>1. q - last - 1 \in Nat /\ q = last + 1 + (q - last - 1)
      BY <2>1, <1>6
    <3> QED BY <3>1
  <2>3. Fps * q = (last + 1) * Fps + d * Fps /\ d * Fps >= 0
    BY <2>2, <1>1
  <2>4. (last + 1) * Fps \in Int /\ d * Fps \in Int
    BY <1>1
  <2> QED BY <2>3, <2>4, <1>5, <1>6, <1>3, <1>7
<1> QED BY <1>2, <1>8, <1>9 DEF q

(* A slot shows the last frame of its time.                                *)
FramesOf(frames, n) ==
  /\ Len(frames) = n /\ DOMAIN frames = 1..n
  /\ \A k \in 1..n : frames[k].at \in Nat /\ frames[k].id \in Nat
  /\ \A j, k \in 1..n : frames[j].id = frames[k].id => j = k
  /\ Rising(Times(frames))

GridSlots(frames, m) ==
  [i \in 1..m |->
     LET active == ActiveIndex(frames, SlotTime(i))
     IN  [at       |-> SlotTime(i),
          frame    |-> IF active = 0 THEN Absent ELSE frames[active].id,
          distinct |-> active > 0 /\ (i = 1 \/ ActiveIndex(frames, SlotTime(i - 1)) # active)]]

(* The fields of a slot.                                                   *)
LEMMA GridFields ==
  ASSUME NEW frames, NEW m \in Nat, NEW slots, slots = GridSlots(frames, m)
  PROVE  /\ DOMAIN slots = 1..m
         /\ \A i \in 1..m :
              /\ slots[i].at = SlotTime(i)
              /\ slots[i].frame = IF ActiveIndex(frames, SlotTime(i)) = 0 THEN Absent
                                  ELSE frames[ActiveIndex(frames, SlotTime(i))].id
              /\ slots[i].distinct <=> /\ ActiveIndex(frames, SlotTime(i)) > 0
                                       /\ \/ i = 1
                                          \/ ActiveIndex(frames, SlotTime(i - 1)) # ActiveIndex(frames, SlotTime(i))
<1> DEFINE a(i) == ActiveIndex(frames, SlotTime(i))
<1>1. slots = [i \in 1..m |-> [at |-> SlotTime(i), frame |-> IF a(i) = 0 THEN Absent ELSE frames[a(i)].id,
                               distinct |-> a(i) > 0 /\ (i = 1 \/ a(i - 1) # a(i))]]
  BY DEF GridSlots
<1>2. \A i : a(i) = ActiveIndex(frames, SlotTime(i))
  OBVIOUS
<1> HIDE DEF a
<1>3. ASSUME NEW i \in 1..m
      PROVE  /\ slots[i].at = SlotTime(i)
             /\ slots[i].frame = IF a(i) = 0 THEN Absent ELSE frames[a(i)].id
             /\ slots[i].distinct <=> a(i) > 0 /\ (i = 1 \/ a(i - 1) # a(i))
  <2> DEFINE f == IF a(i) = 0 THEN Absent ELSE frames[a(i)].id
             d == a(i) > 0 /\ (i = 1 \/ a(i - 1) # a(i))
             t == SlotTime(i)
  <2>1. slots[i] = [at |-> t, frame |-> f, distinct |-> d]
    BY <1>1
  <2> HIDE DEF f, d, t
  <2>2. slots[i].at = t /\ slots[i].frame = f /\ slots[i].distinct = d
    BY <2>1
  <2> QED BY <2>2 DEF f, d, t
<1>4. DOMAIN slots = 1..m
  BY <1>1
<1> QED BY <1>2, <1>3, <1>4

LEMMA SlotsShowTheLatest ==
  ASSUME NEW frames, NEW n \in Nat, FramesOf(frames, n),
         NEW m \in Nat \ {0}, NEW slots, slots = GridSlots(frames, m)
  PROVE  \A i \in 1..m :
           \/ slots[i].frame = Absent /\ \A k \in 1..n : frames[k].at > slots[i].at
           \/ \E a \in 1..n : /\ slots[i].frame = frames[a].id /\ slots[i].frame # Absent
                              /\ frames[a].at <= slots[i].at
                              /\ \A k \in 1..n : frames[k].at <= slots[i].at => frames[k].at <= frames[a].at
<1> TAKE i \in 1..m
<1> DEFINE t == SlotTime(i)
           a == ActiveIndex(frames, t)
<1>1. t \in Nat
  BY SlotTimes
<1>2. slots[i].at = t /\ slots[i].frame = IF a = 0 THEN Absent ELSE frames[a].id
  BY GridFields
<1> HIDE DEF t
<1>3. a \in 0..n /\ \A k \in 1..n : frames[k].at <= t <=> k <= a
  BY <1>1, ActiveFacts DEF FramesOf
<1> HIDE DEF a
<1>4. CASE a = 0
  <2>1. ASSUME NEW k \in 1..n PROVE frames[k].at > slots[i].at
    <3>1. ~(frames[k].at <= t) /\ frames[k].at \in Nat
      BY <1>3, <1>4 DEF FramesOf
    <3> QED BY <3>1, <1>1, <1>2
  <2> QED BY <2>1, <1>2, <1>4
<1>5. CASE a # 0
  <2>1. a \in 1..n /\ frames[a].at <= t
    BY <1>3, <1>5
  <2>2. slots[i].frame = frames[a].id /\ slots[i].frame # Absent
    BY <1>2, <1>5, <2>1 DEF FramesOf, Absent
  <2>3. ASSUME NEW k \in 1..n, frames[k].at <= t PROVE frames[k].at <= frames[a].at
    <3>1. k <= a
      BY <1>3, <2>3
    <3> DEFINE u == frames[a].at
    <3>2. u \in Nat /\ frames[a].at <= u /\ frames[a].at = u
      BY <2>1 DEF FramesOf
    <3> HIDE DEF u
    <3>3. ActiveIndex(frames, u) \in 0..n /\ \A l \in 1..n : frames[l].at <= u <=> l <= ActiveIndex(frames, u)
      BY <3>2, ActiveFacts DEF FramesOf
    <3>4. a <= ActiveIndex(frames, u)
      BY <3>2, <3>3, <2>1
    <3>5. k <= ActiveIndex(frames, u)
      BY <3>1, <3>3, <3>4, <2>1
    <3>6. frames[k].at <= u
      BY <3>3, <3>5
    <3> QED BY <3>2, <3>6
  <2> QED BY <2>1, <2>2, <2>3, <1>2
<1> QED BY <1>4, <1>5

(* The slots that count as distinct are as many as the frames shown.       *)
LEMMA EachFrameCountsOnce ==
  ASSUME NEW frames, NEW n \in Nat, FramesOf(frames, n),
         NEW m \in Nat \ {0}, NEW slots, slots = GridSlots(frames, m)
  PROVE  Cardinality({i \in DOMAIN slots : slots[i].distinct})
           = Cardinality({slots[i].frame : i \in DOMAIN slots} \ {Absent})
<1> DEFINE X == {i \in DOMAIN slots : slots[i].distinct}
           Y == {slots[i].frame : i \in DOMAIN slots} \ {Absent}
           a(i) == ActiveIndex(frames, SlotTime(i))
           f == [i \in X |-> slots[i].frame]
<1>1. DOMAIN slots = 1..m
  BY GridFields
<1>2. \A i \in 1..m : /\ slots[i].frame = IF a(i) = 0 THEN Absent ELSE frames[a(i)].id
                      /\ slots[i].distinct <=> a(i) > 0 /\ (i = 1 \/ a(i - 1) # a(i))
  BY GridFields
<1>3. \A i \in 1..m : a(i) \in 0..n
  <2> TAKE i \in 1..m
  <2> DEFINE t == SlotTime(i)
  <2>1. t \in Nat
    BY SlotTimes
  <2> HIDE DEF t
  <2>2. ActiveIndex(frames, t) \in 0..n
    BY <2>1, ActiveFacts DEF FramesOf
  <2> QED BY <2>2 DEF t
<1>4. ASSUME NEW i \in 1..m, NEW j \in 1..m, i <= j PROVE a(i) <= a(j)
  <2> DEFINE t == SlotTime(i)
             u == SlotTime(j)
  <2>1. t \in Nat /\ u \in Nat /\ t <= u
    BY <1>4, SlotTimes
  <2> HIDE DEF t, u
  <2>2. ActiveIndex(frames, t) <= ActiveIndex(frames, u)
    BY <2>1, ActiveGrows DEF FramesOf
  <2> QED BY <2>2 DEF t, u
<1> HIDE DEF a
<1>5. \A i \in 1..m : slots[i].frame # Absent <=> a(i) # 0
  <2> TAKE i \in 1..m
  <2>1. CASE a(i) = 0
    BY <2>1, <1>2
  <2>2. CASE a(i) # 0
    BY <2>2, <1>2, <1>3 DEF FramesOf, Absent
  <2> QED BY <2>1, <2>2
<1>6. \A i, j \in 1..m : slots[i].frame = slots[j].frame => a(i) = a(j)
  <2> SUFFICES ASSUME NEW i \in 1..m, NEW j \in 1..m, slots[i].frame = slots[j].frame PROVE a(i) = a(j)
    OBVIOUS
  <2>1. CASE a(i) = 0
    <3>1. ~(a(j) # 0)
      BY <2>1, <1>5
    <3> QED BY <3>1, <2>1
  <2>2. CASE a(i) # 0
    <3>1. a(j) # 0
      BY <2>2, <1>5
    <3>2. a(i) \in 1..n /\ a(j) \in 1..n
      BY <2>2, <3>1, <1>3
    <3>3. frames[a(i)].id = frames[a(j)].id
      BY <2>2, <3>1, <1>2
    <3> QED BY <3>2, <3>3 DEF FramesOf
  <2> QED BY <2>1, <2>2
<1>7. X \subseteq 1..m /\ \A i \in 1..m : i \in X <=> a(i) > 0 /\ (i = 1 \/ a(i - 1) # a(i))
  BY <1>1, <1>2
<1>8. \A y \in Y : \E i \in 1..m : slots[i].frame = y /\ y # Absent
  BY <1>1
<1>9. \A i \in X : slots[i].frame \in Y
  BY <1>1, <1>3, <1>5, <1>7
<1> HIDE DEF X, Y
<1>10. f \in [X -> Y] /\ \A i \in X : f[i] = slots[i].frame
  BY <1>9
<1> HIDE DEF f
<1>11. \A i, j \in X : f[i] = f[j] => i = j
  <2>1. ASSUME NEW i \in X, NEW j \in X, f[i] = f[j], i < j PROVE FALSE
    <3>1. i \in 1..m /\ j \in 1..m /\ slots[i].frame = slots[j].frame
      BY <2>1, <1>7, <1>10
    <3>2. a(i) = a(j)
      BY <3>1, <1>6
    <3>3. j - 1 \in 1..m /\ i <= j - 1 /\ j - 1 <= j /\ j # 1
      BY <2>1, <3>1
    <3>4. a(i) <= a(j - 1) /\ a(j - 1) <= a(j)
      BY <3>1, <3>3, <1>4
    <3>5. a(j - 1) = a(j)
      BY <3>1, <3>2, <3>3, <3>4, <1>3
    <3> QED BY <3>1, <3>3, <3>5, <1>7
  <2> SUFFICES ASSUME NEW i \in X, NEW j \in X, f[i] = f[j] PROVE i = j
    OBVIOUS
  <2>2. i \in Nat /\ j \in Nat
    BY <1>7
  <2>3. ~(i < j) /\ ~(j < i)
    BY <2>1
  <2> QED BY <2>2, <2>3
<1>12. \A y \in Y : \E i \in X : f[i] = y
  <2> TAKE y \in Y
  <2> DEFINE S == {i \in 1..m : slots[i].frame = y}
  <2>1. S # {} /\ S \subseteq Nat /\ y # Absent
    BY <1>8
  <2> HIDE DEF S
  <2>2. PICK i \in S : \A k \in S : i <= k
    BY <2>1, LeastNumber
  <2>3. i \in 1..m /\ slots[i].frame = y
    BY DEF S
  <2>4. a(i) > 0
    BY <2>1, <2>3, <1>3, <1>5
  <2>5. i = 1 \/ a(i - 1) # a(i)
    <3> SUFFICES ASSUME i # 1, a(i - 1) = a(i) PROVE FALSE
      OBVIOUS
    <3>1. i - 1 \in 1..m
      BY <2>3
    <3>2. slots[i - 1].frame = y
      BY <3>1, <2>3, <1>2
    <3>3. i - 1 \in S
      BY <3>1, <3>2 DEF S
    <3> QED BY <3>1, <3>3, <2>2, <2>3
  <2>6. i \in X
    BY <2>3, <2>4, <2>5, <1>7
  <2> QED BY <2>3, <2>6, <1>10
<1>13. f \in Bijection(X, Y)
  BY <1>10, <1>11, <1>12 DEF Bijection, Injection, Surjection, IsInjective
<1>14. ExistsBijection(X, Y)
  BY <1>13 DEF ExistsBijection
<1>15. IsFiniteSet(X)
  <2>1. IsFiniteSet(1..m)
    BY FS_Interval
  <2> QED BY <2>1, <1>7, FS_Subset
<1>16. Cardinality(Y) = Cardinality(X)
  BY <1>14, <1>15, FS_Bijection
<1> QED BY <1>16 DEF X, Y

(* A list of n elements has length n.                                      *)
LEMMA LengthOf ==
  ASSUME NEW n \in Nat, NEW s, s = [i \in 1..n |-> s[i]]
  PROVE  Len(s) = n
<1> DEFINE S == {s[i] : i \in 1..n}
<1>1. \A i \in 1..n : s[i] \in S
  OBVIOUS
<1> HIDE DEF S
<1> QED BY <1>1, IsASeqOf

(* A frame of a stream that fits has a hash of its own, so an id of its    *)
(* own.                                                                    *)
LEMMA CompiledFrames ==
  ASSUME NEW events, StreamTyped(events), NEW hashes, StreamFits(events, hashes)
  PROVE  LET frames == OfType(events, "frame") IN Len(frames) \in Nat /\ FramesOf(frames, Len(frames))
<1> DEFINE frames == OfType(events, "frame")
           n == Len(frames)
           f == [k \in 1..n |-> [id |-> frames[k].id, image |-> frames[k].image]]
<1>1. n \in Nat /\ DOMAIN frames = 1..n /\ \A k \in 1..n : frames[k] \in ToSet(events) /\ frames[k].type = "frame"
  BY OfTypeFacts
<1>2. /\ \A g, h \in hashes : g.id = h.id => g = h
      /\ {[id |-> frames[i].id, image |-> frames[i].image] : i \in DOMAIN frames} = hashes
      /\ Cardinality(hashes) = n
      /\ Rising(Times(frames))
  BY DEF StreamFits
<1> HIDE DEF frames, n
<1>3. \A k \in 1..n : frames[k].at \in Nat /\ frames[k].id \in Nat
  BY <1>1 DEF StreamTyped
<1>4. \A k \in 1..n : f[k] \in hashes /\ f[k].id = frames[k].id
  BY <1>1, <1>2
<1>5. \A h \in hashes : \E k \in 1..n : f[k] = h
  BY <1>1, <1>2
<1>6. f \in Surjection(1..n, hashes)
  BY <1>4, <1>5 DEF Surjection
<1>7. f = [k \in 1..n |-> f[k]]
  OBVIOUS
<1> HIDE DEF f
<1>8. IsFiniteSet(1..n) /\ Cardinality(1..n) = n
  BY <1>1, CountTo
<1>9. f \in Injection(1..n, hashes)
  <2>1. Cardinality(hashes) = Cardinality(1..n)
    BY <1>2, <1>8
  <2> QED BY <2>1, <1>6, <1>8, FS_Surjection
<1>10. \A j, k \in 1..n : f[j] = f[k] => j = k
  BY <1>9 DEF Injection, IsInjective
<1>11. ASSUME NEW j \in 1..n, NEW k \in 1..n, frames[j].id = frames[k].id PROVE j = k
  BY <1>2, <1>4, <1>10, <1>11
<1>12. FramesOf(frames, n)
  BY <1>1, <1>2, <1>3, <1>11 DEF n, FramesOf
<1> QED BY <1>1, <1>12 DEF n, frames

GridOf(events, slots, status) ==
  LET frames == OfType(events, "frame")
      Frame(i) == CHOOSE k \in DOMAIN frames : frames[k].id = slots[i].frame
  IN  /\ Last(slots).at <= Last(events).at
      /\ Last(events).at * Fps < Last(slots).at * Fps + Fps + Second
      /\ \A i \in DOMAIN slots :
           IF slots[i].frame = Absent
             THEN status = "blocked" /\ \A k \in DOMAIN frames : frames[k].at > slots[i].at
             ELSE /\ frames[Frame(i)].at <= slots[i].at
                  /\ \A k \in DOMAIN frames : frames[k].at <= slots[i].at => frames[k].at <= frames[Frame(i)].at
      /\ Cardinality({i \in DOMAIN slots : slots[i].distinct})
           = Cardinality({slots[i].frame : i \in DOMAIN slots} \ {Absent})

(* The slots of a compiled stream, as the property reads them.             *)
LEMMA CompiledGrid ==
  ASSUME NEW events, StreamTyped(events), NEW hashes, StreamFits(events, hashes),
         NEW slots, slots = FrameGrid(OfType(events, "frame"), Last(events).at + 1)
  PROVE  GridOf(events, slots, Verdict(events, slots))
<1> DEFINE frames == OfType(events, "frame")
           n == Len(frames)
           last == Last(events).at
           m == ((last + 1) * Fps + Second - 1) \div Second
           Frame(i) == CHOOSE k \in DOMAIN frames : frames[k].id = slots[i].frame
<1>1. n \in Nat /\ FramesOf(frames, n)
  BY CompiledFrames
<1>2. last \in Nat
  <2>1. events \in Seq(ToSet(events)) /\ events # <<>>
    BY DEF StreamTyped, StreamFits
  <2>2. Len(events) \in 1..Len(events) /\ DOMAIN events = 1..Len(events)
    BY <2>1
  <2>3. events[Len(events)] \in ToSet(events)
    BY <2>2 DEF ToSet
  <2> QED BY <2>3 DEF StreamTyped, Last
<1>3. slots = GridSlots(frames, m)
  BY DEF FrameGrid, GridSlots
<1> HIDE DEF frames, n, last
<1>4. m \in Nat \ {0} /\ SlotTime(m) <= last /\ last * Fps < SlotTime(m) * Fps + Fps + Second
  BY <1>2, LastSlotTime
<1> HIDE DEF m
<1>5. DOMAIN slots = 1..m /\ \A i \in 1..m : slots[i].at = SlotTime(i)
  BY <1>3, <1>4, GridFields
<1>6. Len(slots) = m
  <2>1. slots = [i \in 1..m |-> slots[i]]
    <3>1. GridSlots(frames, m) = [i \in 1..m |-> GridSlots(frames, m)[i]]
      BY DEF GridSlots
    <3> QED BY <3>1, <1>3
  <2> QED BY <2>1, <1>4, LengthOf
<1>7. Last(slots).at <= last /\ last * Fps < Last(slots).at * Fps + Fps + Second
  <2>1. m \in 1..m
    BY <1>4
  <2>2. Last(slots).at = SlotTime(m)
    BY <2>1, <1>5, <1>6 DEF Last
  <2> QED BY <2>2, <1>4
<1>8. DOMAIN frames = 1..n /\ \A j, k \in 1..n : frames[j].id = frames[k].id => j = k
  BY <1>1 DEF FramesOf
<1>9. ASSUME NEW i \in 1..m
      PROVE  IF slots[i].frame = Absent
             THEN Verdict(events, slots) = "blocked" /\ \A k \in DOMAIN frames : frames[k].at > slots[i].at
             ELSE /\ frames[Frame(i)].at <= slots[i].at
                  /\ \A k \in DOMAIN frames : frames[k].at <= slots[i].at => frames[k].at <= frames[Frame(i)].at
  <2>1. \/ slots[i].frame = Absent /\ \A k \in 1..n : frames[k].at > slots[i].at
        \/ \E a \in 1..n : /\ slots[i].frame = frames[a].id /\ slots[i].frame # Absent
                           /\ frames[a].at <= slots[i].at
                           /\ \A k \in 1..n : frames[k].at <= slots[i].at => frames[k].at <= frames[a].at
    BY <1>1, <1>3, <1>4, SlotsShowTheLatest
  <2>2. CASE slots[i].frame = Absent
    <3>1. Verdict(events, slots) = "blocked"
      BY <2>2, <1>5 DEF Verdict
    <3> QED BY <3>1, <2>1, <2>2, <1>8
  <2>3. CASE slots[i].frame # Absent
    <3>1. PICK a \in 1..n : /\ slots[i].frame = frames[a].id
                            /\ frames[a].at <= slots[i].at
                            /\ \A k \in 1..n : frames[k].at <= slots[i].at => frames[k].at <= frames[a].at
      BY <2>1, <2>3
    <3>2. Frame(i) = a
      BY <3>1, <1>8
    <3> HIDE DEF Frame
    <3> QED BY <3>1, <3>2, <2>3, <1>8
  <2> QED BY <2>2, <2>3
<1>10. Cardinality({i \in DOMAIN slots : slots[i].distinct})
         = Cardinality({slots[i].frame : i \in DOMAIN slots} \ {Absent})
  BY <1>1, <1>3, <1>4, EachFrameCountsOnce
<1> QED BY <1>5, <1>7, <1>9, <1>10, Zenon DEF GridOf, frames, last

CandidateType == [seq : DOMAIN Collation, at : Nat, kind : {"marker", "click", "scroll"}]

(* The zoom candidates are finitely many, and each has its own number.     *)
LEMMA CandidateFacts ==
  ASSUME NEW events, StreamTyped(events), Rising([i \in DOMAIN events |-> events[i].seq])
  PROVE  LET C == ZoomCandidates(events) IN
         /\ C \subseteq CandidateType /\ IsFiniteSet(C)
         /\ \A c, d \in C : c.seq = d.seq => c = d
<1> DEFINE n == Len(events)
           Known(i) == \E k \in 1..(i - 1) : events[k].type \in {"pointer", "click"}
           S == {k \in DOMAIN events : \/ events[k].type \in {"click", "scroll"}
                                       \/ events[k].type = "marker" /\ Known(k)}
           c(i) == [seq |-> events[i].seq, at |-> events[i].at, kind |-> events[i].type]
           C == {c(i) : i \in S}
           s == [i \in DOMAIN events |-> events[i].seq]
           f == [i \in S |-> c(i)]
<1>1. n \in Nat /\ DOMAIN events = 1..n
  BY DEF StreamTyped
<1>2. \A i \in 1..n : events[i] \in ToSet(events)
  BY <1>1 DEF ToSet
<1>3. \A i \in 1..n : events[i].seq \in DOMAIN Collation /\ events[i].at \in Nat
  BY <1>2 DEF StreamTyped
<1>4. \A i \in S : i \in 1..n /\ events[i].type \in {"marker", "click", "scroll"}
  BY <1>1
<1>5. S \subseteq 1..n
  BY <1>4
<1>6. ZoomCandidates(events) = C
  BY DEF ZoomCandidates
<1>7. \A i, j \in 1..n : events[i].seq = events[j].seq => i = j
  <2>1. s = [i \in 1..n |-> events[i].seq] /\ Rising(s)
    BY <1>1
  <2>2. \A i \in 1..n : s[i] = events[i].seq /\ s[i] \in Nat
    BY <2>1, <1>3, TimelineConstants, SecondAssumption
  <2>3. s = [i \in 1..n |-> s[i]]
    BY <2>1
  <2> HIDE DEF s, n
  <2>4. Len(s) = n
    BY <2>3, <1>1, LengthOf
  <2>5. \A i, j \in 1..n : i < j => s[i] < s[j]
    BY <2>1, <2>2, <2>4, <1>1, RisingFar
  <2>6. ASSUME NEW i \in 1..n, NEW j \in 1..n, events[i].seq = events[j].seq PROVE i = j
    <3>1. s[i] = s[j] /\ s[i] \in Nat
      BY <2>2, <2>6
    <3>2. ~(i < j) /\ ~(j < i)
      BY <3>1, <2>5
    <3> QED BY <3>2
  <2> QED BY <2>6
<1> HIDE DEF S, n, s
<1>8. \A i \in S : c(i) \in CandidateType /\ c(i).seq = events[i].seq
  BY <1>3, <1>4 DEF CandidateType
<1> HIDE DEF c
<1>9. C \subseteq CandidateType
  BY <1>8
<1>10. f \in Surjection(S, C)
  BY DEF Surjection
<1>11. IsFiniteSet(S)
  <2>1. IsFiniteSet(1..n)
    BY <1>1, FS_Interval
  <2> QED BY <2>1, <1>5, FS_Subset
<1>12. \A x, y \in C : x.seq = y.seq => x = y
  <2> SUFFICES ASSUME NEW x \in C, NEW y \in C, x.seq = y.seq PROVE x = y
    OBVIOUS
  <2>1. PICK i \in S : x = c(i)
    OBVIOUS
  <2>2. PICK j \in S : y = c(j)
    OBVIOUS
  <2>3. events[i].seq = events[j].seq
    BY <2>1, <2>2, <1>8
  <2> QED BY <2>1, <2>2, <2>3, <1>7, <1>5
<1> HIDE DEF f, C
<1>13. IsFiniteSet(C)
  BY <1>10, <1>11, FS_Surjection
<1> QED BY <1>6, <1>9, <1>12, <1>13

(* Candidates are ranked strictly: by score, then by the order of ids.     *)
LEMMA ScoreFacts == \A k \in {"marker", "click", "scroll"} : Score[k] \in Nat
BY DEF Score

LEMMA OutranksStrictly ==
  ASSUME NEW C, C \subseteq CandidateType, \A c, d \in C : c.seq = d.seq => c = d,
         NEW R, R = {z \in C \X C : Outranks(z[1], z[2])}
  PROVE  StrictOrder(C, R)
<1>1. \A x, y \in C : <<x, y>> \in R <=> Outranks(x, y)
  OBVIOUS
<1>2. \A x \in C : x.kind \in {"marker", "click", "scroll"} /\ x.seq \in DOMAIN Collation
  BY DEF CandidateType
<1>3. \A x \in C : Score[x.kind] \in Nat /\ Collation[x.seq] \in Nat
  BY <1>2, ScoreFacts, TimelineConstants, SecondAssumption
<1>4. \A x, y \in C : Collation[x.seq] = Collation[y.seq] => x = y
  BY <1>2, TimelineConstants, SecondAssumption
<1>5. \A x \in C : <<x, x>> \notin R
  BY <1>1, <1>3 DEF Outranks
<1>6. \A x, y, z \in C : <<x, y>> \in R /\ <<y, z>> \in R => <<x, z>> \in R
  BY <1>1, <1>3 DEF Outranks
<1>7. \A x, y \in C : x # y => <<x, y>> \in R \/ <<y, x>> \in R
  BY <1>1, <1>3, <1>4 DEF Outranks
<1> QED BY <1>5, <1>6, <1>7, Zenon DEF StrictOrder

(* The ranking names every candidate once, the higher ones first.          *)
IsRanking(r, n, C) ==
  /\ \A i \in 1..n : r[i] \in C
  /\ \A c \in C : \E i \in 1..n : r[i] = c
  /\ \A i, j \in 1..n : i < j => Score[r[i].kind] >= Score[r[j].kind] /\ r[i] # r[j]

LEMMA RankedFacts ==
  ASSUME NEW C, C \subseteq CandidateType, IsFiniteSet(C), \A c, d \in C : c.seq = d.seq => c = d
  PROVE  Len(Ranked(C)) \in Nat /\ IsRanking(Ranked(C), Len(Ranked(C)), C)
<1> DEFINE n == Cardinality(C)
           r == Ranked(C)
<1>a. PICK R : R = {z \in C \X C : Outranks(z[1], z[2])}
  OBVIOUS
<1>1. \A x, y \in C : <<x, y>> \in R <=> Outranks(x, y)
  BY <1>a
<1>2. StrictOrder(C, R)
  BY <1>a, OutranksStrictly
<1>3. n \in Nat /\ \A x \in C : Rank(C, R, x) \in 0..(n - 1)
  BY <1>2, RanksGrow
<1>4. \A x, y \in C : <<x, y>> \in R <=> Rank(C, R, x) < Rank(C, R, y)
  BY <1>2, RanksGrow
<1>5. \A i \in 0..(n - 1) : \E x \in C : Rank(C, R, x) = i
  BY <1>2, EveryRankTaken
<1>6. \A x \in C : Cardinality({b \in C : Outranks(b, x)}) = Rank(C, R, x)
  <2> TAKE x \in C
  <2>1. Below(C, R, x) = {b \in C : Outranks(b, x)}
    BY <1>1 DEF Below
  <2> QED BY <2>1 DEF Rank
<1> DEFINE v(i) == CHOOSE c \in C : Cardinality({b \in C : Outranks(b, c)}) = i - 1
<1>7. r = [i \in 1..n |-> v(i)]
  BY DEF Ranked
<1>8. \A i \in 1..n : v(i) \in C /\ Rank(C, R, v(i)) = i - 1
  <2> TAKE i \in 1..n
  <2>1. i - 1 \in 0..(n - 1)
    BY <1>3
  <2>2. \E x \in C : Cardinality({b \in C : Outranks(b, x)}) = i - 1
    BY <2>1, <1>5, <1>6
  <2>3. v(i) \in C /\ Cardinality({b \in C : Outranks(b, v(i))}) = i - 1
    BY <2>2
  <2> HIDE DEF v
  <2> QED BY <2>3, <1>6
<1> HIDE DEF v, r, n
<1>9. \A i \in 1..n : r[i] \in C /\ Rank(C, R, r[i]) = i - 1
  BY <1>7, <1>8
<1>10. Len(r) = n
  <2>1. r = [i \in 1..n |-> r[i]]
    BY <1>7
  <2> QED BY <2>1, <1>3, LengthOf
<1>11. \A c \in C : \E i \in 1..n : r[i] = c
  <2> TAKE c \in C
  <2> DEFINE k == Rank(C, R, c)
  <2>1. k \in 0..(n - 1)
    BY <1>3
  <2>2. k + 1 \in 1..n
    BY <2>1, <1>3
  <2>3. r[k + 1] \in C /\ Rank(C, R, r[k + 1]) = k
    BY <2>1, <2>2, <1>9
  <2>4. ~(<<c, r[k + 1]>> \in R) /\ ~(<<r[k + 1], c>> \in R)
    <3>1. Rank(C, R, c) = Rank(C, R, r[k + 1]) /\ k \in Int
      BY <2>1, <2>3
    <3> HIDE DEF k
    <3> QED BY <3>1, <2>3, <1>4, <1>3
  <2>5. r[k + 1] = c
    BY <2>3, <2>4, <1>2 DEF StrictOrder
  <2> QED BY <2>2, <2>5
<1>12. ASSUME NEW i \in 1..n, NEW j \in 1..n, i < j
       PROVE  Score[r[i].kind] >= Score[r[j].kind] /\ r[i] # r[j]
  <2>1. r[i] \in C /\ r[j] \in C /\ Rank(C, R, r[i]) < Rank(C, R, r[j])
    BY <1>9, <1>12
  <2>2. Outranks(r[i], r[j])
    BY <2>1, <1>1, <1>4
  <2>3. Score[r[i].kind] \in Nat /\ Score[r[j].kind] \in Nat
    BY <2>1, ScoreFacts DEF CandidateType
  <2>4. Score[r[i].kind] >= Score[r[j].kind]
    BY <2>2, <2>3 DEF Outranks
  <2>5. r[i] # r[j]
    BY <1>9, <1>12
  <2> QED BY <2>4, <2>5
<1> QED BY <1>3, <1>9, <1>10, <1>11, <1>12 DEF IsRanking, r

ZoomType(C) == [zoom : C, wonAgainst : SUBSET C]

(* What the selection owes to the first k of the ranked candidates.        *)
Settles(m, r, k) ==
  /\ \A a, b \in 1..Len(m) : a # b => Abs(m[a].zoom.at - m[b].zoom.at) >= Separation
  /\ \A i \in 1..k : \/ \E a \in 1..Len(m) : m[a].zoom = r[i]
                     \/ \E a \in 1..Len(m) : \A b \in 1..Len(m) : r[i] \in m[b].wonAgainst <=> b = a
  /\ \A a \in 1..Len(m) :
       /\ \E i \in 1..k : m[a].zoom = r[i]
       /\ \A c \in m[a].wonAgainst :
            /\ \E i \in 1..k : c = r[i]
            /\ Near(m[a].zoom, c) /\ Score[m[a].zoom.kind] >= Score[c.kind]

(* A candidate that meets zooms meets a first one.                         *)
LEMMA FirstRival ==
  ASSUME NEW rivals, rivals \subseteq Nat, rivals # {}
  PROVE  (CHOOSE j \in rivals : \A k \in rivals : j <= k) \in rivals
<1>1. \E j \in rivals : \A k \in rivals : j <= k
  BY LeastNumber
<1> QED BY <1>1

(* Numbered elements make a sequence.                                      *)
LEMMA FunctionIsSeq ==
  ASSUME NEW S, NEW n \in Nat, NEW s \in [1..n -> S]
  PROVE  s \in Seq(S) /\ Len(s) = n
OBVIOUS

(* Only the zoom that wins is changed, by the candidate it won against.    *)
LEMMA WonOnce ==
  ASSUME NEW C, NEW m \in Seq(ZoomType(C)), NEW f \in 1..Len(m), NEW c \in C,
         NEW s, s = [m EXCEPT ![f].wonAgainst = @ \cup {c}]
  PROVE  /\ s \in Seq(ZoomType(C)) /\ Len(s) = Len(m)
         /\ \A a \in 1..Len(m) : /\ s[a].zoom = m[a].zoom
                                 /\ a # f => s[a].wonAgainst = m[a].wonAgainst
         /\ s[f].wonAgainst = m[f].wonAgainst \cup {c}
<1> DEFINE n == Len(m)
           w == m[f].wonAgainst \cup {c}
           x == [m[f] EXCEPT !.wonAgainst = w]
<1>1. n \in Nat /\ m \in [1..n -> ZoomType(C)]
  OBVIOUS
<1>2. m[f] \in ZoomType(C)
  BY <1>1
<1>3. w \in SUBSET C
  BY <1>2 DEF ZoomType
<1>4. s = [m EXCEPT ![f] = x]
  OBVIOUS
<1> HIDE DEF w
<1>5. x \in ZoomType(C) /\ x.zoom = m[f].zoom /\ x.wonAgainst = w
  BY <1>2, <1>3 DEF ZoomType
<1> HIDE DEF x, n
<1>6. s \in [1..n -> ZoomType(C)] /\ s[f] = x /\ \A a \in 1..n : a # f => s[a] = m[a]
  BY <1>1, <1>4, <1>5 DEF n
<1>7. s \in Seq(ZoomType(C)) /\ Len(s) = n
  <2>1. n \in Nat
    BY <1>1
  <2> QED BY <2>1, <1>6, FunctionIsSeq, Zenon
<1>8. \A a \in 1..n : s[a].zoom = m[a].zoom
  BY <1>5, <1>6
<1> QED BY <1>5, <1>6, <1>7, <1>8 DEF n, w

(* A selection stays one whatever is considered next.                      *)
LEMMA ConsiderType ==
  ASSUME NEW C, C \subseteq CandidateType, NEW m \in Seq(ZoomType(C)), NEW c \in C
  PROVE  Consider(m, c) \in Seq(ZoomType(C))
<1> DEFINE rivals == {j \in DOMAIN m : Near(m[j].zoom, c)}
           f == CHOOSE j \in rivals : \A k \in rivals : j <= k
<1>a. Consider(m, c) = IF rivals = {} THEN Append(m, [zoom |-> c, wonAgainst |-> {}])
                       ELSE [m EXCEPT ![f].wonAgainst = @ \cup {c}]
  BY DEF Consider
<1>b. rivals = {j \in DOMAIN m : Near(m[j].zoom, c)}
  OBVIOUS
<1> HIDE DEF rivals
<1>1. CASE rivals = {}
  <2> DEFINE x == [zoom |-> c, wonAgainst |-> {}]
  <2>1. Consider(m, c) = Append(m, x)
    BY <1>1, <1>a
  <2>2. x \in ZoomType(C)
    BY DEF ZoomType
  <2> HIDE DEF x
  <2> QED BY <2>1, <2>2, AppendProperties
<1>2. CASE rivals # {}
  <2>1. f \in rivals
    <3>1. rivals \subseteq Nat
      BY <1>b
    <3> QED BY <3>1, <1>2, FirstRival
  <2>2. f \in 1..Len(m)
    BY <2>1, <1>b
  <2>3. Consider(m, c) = [m EXCEPT ![f].wonAgainst = @ \cup {c}]
    BY <1>2, <1>a
  <2> HIDE DEF f
  <2>4. PICK s : s = [m EXCEPT ![f].wonAgainst = @ \cup {c}]
    OBVIOUS
  <2>5. s \in Seq(ZoomType(C))
    BY <2>2, <2>4, WonOnce
  <2> QED BY <2>3, <2>4, <2>5
<1> QED BY <1>1, <1>2

(* Considering the next candidate settles it, and leaves the ones before   *)
(* as they were settled.                                                   *)
LEMMA ConsiderSettles ==
  ASSUME NEW C, C \subseteq CandidateType, NEW r, NEW n \in Nat, IsRanking(r, n, C),
         NEW k \in 1..n, NEW m \in Seq(ZoomType(C)), Settles(m, r, k - 1)
  PROVE  Settles(Consider(m, r[k]), r, k)
<1> DEFINE c == r[k]
           s == Consider(m, c)
           rivals == {j \in DOMAIN m : Near(m[j].zoom, c)}
           f == CHOOSE j \in rivals : \A l \in rivals : j <= l
           L == Len(m)
<1>1. c \in C /\ \A i \in 1..(k - 1) : Score[r[i].kind] >= Score[c.kind] /\ r[i] # c
  BY DEF IsRanking
<1>2. /\ \A a, b \in 1..L : a # b => Abs(m[a].zoom.at - m[b].zoom.at) >= Separation
      /\ \A i \in 1..(k - 1) : \/ \E a \in 1..L : m[a].zoom = r[i]
                               \/ \E a \in 1..L : \A b \in 1..L : r[i] \in m[b].wonAgainst <=> b = a
      /\ \A a \in 1..L :
           /\ \E i \in 1..(k - 1) : m[a].zoom = r[i]
           /\ \A d \in m[a].wonAgainst :
                /\ \E i \in 1..(k - 1) : d = r[i]
                /\ Near(m[a].zoom, d) /\ Score[m[a].zoom.kind] >= Score[d.kind]
  BY DEF Settles
<1>3. L \in Nat /\ DOMAIN m = 1..L /\ \A a \in 1..L : m[a] \in ZoomType(C)
  OBVIOUS
<1>4. \A a \in 1..L : m[a].zoom.at \in Nat
  BY <1>3 DEF ZoomType, CandidateType
<1>5. c.at \in Nat
  BY <1>1 DEF CandidateType
<1>6. \A a \in 1..L : c \notin m[a].wonAgainst
  BY <1>1, <1>2
<1>7. \A i \in 1..k : i \in 1..(k - 1) \/ i = k
  OBVIOUS
<1>8. \A i \in 1..(k - 1) : i \in 1..k
  OBVIOUS
<1>9. k \in 1..k
  OBVIOUS
<1>a. s = IF rivals = {} THEN Append(m, [zoom |-> c, wonAgainst |-> {}])
          ELSE [m EXCEPT ![f].wonAgainst = @ \cup {c}]
  BY DEF Consider
<1>b. rivals = {j \in DOMAIN m : Near(m[j].zoom, c)}
  OBVIOUS
<1> HIDE DEF c, L, rivals
<1>10. CASE rivals = {}
  <2> DEFINE x == [zoom |-> c, wonAgainst |-> {}]
  <2>1. s = Append(m, x)
    BY <1>10, <1>a
  <2>2. x \in ZoomType(C) /\ x.zoom = c /\ x.wonAgainst = {}
    BY <1>1 DEF ZoomType
  <2> HIDE DEF x, s
  <2>3. Len(s) = L + 1 /\ s[L + 1] = x /\ \A a \in 1..L : s[a] = m[a]
    BY <2>1, <2>2, AppendProperties DEF L
  <2>4. \A a \in 1..Len(s) : a \in 1..L \/ a = L + 1
    BY <2>3, <1>3
  <2>5. \A a \in 1..L : a \in 1..Len(s) /\ a # L + 1
    BY <2>3, <1>3
  <2>6. L + 1 \in 1..Len(s)
    BY <2>3, <1>3
  <2>7. \A a \in 1..L : Abs(m[a].zoom.at - c.at) >= Separation /\ Abs(c.at - m[a].zoom.at) >= Separation
    <3> TAKE a \in 1..L
    <3>1. ~Near(m[a].zoom, c)
      BY <1>10, <1>3, <1>b
    <3>2. Separation \in Nat
      BY TimelineConstants, SecondAssumption
    <3> DEFINE p == m[a].zoom.at
               q == c.at
    <3>3. p \in Nat /\ q \in Nat
      BY <1>4, <1>5
    <3>4. ~(Abs(p - q) < Separation)
      BY <3>1 DEF Near
    <3> HIDE DEF p, q
    <3>5. Abs(p - q) >= Separation /\ Abs(q - p) >= Separation
      BY <3>2, <3>3, <3>4 DEF Abs
    <3> QED BY <3>5 DEF p, q
  <2>8. \A a, b \in 1..Len(s) : a # b => Abs(s[a].zoom.at - s[b].zoom.at) >= Separation
    <3> SUFFICES ASSUME NEW a \in 1..Len(s), NEW b \in 1..Len(s), a # b
                 PROVE  Abs(s[a].zoom.at - s[b].zoom.at) >= Separation
      OBVIOUS
    <3>1. CASE a \in 1..L /\ b \in 1..L
      <4>1. s[a] = m[a] /\ s[b] = m[b]
        BY <3>1, <2>3
      <4>2. Abs(m[a].zoom.at - m[b].zoom.at) >= Separation
        BY <3>1, <1>2
      <4> QED BY <4>1, <4>2
    <3>2. CASE a \in 1..L /\ b = L + 1
      <4>1. s[a] = m[a] /\ s[b].zoom = c
        BY <3>2, <2>2, <2>3
      <4>2. Abs(m[a].zoom.at - c.at) >= Separation
        BY <3>2, <2>7
      <4> QED BY <4>1, <4>2
    <3>3. CASE a = L + 1 /\ b \in 1..L
      <4>1. s[b] = m[b] /\ s[a].zoom = c
        BY <3>3, <2>2, <2>3
      <4>2. Abs(c.at - m[b].zoom.at) >= Separation
        BY <3>3, <2>7
      <4> QED BY <4>1, <4>2
    <3> QED BY <3>1, <3>2, <3>3, <2>4
  <2>9. ASSUME NEW i \in 1..k
        PROVE  \/ \E a \in 1..Len(s) : s[a].zoom = r[i]
               \/ \E a \in 1..Len(s) : \A b \in 1..Len(s) : r[i] \in s[b].wonAgainst <=> b = a
    <3>1. CASE i = k
      <4>1. s[L + 1].zoom = r[i]
        BY <3>1, <2>2, <2>3 DEF c
      <4> QED BY <4>1, <2>6
    <3>2. CASE i \in 1..(k - 1)
      <4>1. CASE \E a \in 1..L : m[a].zoom = r[i]
        <5>1. PICK a \in 1..L : m[a].zoom = r[i]
          BY <4>1
        <5>2. s[a].zoom = r[i] /\ a \in 1..Len(s)
          BY <5>1, <2>3, <2>5
        <5> QED BY <5>2
      <4>2. CASE \E a \in 1..L : \A b \in 1..L : r[i] \in m[b].wonAgainst <=> b = a
        <5>1. PICK a \in 1..L : \A b \in 1..L : r[i] \in m[b].wonAgainst <=> b = a
          BY <4>2
        <5>2. a \in 1..Len(s) /\ a # L + 1
          BY <2>5
        <5>3. ASSUME NEW b \in 1..Len(s) PROVE r[i] \in s[b].wonAgainst <=> b = a
          <6>1. CASE b \in 1..L
            BY <6>1, <5>1, <2>3
          <6>2. CASE b = L + 1
            BY <6>2, <5>2, <2>2, <2>3
          <6> QED BY <6>1, <6>2, <2>4
        <5> QED BY <5>2, <5>3
      <4> QED BY <4>1, <4>2, <3>2, <1>2
    <3> QED BY <3>1, <3>2, <1>7
  <2>10. ASSUME NEW a \in 1..Len(s)
         PROVE  /\ \E i \in 1..k : s[a].zoom = r[i]
                /\ \A d \in s[a].wonAgainst :
                     /\ \E i \in 1..k : d = r[i]
                     /\ Near(s[a].zoom, d) /\ Score[s[a].zoom.kind] >= Score[d.kind]
    <3>1. CASE a \in 1..L
      <4>1. s[a] = m[a]
        BY <3>1, <2>3
      <4> QED BY <3>1, <4>1, <1>2, <1>8
    <3>2. CASE a = L + 1
      <4>1. s[a].zoom = r[k] /\ s[a].wonAgainst = {}
        BY <3>2, <2>2, <2>3 DEF c
      <4> QED BY <4>1, <1>9
    <3> QED BY <3>1, <3>2, <2>4
  <2>11. Settles(s, r, k)
    BY <2>8, <2>9, <2>10 DEF Settles
  <2> QED BY <2>11 DEF s, c
<1>11. CASE rivals # {}
  <2>1. f \in rivals
    <3>1. rivals \subseteq Nat
      BY <1>b
    <3> QED BY <3>1, <1>11, FirstRival
  <2>2. f \in 1..L /\ Near(m[f].zoom, c)
    BY <2>1, <1>3, <1>b
  <2>3. s = [m EXCEPT ![f].wonAgainst = @ \cup {c}]
    BY <1>11, <1>a
  <2> HIDE DEF f, s
  <2>4. /\ Len(s) = L
        /\ \A a \in 1..L : /\ s[a].zoom = m[a].zoom
                           /\ a # f => s[a].wonAgainst = m[a].wonAgainst
        /\ s[f].wonAgainst = m[f].wonAgainst \cup {c}
    BY <2>2, <2>3, <1>1, WonOnce DEF L
  <2>5. \A a, b \in 1..L : a # b => Abs(s[a].zoom.at - s[b].zoom.at) >= Separation
    BY <1>2, <2>4
  <2>6. \A a \in 1..L : c \in s[a].wonAgainst <=> a = f
    <3> TAKE a \in 1..L
    <3>1. a # f => c \notin s[a].wonAgainst
      BY <2>4, <1>6
    <3> QED BY <3>1, <2>4
  <2>7. \A a \in 1..L : \A d : d # c => (d \in s[a].wonAgainst <=> d \in m[a].wonAgainst)
    <3> TAKE a \in 1..L
    <3>1. CASE a = f
      BY <3>1, <2>4
    <3>2. CASE a # f
      BY <3>2, <2>4
    <3> QED BY <3>1, <3>2
  <2>8. ASSUME NEW i \in 1..k
        PROVE  \/ \E a \in 1..L : s[a].zoom = r[i]
               \/ \E a \in 1..L : \A b \in 1..L : r[i] \in s[b].wonAgainst <=> b = a
    <3>1. CASE i = k
      <4>1. \A b \in 1..L : r[i] \in s[b].wonAgainst <=> b = f
        BY <3>1, <2>6 DEF c
      <4> QED BY <4>1, <2>2
    <3>2. CASE i \in 1..(k - 1)
      <4>1. r[i] # c
        BY <3>2, <1>1
      <4>2. CASE \E a \in 1..L : m[a].zoom = r[i]
        BY <4>2, <2>4
      <4>3. CASE \E a \in 1..L : \A b \in 1..L : r[i] \in m[b].wonAgainst <=> b = a
        <5>1. PICK a \in 1..L : \A b \in 1..L : r[i] \in m[b].wonAgainst <=> b = a
          BY <4>3
        <5>2. \A b \in 1..L : r[i] \in s[b].wonAgainst <=> b = a
          BY <5>1, <4>1, <2>7
        <5> QED BY <5>2
      <4> QED BY <4>2, <4>3, <3>2, <1>2
    <3> QED BY <3>1, <3>2, <1>7
  <2>9. ASSUME NEW a \in 1..L
        PROVE  /\ \E i \in 1..k : s[a].zoom = r[i]
               /\ \A d \in s[a].wonAgainst :
                    /\ \E i \in 1..k : d = r[i]
                    /\ Near(s[a].zoom, d) /\ Score[s[a].zoom.kind] >= Score[d.kind]
    <3>1. s[a].zoom = m[a].zoom
      BY <2>4
    <3>2. PICK j \in 1..(k - 1) : m[a].zoom = r[j]
      BY <1>2
    <3>3. ASSUME NEW d \in s[a].wonAgainst
          PROVE  /\ \E i \in 1..k : d = r[i]
                 /\ Near(s[a].zoom, d) /\ Score[s[a].zoom.kind] >= Score[d.kind]
      <4>1. CASE d = c
        <5>1. a = f
          BY <4>1, <3>3, <2>6
        <5>2. Near(s[a].zoom, d)
          BY <5>1, <4>1, <3>1, <2>2
        <5>3. Score[s[a].zoom.kind] >= Score[d.kind]
          BY <4>1, <3>1, <3>2, <1>1
        <5>4. d = r[k]
          BY <4>1 DEF c
        <5> QED BY <5>2, <5>3, <5>4, <1>9
      <4>2. CASE d # c
        <5>1. d \in m[a].wonAgainst
          BY <4>2, <3>3, <2>7
        <5>2. /\ \E i \in 1..(k - 1) : d = r[i]
              /\ Near(m[a].zoom, d) /\ Score[m[a].zoom.kind] >= Score[d.kind]
          BY <5>1, <1>2
        <5> QED BY <5>2, <3>1, <1>8
      <4> QED BY <4>1, <4>2
    <3> QED BY <3>1, <3>2, <3>3, <1>8
  <2>10. Settles(s, r, k)
    BY <2>4, <2>5, <2>8, <2>9 DEF Settles
  <2> QED BY <2>10 DEF s, c
<1> QED BY <1>10, <1>11

(* So the selection settles all of them.                                   *)
LEMMA SelectedFacts ==
  ASSUME NEW C, C \subseteq CandidateType, NEW r, Len(r) \in Nat, IsRanking(r, Len(r), C)
  PROVE  Selected(r) \in Seq(ZoomType(C)) /\ Settles(Selected(r), r, Len(r))
<1> DEFINE n == Len(r)
           upTo == CHOOSE F : F = [i \in 0..n |-> IF i = 0 THEN <<>> ELSE Consider(F[i - 1], r[i])]
<1>1. Selected(r) = upTo[n]
  BY DEF Selected
<1>2. n \in Nat /\ \A i \in 1..n : r[i] \in C
  BY DEF IsRanking
<1>3. IsRanking(r, n, C)
  OBVIOUS
<1> HIDE DEF n
<1>a. PICK A : A = Seq(ZoomType(C))
  OBVIOUS
<1>b. PICK g : g = [i \in 1..n |-> [m \in A |-> Consider(m, r[i])]]
  OBVIOUS
<1>4. \A m \in A, i \in 1..n : Consider(m, r[i]) \in A
  BY <1>a, <1>2, ConsiderType
<1>5. g \in [1..n -> [A -> A]] /\ \A m \in A, i \in 1..n : g[i][m] = Consider(m, r[i])
  BY <1>b, <1>4
<1>6. <<>> \in A
  BY <1>a, EmptySeq
<1>7. PICK F \in [0..n -> A] : F[0] = <<>> /\ \A i \in 1..n : F[i] = g[i][F[i - 1]]
  <2>1. \E F : GoesThrough(F, n, A, <<>>, g)
    BY <1>2, <1>5, <1>6, StepByStep
  <2> QED BY <2>1 DEF GoesThrough
<1>8. \A i \in 1..n : F[i] = Consider(F[i - 1], r[i])
  <2>1. \A i \in 1..n : i - 1 \in 0..n
    BY <1>2
  <2> QED BY <2>1, <1>5, <1>7
<1>9. F = [i \in 0..n |-> IF i = 0 THEN <<>> ELSE Consider(F[i - 1], r[i])]
  <2>1. \A i \in 0..n : F[i] = IF i = 0 THEN <<>> ELSE Consider(F[i - 1], r[i])
    BY <1>7, <1>8, <1>2
  <2> QED BY <2>1, <1>7
<1>10. upTo = [i \in 0..n |-> IF i = 0 THEN <<>> ELSE Consider(upTo[i - 1], r[i])]
  BY <1>9
<1> HIDE DEF upTo
<1>11. upTo[0] = <<>> /\ \A i \in 1..n : upTo[i] = Consider(upTo[i - 1], r[i])
  BY <1>10, <1>2
<1> DEFINE H == {i \in 0..n : upTo[i] \in A /\ Settles(upTo[i], r, i)}
<1>12. 0 \in H
  <2>1. Len(<<>>) = 0 /\ 1..0 = {}
    BY EmptySeq
  <2>2. Settles(<<>>, r, 0)
    BY <2>1 DEF Settles
  <2> QED BY <2>2, <1>2, <1>6, <1>11
<1>13. ASSUME NEW i \in 1..n, i - 1 \in H PROVE i \in H
  <2> DEFINE m == upTo[i - 1]
  <2>1. m \in Seq(ZoomType(C)) /\ Settles(m, r, i - 1)
    BY <1>13, <1>a
  <2>2. upTo[i] = Consider(m, r[i])
    BY <1>11
  <2> HIDE DEF m
  <2>3. Settles(Consider(m, r[i]), r, i)
    BY <2>1, <1>2, <1>3, ConsiderSettles
  <2>4. Consider(m, r[i]) \in A
    BY <2>1, <1>a, <1>4
  <2> QED BY <2>2, <2>3, <2>4
<1> HIDE DEF H
<1>14. n \in H
  <2>1. \A i \in 0..n : i \in H
    BY <1>2, <1>12, <1>13, HandedOn
  <2> QED BY <2>1, <1>2
<1> QED BY <1>1, <1>14, <1>a DEF H, n

ZoomsOf(events, zooms) ==
  /\ \A z, w \in zooms : z # w => Abs(z.zoom.at - w.zoom.at) >= Separation
  /\ \A c \in ZoomCandidates(events) :
       \/ \E z \in zooms : z.zoom = c
       \/ Cardinality({z \in zooms : c \in z.wonAgainst}) = 1
  /\ \A z \in zooms : \A c \in z.wonAgainst :
       /\ Abs(z.zoom.at - c.at) < Separation
       /\ Score[z.zoom.kind] >= Score[c.kind]

(* The zooms of a compiled stream, as the property reads them.             *)
LEMMA CompiledZooms ==
  ASSUME NEW events, StreamTyped(events), NEW hashes, StreamFits(events, hashes)
  PROVE  ZoomsOf(events, SelectZooms(ZoomCandidates(events)))
<1> DEFINE C == ZoomCandidates(events)
           r == Ranked(C)
           n == Len(r)
           m == Selected(r)
           zooms == SelectZooms(C)
<1>1. C \subseteq CandidateType /\ IsFiniteSet(C) /\ \A c, d \in C : c.seq = d.seq => c = d
  BY CandidateFacts DEF StreamFits
<1> HIDE DEF C
<1>2. n \in Nat /\ IsRanking(r, n, C)
  BY <1>1, RankedFacts
<1>3. zooms = ToSet(m)
  BY DEF SelectZooms
<1> HIDE DEF r
<1>4. m \in Seq(ZoomType(C)) /\ Settles(m, r, n)
  BY <1>1, <1>2, SelectedFacts
<1> HIDE DEF m, zooms
<1>5. \A z \in zooms : \E a \in 1..Len(m) : z = m[a]
  BY <1>3, <1>4 DEF ToSet
<1>6. \A a \in 1..Len(m) : m[a] \in zooms
  BY <1>3, <1>4 DEF ToSet
<1>7. ASSUME NEW z \in zooms, NEW w \in zooms, z # w
      PROVE  Abs(z.zoom.at - w.zoom.at) >= Separation
  BY <1>4, <1>5, <1>7 DEF Settles
<1>8. ASSUME NEW z \in zooms, NEW c \in z.wonAgainst
      PROVE  Abs(z.zoom.at - c.at) < Separation /\ Score[z.zoom.kind] >= Score[c.kind]
  BY <1>4, <1>5, <1>8 DEF Settles, Near
<1>9. ASSUME NEW c \in C
      PROVE  \/ \E z \in zooms : z.zoom = c
             \/ Cardinality({z \in zooms : c \in z.wonAgainst}) = 1
  <2>1. PICK i \in 1..n : r[i] = c
    BY <1>2 DEF IsRanking
  <2>2. CASE \E a \in 1..Len(m) : m[a].zoom = r[i]
    BY <2>1, <2>2, <1>6
  <2>3. CASE \E a \in 1..Len(m) : \A b \in 1..Len(m) : r[i] \in m[b].wonAgainst <=> b = a
    <3>1. PICK a \in 1..Len(m) : \A b \in 1..Len(m) : r[i] \in m[b].wonAgainst <=> b = a
      BY <2>3
    <3>2. {z \in zooms : c \in z.wonAgainst} = {m[a]}
      BY <3>1, <2>1, <1>5, <1>6
    <3>3. Cardinality({m[a]}) = 1
      BY FS_Singleton
    <3> QED BY <3>2, <3>3
  <2> QED BY <2>2, <2>3, <1>4 DEF Settles
<1> QED BY <1>7, <1>8, <1>9, Zenon DEF ZoomsOf, zooms, C

(* In a list of times there is a first one nearest to a moment.            *)
NearestIn(s, t, i) ==
  \A k \in DOMAIN s :
     \/ Abs(s[i].at - t) < Abs(s[k].at - t)
     \/ Abs(s[i].at - t) = Abs(s[k].at - t) /\ i <= k

LEMMA NearestExists ==
  ASSUME NEW s, NEW n \in Nat \ {0}, DOMAIN s = 1..n, \A k \in 1..n : s[k].at \in Nat, NEW t \in Nat
  PROVE  \E i \in DOMAIN s : NearestIn(s, t, i)
<1> DEFINE d(k) == Abs(s[k].at - t)
           D == {d(k) : k \in 1..n}
<1>1. \A k \in 1..n : d(k) \in Nat
  BY DEF Abs
<1>a. \A k : d(k) = Abs(s[k].at - t)
  OBVIOUS
<1> HIDE DEF d
<1>2. D # {} /\ D \subseteq Nat
  <2>1. 1 \in 1..n
    OBVIOUS
  <2> QED BY <2>1, <1>1
<1>b. \A k \in 1..n : d(k) \in D
  OBVIOUS
<1>c. \A x \in D : \E k \in 1..n : x = d(k)
  OBVIOUS
<1> HIDE DEF D
<1>3. PICK x \in D : \A y \in D : x <= y
  BY <1>2, LeastNumber
<1> DEFINE K == {k \in 1..n : d(k) = x}
<1>4. K # {} /\ K \subseteq Nat
  BY <1>c
<1> HIDE DEF K
<1>5. PICK i \in K : \A k \in K : i <= k
  BY <1>4, LeastNumber
<1>6. i \in 1..n /\ d(i) = x
  BY DEF K
<1>7. \A k \in 1..n : d(i) < d(k) \/ (d(i) = d(k) /\ i <= k)
  <2> TAKE k \in 1..n
  <2>1. d(i) <= d(k) /\ d(i) \in Nat /\ d(k) \in Nat
    BY <1>1, <1>3, <1>6, <1>b
  <2>2. d(i) = d(k) => k \in K
    BY <1>6 DEF K
  <2> QED BY <2>1, <2>2, <1>5
<1> QED BY <1>6, <1>7, <1>a DEF NearestIn

(* The receipts of a capture that fits.                                    *)
Received(frames, n) ==
  /\ n \in Nat \ {0} /\ Len(frames) = n /\ DOMAIN frames = 1..n
  /\ \A k \in 1..n : frames[k].at \in Nat /\ frames[k].image \in Nat
  /\ \A j, k \in 1..n : j < k => frames[j].at < frames[k].at
  /\ frames[1].at = 0

LEMMA ReceivedFrames ==
  ASSUME NEW frames, NEW actions, CaptureTyped(frames, actions), FramesFit(frames), frames[1].at # Absent
  PROVE  Received(frames, Len(frames))
<1> DEFINE n == Len(frames)
           s == Times(frames)
           F == [at : Nat \cup {Absent}, image : Nat]
<1>1. frames \in Seq(F) /\ frames # <<>>
  BY DEF CaptureTyped, FramesFit
<1> HIDE DEF F
<1>2. n \in Nat \ {0} /\ DOMAIN frames = 1..n /\ \A k \in 1..n : frames[k] \in F
  BY <1>1, EmptySeq
<1> HIDE DEF n
<1>3. (\A i \in 1..n : frames[i].at # Absent) /\ frames[1].at = 0 /\ Rising(s)
  <2>1. 1 \in DOMAIN frames
    BY <1>2
  <2> QED BY <2>1, <1>2 DEF FramesFit
<1>4. \A k \in 1..n : frames[k].at \in Nat /\ frames[k].image \in Nat
  BY <1>2, <1>3 DEF F
<1>5. s = [i \in 1..n |-> frames[i].at]
  BY <1>2 DEF Times
<1> HIDE DEF s
<1>6. \A i \in 1..n : s[i] = frames[i].at /\ s[i] \in Nat
  BY <1>4, <1>5
<1>7. Len(s) = n
  <2>1. s = [i \in 1..n |-> s[i]]
    BY <1>5
  <2> QED BY <2>1, <1>2, LengthOf
<1>8. \A i, j \in 1..n : i < j => s[i] < s[j]
  BY <1>2, <1>3, <1>6, <1>7, RisingFar
<1> QED BY <1>2, <1>3, <1>4, <1>6, <1>8 DEF Received, n

(* Nearest is the first frame nearest to a moment.                         *)
LEMMA NearestFacts ==
  ASSUME NEW frames, NEW n, Received(frames, n), NEW t \in Nat
  PROVE  Nearest(frames, t) \in 1..n /\ NearestIn(frames, t, Nearest(frames, t))
<1>1. n \in Nat \ {0} /\ DOMAIN frames = 1..n /\ \A k \in 1..n : frames[k].at \in Nat
  BY DEF Received
<1>2. \E i \in DOMAIN frames : NearestIn(frames, t, i)
  BY <1>1, NearestExists
<1>3. Nearest(frames, t) = CHOOSE i \in DOMAIN frames : NearestIn(frames, t, i)
  BY DEF Nearest, NearestIn
<1> QED BY <1>1, <1>2, <1>3

(* The later the moment, the later the nearest frame.                      *)
LEMMA NearestGrows ==
  ASSUME NEW frames, NEW n, Received(frames, n), NEW t \in Nat, NEW u \in Nat, t <= u
  PROVE  Nearest(frames, t) <= Nearest(frames, u)
<1> DEFINE i == Nearest(frames, t)
           j == Nearest(frames, u)
<1>1. /\ i \in 1..n /\ NearestIn(frames, t, i)
      /\ j \in 1..n /\ NearestIn(frames, u, j)
  BY NearestFacts
<1>2. n \in Nat \ {0} /\ DOMAIN frames = 1..n
  BY DEF Received
<1> HIDE DEF i, j
<1>3. SUFFICES ASSUME j < i PROVE FALSE
  BY <1>1, <1>2 DEF i, j
<1> DEFINE p == frames[i].at
           q == frames[j].at
<1>4. p \in Nat /\ q \in Nat /\ q < p
  BY <1>1, <1>3 DEF Received
<1>5. Abs(p - t) < Abs(q - t) \/ i <= j
  BY <1>1, <1>2 DEF NearestIn
<1>6. Abs(q - u) < Abs(p - u) \/ Abs(q - u) = Abs(p - u)
  BY <1>1, <1>2 DEF NearestIn
<1> HIDE DEF p, q
<1>7. Abs(p - t) < Abs(q - t)
  BY <1>1, <1>2, <1>3, <1>5
<1>8. p + q < 2 * t
  BY <1>4, <1>7 DEF Abs
<1>9. 2 * u <= p + q
  BY <1>4, <1>6 DEF Abs
<1> QED BY <1>4, <1>8, <1>9

(* The times of the slots of a rendered capture.                           *)
At(i) == Round((i - 1) * Second, Fps)

LEMMA AtFacts ==
  /\ At(1) = 0
  /\ \A i \in Nat \ {0} : At(i) \in Nat
  /\ \A i, j \in Nat \ {0} : i <= j => At(i) <= At(j)
  /\ \A i \in Nat \ {0} : (At(i + 1) - At(i)) * Fps <= Second + Fps
<1>1. Second \in Nat \ {0} /\ Fps \in Nat \ {0}
  BY TimelineConstants, SecondAssumption
<1> DEFINE x(i) == (i - 1) * Second
<1>2. \A i \in Nat \ {0} : x(i) \in Nat
  <2>1. \A a, b \in Nat : a * b \in Nat
    OBVIOUS
  <2> QED BY <2>1, <1>1
<1>3. \A i, j \in Nat \ {0} : i <= j => x(i) <= x(j)
  <2> SUFFICES ASSUME NEW i \in Nat \ {0}, NEW j \in Nat \ {0}, i <= j PROVE x(i) <= x(j)
    OBVIOUS
  <2>1. PICK d \in Nat : j = i + d
    <3>1. j - i \in Nat /\ j = i + (j - i)
      OBVIOUS
    <3> QED BY <3>1
  <2>2. x(j) = x(i) + d * Second /\ d * Second >= 0
    <3>1. \A a, b \in Nat : (a + b) * Second = a * Second + b * Second
      BY <1>1
    <3>2. i - 1 \in Nat /\ j - 1 = (i - 1) + d
      BY <2>1
    <3>3. d * Second >= 0
      BY <1>1
    <3> QED BY <3>1, <3>2, <3>3
  <2>3. x(i) \in Nat /\ x(j) \in Nat /\ d * Second \in Nat
    BY <1>1, <1>2, <2>1
  <2> HIDE DEF x
  <2> QED BY <2>2, <2>3
<1>4. \A i \in Nat \ {0} : x(i + 1) = x(i) + Second
  BY <1>1
<1>5. x(1) = 0
  BY <1>1
<1>6. \A i : At(i) = Round(x(i), Fps)
  BY DEF At
<1> HIDE DEF x
<1>7. \A i \in Nat \ {0} : At(i) \in Nat
  BY <1>1, <1>2, <1>6, RoundFacts
<1>8. ASSUME NEW i \in Nat \ {0}, NEW j \in Nat \ {0}, i <= j PROVE At(i) <= At(j)
  BY <1>1, <1>2, <1>3, <1>6, <1>8, RoundGrows
<1>9. At(1) = 0
  <2> DEFINE r == Round(x(1), Fps)
  <2>1. x(1) \in Nat
    BY <1>5
  <2>2. r \in Nat /\ 2 * (Fps * r) <= 2 * x(1) + Fps
    BY <2>1, <1>1, RoundFacts
  <2>3. At(1) = r
    BY <1>6
  <2> HIDE DEF r
  <2>4. SUFFICES ASSUME r # 0 PROVE FALSE
    BY <2>3
  <2>5. Fps * r >= Fps
    <3>1. PICK d \in Nat : r = 1 + d
      <4>1. r - 1 \in Nat /\ r = 1 + (r - 1)
        BY <2>2, <2>4
      <4> QED BY <4>1
    <3>2. Fps * r = Fps + Fps * d /\ Fps * d >= 0
      BY <3>1, <1>1
    <3> QED BY <3>2, <1>1
  <2>6. Fps * r \in Nat
    BY <1>1, <2>2
  <2> QED BY <2>2, <2>5, <2>6, <1>1, <1>5
<1>10. ASSUME NEW i \in Nat \ {0} PROVE (At(i + 1) - At(i)) * Fps <= Second + Fps
  <2> DEFINE a == x(i)
             b == x(i + 1)
             q == Round(a, Fps)
             r == Round(b, Fps)
  <2>1. a \in Nat /\ b \in Nat /\ b = a + Second
    BY <1>2, <1>4
  <2>2. At(i) = q /\ At(i + 1) = r
    BY <1>6
  <2> HIDE DEF a, b
  <2>3. q \in Nat /\ 2 * a < 2 * (Fps * q) + Fps
    BY <2>1, <1>1, RoundFacts
  <2>4. r \in Nat /\ 2 * (Fps * r) <= 2 * b + Fps
    BY <2>1, <1>1, RoundFacts
  <2> HIDE DEF q, r
  <2>5. (r - q) * Fps = Fps * r - Fps * q /\ Fps * r \in Nat /\ Fps * q \in Nat
    BY <2>3, <2>4, <1>1
  <2>6. (r - q) * Fps <= Second + Fps
    BY <2>1, <2>3, <2>4, <2>5, <1>1
  <2> QED BY <2>2, <2>6
<1> QED BY <1>7, <1>8, <1>9, <1>10

(* The slots of a capture with receipts.                                   *)
Laid(frames, n, slots, m) ==
  /\ m \in Nat \ {0} /\ Len(slots) = m /\ DOMAIN slots = 1..m
  /\ \A i \in 1..m : slots[i].at = At(i) /\ slots[i].frame \in 1..n
  /\ \A i \in 1..(m - 1) : NearestIn(frames, slots[i].at, slots[i].frame)
  /\ slots[1].frame = 1 /\ slots[m].frame = n
  /\ \A i, j \in 1..m : i <= j => slots[i].frame <= slots[j].frame

(* The slots of a capture with receipts go from its first frame to its     *)
(* last, each but the last at the frame nearest to it.                     *)
LEMMA SlotsLaid ==
  ASSUME NEW frames, NEW n, Received(frames, n)
  PROVE  Laid(frames, n, ReceiptSlots(frames), Len(ReceiptSlots(frames)))
<1> DEFINE slots == ReceiptSlots(frames)
           x == Last(frames).at * Fps
           count == x \div Second + 1
           g == [i \in 1..count |-> [at |-> Round((i - 1) * Second, Fps),
                                     frame |-> Nearest(frames, Round((i - 1) * Second, Fps))]]
           e == [at |-> Round(count * Second, Fps), frame |-> Len(frames)]
<1>1. Second \in Nat \ {0} /\ Fps \in Nat \ {0}
  BY TimelineConstants, SecondAssumption
<1>2. /\ n \in Nat \ {0} /\ Len(frames) = n /\ DOMAIN frames = 1..n /\ frames[1].at = 0
      /\ \A k \in 1..n : frames[k].at \in Nat
      /\ \A j, k \in 1..n : j < k => frames[j].at < frames[k].at
  BY DEF Received
<1>3. x \in Nat
  <2>1. \A a, b \in Nat : a * b \in Nat
    OBVIOUS
  <2>2. Last(frames).at \in Nat
    BY <1>2 DEF Last
  <2> QED BY <2>1, <2>2, <1>1
<1> HIDE DEF x
<1>4. count \in Nat \ {0}
  <2>1. x \div Second \in Nat
    BY <1>1, <1>3, DivFacts
  <2> QED BY <2>1
<1>5. slots = IF g[count].frame = Len(frames) THEN g ELSE Append(g, e)
  BY DEF ReceiptSlots, x
<1>6. g = [i \in 1..count |-> [at |-> At(i), frame |-> Nearest(frames, At(i))]]
  BY DEF At
<1>7. e.at = At(count + 1) /\ e.frame = n
  <2>1. (count + 1) - 1 = count
    BY <1>4
  <2> HIDE DEF count
  <2>2. At(count + 1) = Round(count * Second, Fps)
    BY <2>1 DEF At
  <2> QED BY <2>2, <1>2
<1> HIDE DEF g, e, count, slots
<1>8. \A i \in 1..count : g[i].at = At(i) /\ g[i].frame = Nearest(frames, At(i))
  BY <1>6
<1>9. \A i \in 1..count : /\ At(i) \in Nat /\ g[i].frame \in 1..n
                          /\ NearestIn(frames, g[i].at, g[i].frame)
  <2> TAKE i \in 1..count
  <2>1. At(i) \in Nat
    BY <1>4, AtFacts
  <2>2. Nearest(frames, At(i)) \in 1..n /\ NearestIn(frames, At(i), Nearest(frames, At(i)))
    BY <2>1, NearestFacts
  <2> QED BY <2>1, <2>2, <1>8
<1>10. \A i, j \in 1..count : i <= j => g[i].frame <= g[j].frame
  <2> SUFFICES ASSUME NEW i \in 1..count, NEW j \in 1..count, i <= j PROVE g[i].frame <= g[j].frame
    OBVIOUS
  <2>1. At(i) \in Nat /\ At(j) \in Nat /\ At(i) <= At(j)
    BY <1>4, AtFacts
  <2>2. Nearest(frames, At(i)) <= Nearest(frames, At(j))
    BY <2>1, NearestGrows
  <2> QED BY <2>2, <1>8
<1>11. 1 \in 1..count /\ count \in 1..count
  BY <1>4
<1>12. g[1].frame = 1
  <2> DEFINE k == g[1].frame
  <2>1. k \in 1..n /\ NearestIn(frames, 0, k)
    BY <1>8, <1>9, <1>11, AtFacts
  <2> HIDE DEF k
  <2>2. 1 \in DOMAIN frames /\ k \in 1..n /\ frames[k].at \in Nat
    BY <1>2, <2>1
  <2>3. Abs(frames[k].at - 0) < Abs(frames[1].at - 0) \/ k <= 1
    BY <2>1, <2>2 DEF NearestIn
  <2>4. Abs(frames[1].at - 0) = 0 /\ Abs(frames[k].at - 0) >= 0
    BY <1>2, <2>2 DEF Abs
  <2>5. k <= 1
    <3>1. frames[1].at = 0
      BY <1>2
    <3> QED BY <2>2, <2>3, <3>1 DEF Abs
  <2> QED BY <2>1, <2>5 DEF k
<1>13. Len(g) = count /\ DOMAIN g = 1..count
  <2>1. g = [i \in 1..count |-> g[i]] /\ DOMAIN g = 1..count
    BY <1>6
  <2> QED BY <2>1, <1>4, LengthOf
<1>14. CASE g[count].frame = Len(frames)
  <2>1. slots = g
    BY <1>5, <1>14
  <2>2. \A i \in 1..(count - 1) : i \in 1..count
    BY <1>4
  <2>3. Laid(frames, n, g, count)
    BY <1>2, <1>4, <1>8, <1>9, <1>10, <1>12, <1>13, <1>14, <2>2 DEF Laid
  <2> QED BY <2>1, <2>3, <1>13 DEF slots
<1>15. CASE g[count].frame # Len(frames)
  <2>1. slots = Append(g, e)
    BY <1>5, <1>15
  <2> DEFINE m == count + 1
  <2>2. Len(slots) = m /\ DOMAIN slots = 1..m /\ slots[m] = e /\ \A i \in 1..count : slots[i] = g[i]
    <3>1. PICK S : S = {g[i] : i \in 1..count} \cup {e}
      OBVIOUS
    <3>2. e \in S /\ \A i \in 1..count : g[i] \in S
      BY <3>1
    <3>3. g \in Seq(S)
      <4>1. g = [i \in 1..count |-> g[i]]
        BY <1>6
      <4> QED BY <4>1, <3>2, <1>4, IsASeqOf
    <3> QED BY <3>2, <3>3, <2>1, <1>13, AppendProperties
  <2>3. m \in Nat \ {0} /\ m - 1 = count
    BY <1>4
  <2>4. \A i \in 1..m : i \in 1..count \/ i = m
    BY <1>4
  <2>a. m \notin 1..count /\ count < m
    BY <1>4
  <2> HIDE DEF m
  <2>5. \A i \in 1..m : slots[i].at = At(i) /\ slots[i].frame \in 1..n
    <3> TAKE i \in 1..m
    <3>1. CASE i \in 1..count
      BY <3>1, <2>2, <1>8, <1>9
    <3>2. CASE i = m
      <4>1. slots[i] = e /\ At(i) = At(count + 1)
        BY <3>2, <2>2 DEF m
      <4>2. n \in 1..n
        BY <1>2
      <4> QED BY <4>1, <4>2, <1>7
    <3> QED BY <3>1, <3>2, <2>4
  <2>6. \A i \in 1..(m - 1) : NearestIn(frames, slots[i].at, slots[i].frame)
    BY <2>2, <2>3, <1>9
  <2>7. slots[1].frame = 1 /\ slots[m].frame = n
    BY <2>2, <1>7, <1>11, <1>12
  <2>8. \A i, j \in 1..m : i <= j => slots[i].frame <= slots[j].frame
    <3> SUFFICES ASSUME NEW i \in 1..m, NEW j \in 1..m, i <= j PROVE slots[i].frame <= slots[j].frame
      OBVIOUS
    <3>1. CASE j = m
      <4>1. slots[j].frame = n /\ slots[i].frame \in 1..n
        BY <3>1, <2>5, <2>7
      <4> QED BY <4>1, <1>2
    <3>2. CASE j \in 1..count
      <4>1. i \in 1..count
        BY <3>2, <1>4
      <4> QED BY <3>2, <4>1, <2>2, <1>10
    <3> QED BY <3>1, <3>2, <2>4
  <2>9. Laid(frames, n, slots, m)
    BY <2>2, <2>3, <2>5, <2>6, <2>7, <2>8 DEF Laid
  <2> QED BY <2>2, <2>9 DEF slots
<1> QED BY <1>14, <1>15

(* Every set of numbers up to n that is not empty has a greatest one.      *)
LEMMA GreatestNumber ==
  ASSUME NEW n \in Nat, NEW T, T \subseteq 1..n, T # {}
  PROVE  \E x \in T : \A y \in T : y <= x
<1> DEFINE S == {n - y : y \in T}
<1>1. S \subseteq Nat /\ S # {}
  <2>1. \A y \in T : n - y \in Nat
    OBVIOUS
  <2>2. S \subseteq Nat
    BY <2>1
  <2>3. PICK y : y \in T
    OBVIOUS
  <2>4. n - y \in S
    BY <2>3
  <2> QED BY <2>2, <2>4
<1>2. \A y \in T : n - y \in S
  OBVIOUS
<1>3. \A z \in S : \E y \in T : z = n - y
  OBVIOUS
<1> HIDE DEF S
<1>4. PICK z \in S : \A w \in S : z <= w
  BY <1>1, LeastNumber
<1>5. PICK x \in T : z = n - x
  BY <1>3
<1>6. \A y \in T : n - x <= n - y
  BY <1>2, <1>4, <1>5
<1> QED BY <1>6

(* The result of an action that has one was received after the last slot   *)
(* before the action, and so at most an output frame before the action.    *)
LEMMA ResultIsLate ==
  ASSUME NEW frames, NEW n, Received(frames, n), NEW slots, NEW m, Laid(frames, n, slots, m),
         NEW action \in Nat, PreSlots(slots, action) # {},
         NEW result \in ResultSlots(frames, slots, action)
  PROVE  LET received == frames[slots[result].frame].at
         IN  /\ received > slots[PreSlot(slots, action)].at
             /\ (action - received) * Fps <= Second + Fps
<1> DEFINE pre == PreSlot(slots, action)
           near == NearestSlot(slots, action)
           P == PreSlots(slots, action)
           received == frames[slots[result].frame].at
<1>1. /\ m \in Nat \ {0} /\ DOMAIN slots = 1..m /\ Len(slots) = m
      /\ \A i \in 1..m : slots[i].at = At(i) /\ slots[i].frame \in 1..n
      /\ \A i \in 1..(m - 1) : NearestIn(frames, slots[i].at, slots[i].frame)
      /\ \A i, j \in 1..m : i <= j => slots[i].frame <= slots[j].frame
  BY DEF Laid
<1>2. /\ n \in Nat \ {0} /\ DOMAIN frames = 1..n
      /\ \A k \in 1..n : frames[k].at \in Nat /\ frames[k].image \in Nat
      /\ \A j, k \in 1..n : j < k => frames[j].at < frames[k].at
  BY DEF Received
<1>3. \A i \in 1..m : slots[i].at \in Nat
  <2> TAKE i \in 1..m
  <2>1. i \in Nat \ {0} /\ slots[i].at = At(i)
    BY <1>1
  <2>2. At(i) \in Nat
    BY <2>1, AtFacts
  <2> QED BY <2>1, <2>2
<1>4. near \in 1..m
  <2>1. \E i \in DOMAIN slots : NearestIn(slots, action, i)
    BY <1>1, <1>3, NearestExists
  <2>2. near = CHOOSE i \in DOMAIN slots : NearestIn(slots, action, i)
    BY DEF NearestSlot, NearestIn
  <2> QED BY <2>1, <2>2, <1>1
<1>5. pre \in P /\ \A k \in P : k <= pre
  <2>1. P \subseteq 1..m
    BY <1>1 DEF PreSlots
  <2>2. \E i \in P : \A k \in P : k <= i
    BY <2>1, <1>1, GreatestNumber
  <2> QED BY <2>2 DEF PreSlot
<1>6. \A i : i \in P <=> i \in 1..m /\ slots[i].at < action /\ slots[i].at >= action - PreWindow
  BY <1>1 DEF PreSlots
<1>7. /\ result \in (near + 1)..m /\ slots[result].at > action
      /\ Abs(frames[slots[result].frame].image - frames[slots[pre].frame].image) >= ChangeThreshold
  BY <1>1 DEF ResultSlots
<1> HIDE DEF pre, near, P
<1>8. pre \in 1..m /\ result \in 1..m /\ pre < result
  <2>1. pre \in 1..m /\ result \in 1..m
    BY <1>4, <1>5, <1>6, <1>7
  <2>2. ~(result <= pre)
    <3>1. SUFFICES ASSUME result <= pre PROVE FALSE
      OBVIOUS
    <3>2. At(result) <= At(pre)
      BY <2>1, <3>1, AtFacts
    <3>3. slots[result].at <= slots[pre].at
      BY <2>1, <3>2, <1>1
    <3>4. slots[pre].at \in Nat /\ slots[result].at \in Nat
      BY <2>1, <1>3
    <3> QED BY <3>3, <3>4, <1>5, <1>6, <1>7
  <2> QED BY <2>1, <2>2
<1> DEFINE p == slots[pre].frame
           q == slots[result].frame
<1>9. p \in 1..n /\ q \in 1..n /\ p <= q
  BY <1>1, <1>8
<1>10. p # q
  <2>1. SUFFICES ASSUME p = q PROVE FALSE
    OBVIOUS
  <2>2. frames[p].image \in Nat
    BY <1>2, <1>9
  <2>3. Abs(frames[p].image - frames[p].image) >= ChangeThreshold
    BY <2>1, <1>7
  <2> HIDE DEF p, q
  <2>4. Abs(frames[p].image - frames[p].image) = 0
    BY <2>2 DEF Abs
  <2> QED BY <2>3, <2>4, TimelineConstants, SecondAssumption
<1>11. NearestIn(frames, slots[pre].at, p)
  BY <1>1, <1>8
<1> DEFINE t == slots[pre].at
<1>12. t \in Nat
  BY <1>3, <1>8
<1>13. received \in Nat /\ received > t
  <2> DEFINE a == frames[p].at
             b == frames[q].at
  <2>1. a \in Nat /\ b \in Nat /\ a < b /\ received = b
    BY <1>2, <1>9, <1>10
  <2>2. Abs(a - t) <= Abs(b - t)
    <3>1. q \in DOMAIN frames
      BY <1>2, <1>9
    <3>2. Abs(a - t) < Abs(b - t) \/ Abs(a - t) = Abs(b - t)
      BY <3>1, <1>11 DEF NearestIn
    <3> HIDE DEF a, b, t
    <3> QED BY <3>2, <2>1, <1>12 DEF Abs
  <2> HIDE DEF a, b, t, received
  <2>3. b > t
    BY <2>1, <2>2, <1>12 DEF Abs
  <2> QED BY <2>1, <2>3
<1>14. slots[pre + 1].at >= action
  <2>1. pre + 1 \in 1..m
    BY <1>8, <1>1
  <2>2. slots[pre + 1].at \in Nat /\ slots[pre + 1].at >= t
    <3>1. At(pre) <= At(pre + 1)
      BY <1>8, <2>1, AtFacts
    <3> QED BY <3>1, <2>1, <1>1, <1>3, <1>8
  <2>3. SUFFICES ASSUME slots[pre + 1].at < action PROVE FALSE
    BY <2>2
  <2>4. PreWindow \in Nat
    BY TimelineConstants, SecondAssumption
  <2>5. slots[pre + 1].at >= action - PreWindow
    <3>1. t >= action - PreWindow
      BY <1>5, <1>6
    <3> HIDE DEF t
    <3> QED BY <3>1, <2>2, <2>4, <1>12
  <2>6. pre + 1 \in P
    BY <2>1, <2>3, <2>5, <1>6
  <2>7. pre + 1 <= pre
    BY <2>6, <1>5
  <2> QED BY <2>7, <1>8
<1>15. (action - received) * Fps <= Second + Fps
  <2> DEFINE u == slots[pre + 1].at
  <2>1. pre + 1 \in 1..m /\ pre \in Nat \ {0}
    BY <1>8, <1>1
  <2>2. u \in Nat /\ (u - t) * Fps <= Second + Fps
    <3>1. (At(pre + 1) - At(pre)) * Fps <= Second + Fps
      BY <2>1, AtFacts
    <3>2. u = At(pre + 1) /\ t = At(pre)
      BY <2>1, <1>1, <1>8
    <3>3. u \in Nat
      BY <2>1, <1>3
    <3> HIDE DEF u, t
    <3> QED BY <3>1, <3>2, <3>3
  <2>3. action - received <= u - t
    <3>1. u >= action
      BY <1>14
    <3> HIDE DEF u, t, received
    <3> QED BY <3>1, <1>12, <1>13, <2>2
  <2> HIDE DEF u, t, received
  <2> DEFINE v == action - received
             w == u - t
  <2>4. v \in Int /\ w \in Int /\ v <= w
    BY <2>2, <2>3, <1>12, <1>13
  <2>5. w * Fps <= Second + Fps
    BY <2>2
  <2> HIDE DEF v, w
  <2>6. Second \in Nat \ {0} /\ Fps \in Nat \ {0}
    BY TimelineConstants, SecondAssumption
  <2>7. PICK d \in Nat : w = v + d
    <3>1. w - v \in Nat /\ w = v + (w - v)
      BY <2>4
    <3> QED BY <3>1
  <2>8. w * Fps = v * Fps + d * Fps /\ d * Fps >= 0 /\ v * Fps \in Int /\ d * Fps \in Int
    BY <2>4, <2>6, <2>7
  <2>9. v * Fps <= Second + Fps
    BY <2>5, <2>6, <2>8
  <2> QED BY <2>9 DEF v
<1> QED BY <1>13, <1>15 DEF pre, t, received

(* What the renderer makes of a capture, as the properties read it.        *)
RenderedOf(frames, actions, slots, found, alignment) ==
  /\ slots[1].frame = 1
  /\ Last(slots).frame = Len(frames)
  /\ \A i \in 2..Len(slots) : slots[i - 1].frame <= slots[i].frame
  /\ alignment = "pass" =>
       \A i \in DOMAIN actions :
         LET proof == found[i]
             result == frames[slots[proof.result].frame]
         IN  /\ result.at > slots[proof.pre].at
             /\ (actions[i] - result.at) * Fps <= Second + Fps

Alignment(actions, found) ==
  IF /\ actions # <<>> /\ Len(found) = Len(actions)
     /\ \A i \in DOMAIN found : found[i].status = "pass"
  THEN "pass" ELSE "fail"

(* What is made of a capture with receipts, and of one without.            *)
LEMMA RenderedTimed ==
  ASSUME NEW frames, NEW actions, CaptureTyped(frames, actions), FramesFit(frames), frames[1].at # Absent,
         NEW slots, slots = ReceiptSlots(frames),
         NEW found, found = [i \in DOMAIN actions |-> Assessment(frames, slots, actions[i])]
  PROVE  RenderedOf(frames, actions, slots, found, Alignment(actions, found))
<1> DEFINE n == Len(frames)
           m == Len(slots)
<1>1. Received(frames, n)
  BY ReceivedFrames
<1>2. Laid(frames, n, slots, m)
  BY <1>1, SlotsLaid
<1> HIDE DEF n, m
<1>3. m \in Nat \ {0} /\ slots[1].frame = 1 /\ Last(slots).frame = n
  BY <1>2 DEF Laid, Last, m
<1>4. \A i \in 2..m : slots[i - 1].frame <= slots[i].frame
  <2> TAKE i \in 2..m
  <2>1. i \in 1..m /\ i - 1 \in 1..m /\ i - 1 <= i
    BY <1>3
  <2> QED BY <2>1, <1>2 DEF Laid
<1>5. ASSUME Alignment(actions, found) = "pass", NEW i \in DOMAIN actions
      PROVE  /\ frames[slots[found[i].result].frame].at > slots[found[i].pre].at
             /\ (actions[i] - frames[slots[found[i].result].frame].at) * Fps <= Second + Fps
  <2> DEFINE action == actions[i]
             A == PreSlots(slots, action)
             B == ResultSlots(frames, slots, action)
             pre == PreSlot(slots, action)
             result == CHOOSE j \in B : \A k \in B : j <= k
             status == IF Last(slots).at - slots[result].at >= FinalHold THEN "pass" ELSE "fail"
  <2>1. found[i] = Assessment(frames, slots, action) /\ found[i].status = "pass"
    BY <1>5 DEF Alignment
  <2>2. action \in Nat
    <3>1. actions \in Seq(Nat)
      BY DEF CaptureTyped
    <3> QED BY <3>1
  <2>3. Assessment(frames, slots, action)
          = IF A = {} \/ B = {} THEN [action |-> action, status |-> "fail"]
            ELSE [action |-> action, pre |-> pre, result |-> result, status |-> status]
    BY DEF Assessment
  <2> HIDE DEF A, B, pre, result, status, action
  <2>4. A # {} /\ B # {} /\ found[i].pre = pre /\ found[i].result = result
    BY <2>1, <2>3
  <2>5. result \in B
    <3>1. B \subseteq Nat
      <4>1. B \subseteq (NearestSlot(slots, action) + 1)..m
        BY DEF B, ResultSlots, m
      <4>2. NearestSlot(slots, action) \in Nat
        <5>1. DOMAIN slots = 1..m /\ \A k \in 1..m : slots[k].at = At(k)
          BY <1>2 DEF Laid
        <5>2. \A k \in 1..m : slots[k].at \in Nat
          <6> TAKE k \in 1..m
          <6>1. k \in Nat \ {0} /\ slots[k].at = At(k)
            BY <5>1, <1>3
          <6>2. At(k) \in Nat
            BY <6>1, AtFacts
          <6> QED BY <6>1, <6>2
        <5>3. \E k \in DOMAIN slots : NearestIn(slots, action, k)
          BY <5>1, <5>2, <1>3, <2>2, NearestExists
        <5>4. NearestSlot(slots, action) = CHOOSE k \in DOMAIN slots : NearestIn(slots, action, k)
          BY DEF NearestSlot, NearestIn
        <5> QED BY <5>1, <5>3, <5>4
      <4> QED BY <4>1, <4>2
    <3>2. \E j \in B : \A k \in B : j <= k
      BY <3>1, <2>4, LeastNumber
    <3> QED BY <3>2 DEF result
  <2>6. /\ frames[slots[result].frame].at > slots[pre].at
        /\ (action - frames[slots[result].frame].at) * Fps <= Second + Fps
    <3>1. PreSlots(slots, action) # {} /\ result \in ResultSlots(frames, slots, action)
      BY <2>4, <2>5 DEF A, B
    <3> QED BY <3>1, <1>1, <1>2, <2>2, ResultIsLate DEF pre
  <2> QED BY <2>4, <2>6 DEF action
<1> QED BY <1>3, <1>4, <1>5 DEF RenderedOf, n, m

LEMMA RenderedInOrder ==
  ASSUME NEW frames, NEW actions, CaptureTyped(frames, actions), FramesFit(frames),
         NEW slots, slots = OrderedSlots(frames)
  PROVE  RenderedOf(frames, actions, slots, <<>>, Alignment(actions, <<>>))
<1> DEFINE n == Len(frames)
<1>1. n \in Nat \ {0} /\ DOMAIN frames = 1..n
  <2> DEFINE F == [at : Nat \cup {Absent}, image : Nat]
  <2>1. frames \in Seq(F) /\ frames # <<>>
    BY DEF CaptureTyped, FramesFit
  <2> HIDE DEF F
  <2> QED BY <2>1, EmptySeq
<1> HIDE DEF n
<1>2. slots = [i \in 1..n |-> [at |-> At(i), frame |-> i]]
  BY <1>1 DEF OrderedSlots, At
<1>3. \A i \in 1..n : slots[i].frame = i
  BY <1>2
<1>4. Len(slots) = n
  <2>1. slots = [i \in 1..n |-> slots[i]]
    BY <1>2
  <2> QED BY <2>1, <1>1, LengthOf
<1>5. slots[1].frame = 1 /\ slots[n].frame = n
  BY <1>1, <1>3
<1>6. \A i \in 2..n : slots[i - 1].frame <= slots[i].frame
  BY <1>1, <1>3
<1>7. Alignment(actions, <<>>) # "pass"
  <2>1. actions # <<>> => Len(actions) # 0
    BY EmptySeq DEF CaptureTyped
  <2>2. Len(<<>>) = 0
    BY EmptySeq
  <2> QED BY <2>1, <2>2 DEF Alignment
<1> QED BY <1>4, <1>5, <1>6, <1>7 DEF RenderedOf, Last, n

(* The recording is one of those that may come, and the timeline is one of *)
(* it.                                                                     *)
TimelineInvariant ==
  /\ \/ recording.kind = "stream" /\ StreamTyped(recording.events)
     \/ recording.kind = "capture" /\ CaptureTyped(recording.frames, recording.actions)
  /\ TimelineFaithful

(* Both timelines are true to their recordings, whatever is recorded: of   *)
(* compileRecording (src/compiler, src/timeline), a slot shows the latest  *)
(* frame of its time, a frame counts as distinct once, a timeline with an  *)
(* empty slot is blocked, zooms keep their separation and every candidate  *)
(* is a zoom or lost to exactly one that ranks above it; of the renderer   *)
(* of a sealed session (src/render/sealed-session.ts), the slots go from   *)
(* the first frame to the last and never back, and no result of an action  *)
(* is older than the action by more than an output frame.                  *)
THEOREM TimelinesAreFaithful == TimelineSpec => []TimelineFaithful
<1>1. TimelineInit => TimelineInvariant
  <2> SUFFICES ASSUME TimelineInit PROVE TimelineInvariant
    OBVIOUS
  <2>1. timeline.state = "none"
    BY DEF TimelineInit
  <2>2. TimelineFaithful
    BY <2>1 DEF TimelineFaithful, GridFaithful, ZoomsRanked, SlotsInOrder, ResultFollowsAction
  <2>3. CASE \E s \in Streams : recording = [kind |-> "stream", events |-> s.events, hashes |-> s.hashes]
    BY <2>2, <2>3, TimelineConstants, SecondAssumption DEF TimelineInvariant
  <2>4. CASE \E c \in Captures : recording = [kind |-> "capture", frames |-> c.frames, actions |-> c.actions]
    BY <2>2, <2>4, TimelineConstants, SecondAssumption DEF TimelineInvariant
  <2> QED BY <2>3, <2>4 DEF TimelineInit
<1>2. TimelineInvariant /\ [TimelineNext]_timelineVars => TimelineInvariant'
  <2> SUFFICES ASSUME TimelineInvariant, [TimelineNext]_timelineVars PROVE TimelineInvariant'
    OBVIOUS
  <2>1. CASE Compile
    <3> DEFINE events == recording.events
               hashes == recording.hashes
               slots == FrameGrid(OfType(events, "frame"), Last(events).at + 1)
               zooms == SelectZooms(ZoomCandidates(events))
               gaps == CadenceGaps(OfType(events, "frame"))
               status == Verdict(events, slots)
    <3>1. recording.kind = "stream" /\ recording' = recording
      BY <2>1 DEF Compile
    <3>2. StreamTyped(events)
      BY <3>1 DEF TimelineInvariant
    <3>3. timeline' = IF ~StreamFits(events, hashes) THEN RefusedInput
                      ELSE [state |-> "compiled", slots |-> slots, zooms |-> zooms, gaps |-> gaps, status |-> status]
      BY <2>1 DEF Compile
    <3>4. StreamFits(events, hashes) => GridOf(events, slots, status) /\ ZoomsOf(events, zooms)
      BY <3>2, CompiledGrid, CompiledZooms
    <3> HIDE DEF slots, zooms, gaps, status
    <3>5. CASE ~StreamFits(events, hashes)
      <4>1. timeline'.state = "refused"
        BY <3>3, <3>5 DEF RefusedInput
      <4>2. TimelineFaithful'
        BY <4>1 DEF TimelineFaithful, GridFaithful, ZoomsRanked, SlotsInOrder, ResultFollowsAction
      <4> QED BY <4>2, <3>1, <3>2 DEF TimelineInvariant
    <3>6. CASE StreamFits(events, hashes)
      <4>1. /\ timeline'.state = "compiled" /\ timeline'.slots = slots
            /\ timeline'.zooms = zooms /\ timeline'.status = status
        BY <3>3, <3>6
      <4>2. GridOf(recording.events', timeline'.slots, timeline'.status) /\ ZoomsOf(recording.events', timeline'.zooms)
        BY <4>1, <3>1, <3>4, <3>6
      <4>3. GridFaithful'
        BY <4>2, Zenon DEF GridFaithful, GridOf
      <4>4. ZoomsRanked'
        BY <4>2, Zenon DEF ZoomsRanked, ZoomsOf
      <4>5. SlotsInOrder' /\ ResultFollowsAction'
        BY <4>1 DEF SlotsInOrder, ResultFollowsAction
      <4> QED BY <4>3, <4>4, <4>5, <3>1, <3>2 DEF TimelineInvariant, TimelineFaithful
    <3> QED BY <3>5, <3>6
  <2>2. CASE RenderSealed
    <3> DEFINE frames == recording.frames
               actions == recording.actions
               timed == frames[1].at # Absent
               slots == IF timed THEN ReceiptSlots(frames) ELSE OrderedSlots(frames)
               found == IF timed THEN [i \in DOMAIN actions |-> Assessment(frames, slots, actions[i])] ELSE <<>>
               alignment == Alignment(actions, found)
               fits == FramesFit(frames) /\ ActionsFit(actions)
    <3>1. recording.kind = "capture" /\ recording' = recording
      BY <2>2 DEF RenderSealed
    <3>2. CaptureTyped(frames, actions)
      BY <3>1 DEF TimelineInvariant
    <3>3. timeline' = IF ~fits THEN RefusedInput
                      ELSE [state |-> "rendered", slots |-> slots, found |-> found, alignment |-> alignment]
      BY <2>2 DEF RenderSealed, Alignment
    <3>4. fits => RenderedOf(frames, actions, slots, found, alignment)
      <4>1. CASE timed
        <5>1. slots = ReceiptSlots(frames)
          BY <4>1
        <5>2. found = [i \in DOMAIN actions |-> Assessment(frames, slots, actions[i])]
          BY <4>1
        <5>3. FramesFit(frames) => RenderedOf(frames, actions, slots, found, Alignment(actions, found))
          <6> HIDE DEF slots, found, frames, actions
          <6> QED BY <5>1, <5>2, <4>1, <3>2, RenderedTimed
        <5> QED BY <5>3
      <4>2. CASE ~timed
        <5>1. slots = OrderedSlots(frames) /\ found = <<>>
          BY <4>2
        <5>2. FramesFit(frames) => RenderedOf(frames, actions, slots, <<>>, Alignment(actions, <<>>))
          <6> HIDE DEF slots, frames, actions
          <6> QED BY <5>1, <3>2, RenderedInOrder
        <5> QED BY <5>1, <5>2
      <4> QED BY <4>1, <4>2
    <3> HIDE DEF slots, found, alignment, fits
    <3>5. CASE ~fits
      <4>1. timeline'.state = "refused"
        BY <3>3, <3>5 DEF RefusedInput
      <4>2. TimelineFaithful'
        BY <4>1 DEF TimelineFaithful, GridFaithful, ZoomsRanked, SlotsInOrder, ResultFollowsAction
      <4> QED BY <4>2, <3>1, <3>2 DEF TimelineInvariant
    <3>6. CASE fits
      <4>1. /\ timeline'.state = "rendered" /\ timeline'.slots = slots
            /\ timeline'.found = found /\ timeline'.alignment = alignment
        BY <3>3, <3>6
      <4>2. RenderedOf(recording.frames', recording.actions', timeline'.slots, timeline'.found, timeline'.alignment)
        BY <4>1, <3>1, <3>4, <3>6
      <4>3. SlotsInOrder'
        BY <4>2, Zenon DEF SlotsInOrder, RenderedOf
      <4>4. ResultFollowsAction'
        BY <4>2, Zenon DEF ResultFollowsAction, RenderedOf
      <4>5. GridFaithful' /\ ZoomsRanked'
        BY <4>1 DEF GridFaithful, ZoomsRanked
      <4> QED BY <4>3, <4>4, <4>5, <3>1, <3>2 DEF TimelineInvariant, TimelineFaithful
    <3> QED BY <3>5, <3>6
  <2>3. CASE UNCHANGED timelineVars
    BY <2>3 DEF timelineVars, TimelineInvariant, TimelineFaithful, GridFaithful, ZoomsRanked, SlotsInOrder,
       ResultFollowsAction
  <2> QED BY <2>1, <2>2, <2>3 DEF TimelineNext
<1>3. TimelineInvariant => TimelineFaithful
  BY DEF TimelineInvariant
<1> QED BY <1>1, <1>2, <1>3, PTL DEF TimelineSpec

-----------------------------------------------------------------------------
(***************************************************************************)
(* 5. The presentation.  The parts of a clip tile it from its start to its *)
(* end, so the source time of a moment lies in one of them, and the time   *)
(* of every part before it counts whole.                                   *)
(***************************************************************************)
(* The parts s follow on one another from a to b.                          *)
Tiles(s, a, b) ==
  /\ s \in Seq(PartType)
  /\ \A i \in 1..Len(s) : /\ s[i].start < s[i].end
                          /\ s[i].start = IF i = 1 THEN a ELSE s[i - 1].end
  /\ b = IF Len(s) = 0 THEN a ELSE s[Len(s)].end

LEMMA TilesAppend ==
  ASSUME NEW s, NEW a \in Nat, NEW b \in Nat, Tiles(s, a, b),
         NEW p \in PartType, p.start = b, p.start < p.end
  PROVE  Tiles(Append(s, p), a, p.end)
<1> DEFINE n == Len(s)
           t == Append(s, p)
<1>1. s \in Seq(PartType)
  BY DEF Tiles
<1>2. n \in Nat /\ \A i \in 1..n : s[i] \in PartType
  BY <1>1, ElementOfSeq
<1>3. /\ t \in Seq(PartType) /\ Len(t) = n + 1
      /\ \A i \in 1..n : t[i] = s[i]
      /\ t[n + 1] = p
  BY <1>1, AppendProperties
<1>4. b = IF n = 0 THEN a ELSE s[n].end
  BY DEF Tiles
<1>5. \A i \in 1..n : s[i].start < s[i].end /\ s[i].start = IF i = 1 THEN a ELSE s[i - 1].end
  BY DEF Tiles
<1> HIDE DEF n, t
<1>6. ASSUME NEW i \in 1..(n + 1)
      PROVE  t[i].start < t[i].end /\ t[i].start = IF i = 1 THEN a ELSE t[i - 1].end
  <2>1. CASE i = n + 1
    <3>1. n # 0 => t[n] = s[n]
      BY <1>2, <1>3
    <3>2. i = 1 <=> n = 0
      BY <2>1, <1>2
    <3>3. i - 1 = n
      BY <2>1, <1>2
    <3> QED BY <2>1, <3>1, <3>2, <3>3, <1>3, <1>4
  <2>2. CASE i # n + 1
    <3>1. i \in 1..n /\ (i # 1 => i - 1 \in 1..n)
      BY <2>2, <1>2
    <3>2. t[i] = s[i] /\ (i # 1 => t[i - 1] = s[i - 1])
      BY <3>1, <1>3
    <3> QED BY <3>1, <3>2, <1>5
  <2> QED BY <2>1, <2>2
<1>7. n + 1 # 0
  BY <1>2
<1>8. Tiles(t, a, p.end)
  BY <1>3, <1>6, <1>7 DEF Tiles
<1> QED BY <1>8 DEF t

LEMMA GapType ==
  ASSUME NEW b \in Nat, NEW c \in Nat
  PROVE  Gap(b, c) \in Seq(PartType)
<1>1. Part(b, c, 2) \in PartType
  BY DEF Part, PartType
<1> DEFINE p == Part(b, c, 2)
<1> HIDE DEF p
<1>2. <<p>> \in Seq(PartType) /\ <<>> \in Seq(PartType)
  BY <1>1 DEF p
<1> QED BY <1>2 DEF Gap, p

LEMMA TilesGap ==
  ASSUME NEW s, NEW a \in Nat, NEW b \in Nat, Tiles(s, a, b), NEW c \in Nat, b <= c
  PROVE  Tiles(s \o Gap(b, c), a, c)
<1>1. s \in Seq(PartType)
  BY DEF Tiles
<1>2. CASE c > b
  <2> DEFINE p == Part(b, c, 2)
  <2>1. p \in PartType /\ p.start = b /\ p.end = c /\ p.start < p.end
    BY <1>2 DEF Part, PartType
  <2>2. Gap(b, c) = <<p>>
    BY <1>2 DEF Gap
  <2> HIDE DEF p
  <2>3. s \o <<p>> = Append(s, p)
    BY <1>1, <2>1, AppendIsConcat
  <2>4. Tiles(Append(s, p), a, p.end)
    BY <2>1, TilesAppend
  <2> QED BY <2>1, <2>2, <2>3, <2>4, Zenon
<1>3. CASE ~(c > b)
  <2>1. Gap(b, c) = <<>> /\ b = c
    BY <1>3 DEF Gap
  <2>2. s \o <<>> = s
    BY <1>1, ConcatEmptySeq
  <2> QED BY <2>1, <2>2, Zenon
<1> QED BY <1>2, <1>3

(* A clip that has passed the plan's own checks.                           *)
WholeClip(clip) ==
  /\ clip.start \in Nat /\ clip.end \in Nat /\ clip.fade \in Nat /\ clip.start < clip.end
  /\ clip.regions \in Seq(PartType)
  /\ \A i \in 1..Len(clip.regions) :
       /\ clip.start <= clip.regions[i].start /\ clip.regions[i].end <= clip.end
       /\ clip.regions[i].start < clip.regions[i].end
  /\ \A i \in 2..Len(clip.regions) : clip.regions[i - 1].end <= clip.regions[i].start

LEMMA RatePartsTile ==
  ASSUME NEW clip, WholeClip(clip)
  PROVE  Tiles(RateParts(clip), clip.start, clip.end)
<1> DEFINE r == clip.regions
           n == Len(r)
           Cursor(i) == IF i = 0 THEN clip.start ELSE r[i].end
           Longer(i, x) == (x \o Gap(Cursor(i - 1), r[i].start)) \o <<r[i]>>
           upTo == CHOOSE F : F = [i \in 0..n |-> IF i = 0 THEN <<>> ELSE Longer(i, F[i - 1])]
<1>1. RateParts(clip) = upTo[n] \o Gap(Cursor(n), clip.end)
  BY DEF RateParts
<1>2. /\ n \in Nat /\ \A i \in 1..n : r[i] \in PartType
      /\ \A i \in 1..n : clip.start <= r[i].start /\ r[i].end <= clip.end /\ r[i].start < r[i].end
      /\ \A i \in 2..n : r[i - 1].end <= r[i].start
      /\ clip.start \in Nat /\ clip.end \in Nat /\ clip.start < clip.end
  BY ElementOfSeq DEF WholeClip
<1> HIDE DEF n, r
<1>3. \A i \in 1..n : r[i].start \in Nat /\ r[i].end \in Nat
  BY <1>2 DEF PartType
<1>4. \A i \in 0..n : Cursor(i) \in Nat /\ Cursor(i) <= clip.end
  BY <1>2, <1>3
<1>5. \A i \in 1..n : Cursor(i - 1) \in Nat /\ Cursor(i - 1) <= r[i].start /\ Cursor(i) = r[i].end
  <2> SUFFICES ASSUME NEW i \in 1..n
               PROVE  Cursor(i - 1) \in Nat /\ Cursor(i - 1) <= r[i].start /\ Cursor(i) = r[i].end
    OBVIOUS
  <2>1. i - 1 \in 0..n /\ i # 0
    BY <1>2
  <2>2. i = 1 => Cursor(i - 1) = clip.start
    OBVIOUS
  <2>3. i # 1 => i - 1 # 0 /\ i \in 2..n
    BY <1>2
  <2>4. i # 1 => Cursor(i - 1) <= r[i].start
    BY <2>3, <1>2
  <2>5. Cursor(i - 1) \in Nat
    BY <2>1, <1>4
  <2> QED BY <2>1, <2>2, <2>4, <2>5, <1>2
<1>6. Cursor(0) = clip.start
  OBVIOUS
<1> HIDE DEF Cursor
<1>a. PICK A : A = Seq(PartType)
  OBVIOUS
<1>7. \A x \in A, i \in 1..n : Longer(i, x) \in A
  <2> SUFFICES ASSUME NEW x \in A, NEW i \in 1..n
               PROVE  (x \o Gap(Cursor(i - 1), r[i].start)) \o <<r[i]>> \in Seq(PartType)
    BY <1>a
  <2> DEFINE gap == Gap(Cursor(i - 1), r[i].start)
             one == <<r[i]>>
  <2>1. gap \in Seq(PartType)
    BY <1>3, <1>5, GapType
  <2>2. one \in Seq(PartType) /\ x \in Seq(PartType)
    BY <2>1, <1>2, <1>a
  <2> HIDE DEF gap, one
  <2>3. x \o gap \in Seq(PartType)
    BY <2>1, <2>2, ConcatProperties
  <2>4. (x \o gap) \o one \in Seq(PartType)
    BY <2>2, <2>3, ConcatProperties
  <2> QED BY <2>4 DEF gap, one
<1> HIDE DEF Longer
<1>b. PICK g : g = [i \in 1..n |-> [x \in A |-> Longer(i, x)]]
  OBVIOUS
<1>8. g \in [1..n -> [A -> A]]
  BY <1>b, <1>7
<1>9. \A x \in A, i \in 1..n : g[i][x] = Longer(i, x)
  BY <1>b, <1>7
<1>10. <<>> \in A
  BY <1>a, EmptySeq
<1>11. PICK F \in [0..n -> A] : F[0] = <<>> /\ \A i \in 1..n : F[i] = g[i][F[i - 1]]
  <2>1. \E F : GoesThrough(F, n, A, <<>>, g)
    BY <1>2, <1>8, <1>10, StepByStep
  <2> QED BY <2>1 DEF GoesThrough
<1>12. \A i \in 1..n : F[i] = Longer(i, F[i - 1])
  <2>1. \A i \in 1..n : i - 1 \in 0..n
    BY <1>2
  <2> QED BY <2>1, <1>9, <1>11
<1>13. F = [i \in 0..n |-> IF i = 0 THEN <<>> ELSE Longer(i, F[i - 1])]
  <2>1. \A i \in 0..n : F[i] = IF i = 0 THEN <<>> ELSE Longer(i, F[i - 1])
    BY <1>11, <1>12, <1>2
  <2> QED BY <2>1, <1>11
<1>14. upTo = [i \in 0..n |-> IF i = 0 THEN <<>> ELSE Longer(i, upTo[i - 1])]
  BY <1>13
<1> HIDE DEF upTo
<1>15. upTo[0] = <<>> /\ \A i \in 1..n : upTo[i] = Longer(i, upTo[i - 1])
  BY <1>14, <1>2
<1> DEFINE H == {i \in 0..n : Tiles(upTo[i], clip.start, Cursor(i))}
<1>16. 0 \in H
  <2>1. <<>> \in Seq(PartType) /\ Len(<<>>) = 0
    BY EmptySeq
  <2>2. Tiles(<<>>, clip.start, clip.start)
    BY <2>1 DEF Tiles
  <2> QED BY <2>2, <1>2, <1>15, <1>6
<1>17. ASSUME NEW i \in 1..n, i - 1 \in H PROVE i \in H
  <2> DEFINE s == upTo[i - 1]
             b == Cursor(i - 1)
             c == r[i].start
             t == s \o Gap(b, c)
  <2>1. Tiles(s, clip.start, b) /\ b \in Nat /\ c \in Nat /\ b <= c
    BY <1>17, <1>3, <1>5
  <2>2. upTo[i] = t \o <<r[i]>> /\ r[i] \in PartType /\ c < r[i].end /\ Cursor(i) = r[i].end
    BY <1>2, <1>5, <1>15 DEF Longer
  <2>a. r[i].start = c
    OBVIOUS
  <2> HIDE DEF s, b, c
  <2>3. Tiles(t, clip.start, c)
    BY <2>1, <1>2, TilesGap
  <2> HIDE DEF t
  <2>4. Tiles(Append(t, r[i]), clip.start, r[i].end)
    BY <2>1, <2>2, <2>3, <2>a, <1>2, TilesAppend
  <2>5. t \in Seq(PartType)
    BY <2>3 DEF Tiles
  <2>6. t \o <<r[i]>> = Append(t, r[i])
    BY <2>5, <2>2, AppendIsConcat
  <2>7. Tiles(upTo[i], clip.start, Cursor(i))
    BY <2>2, <2>4, <2>6, Zenon
  <2> QED BY <2>7, <1>2
<1> HIDE DEF H
<1>18. n \in H
  <2>1. \A i \in 0..n : i \in H
    BY <1>2, <1>16, <1>17, HandedOn
  <2> QED BY <2>1, <1>2
<1>19. Tiles(upTo[n], clip.start, Cursor(n)) /\ Cursor(n) \in Nat /\ Cursor(n) <= clip.end
  BY <1>18, <1>4, <1>2 DEF H
<1> DEFINE b == Cursor(n)
           s == upTo[n]
<1> HIDE DEF b, s
<1>20. Tiles(s \o Gap(b, clip.end), clip.start, clip.end)
  BY <1>19, <1>2, TilesGap DEF b, s
<1> QED BY <1>20, <1>1, Zenon DEF b, s

(* A later part starts where an earlier one ends, or after it, and every   *)
(* part lies between the two ends.                                         *)
LEMMA TilesFar ==
  ASSUME NEW s, NEW a \in Nat, NEW b \in Nat, Tiles(s, a, b)
  PROVE  /\ Len(s) \in Nat
         /\ \A i \in 1..Len(s) : /\ s[i] \in PartType /\ s[i].start \in Nat /\ s[i].end \in Nat
                                 /\ s[i].rate \in Nat \ {0} /\ s[i].start < s[i].end
         /\ \A k, i \in 1..Len(s) : k < i => s[k].end <= s[i].start
         /\ \A i \in 1..Len(s) : a <= s[i].start /\ s[i].end <= b
<1> DEFINE n == Len(s)
<1>1. s \in Seq(PartType)
  BY DEF Tiles
<1>2. n \in Nat /\ \A i \in 1..n : s[i] \in PartType
  BY <1>1, ElementOfSeq
<1>3. \A i \in 1..n : s[i].start < s[i].end /\ s[i].start = IF i = 1 THEN a ELSE s[i - 1].end
  BY DEF Tiles
<1>4. b = IF n = 0 THEN a ELSE s[n].end
  BY DEF Tiles
<1> HIDE DEF n
<1>5. \A i \in 1..n : s[i].start \in Nat /\ s[i].end \in Nat /\ s[i].rate \in Nat \ {0}
  BY <1>2 DEF PartType
<1>6. ASSUME NEW k \in 1..n
      PROVE  \A i \in 1..n : k < i => s[k].end <= s[i].start
  <2> DEFINE H == {i \in 0..n : k < i => s[k].end <= s[i].start}
  <2>1. 0 \in H
    BY <1>2
  <2>2. ASSUME NEW i \in 1..n, i - 1 \in H PROVE i \in H
    <3> SUFFICES ASSUME k < i PROVE s[k].end <= s[i].start
      BY <1>2
    <3>1. s[i].start = s[i - 1].end /\ i - 1 \in 1..n
      BY <1>2, <1>3
    <3>2. CASE k = i - 1
      BY <3>1, <3>2, <1>5
    <3>3. CASE k # i - 1
      <4>1. s[k].end <= s[i - 1].start
        BY <3>3, <2>2, <3>1
      <4>2. s[i - 1].start < s[i - 1].end
        BY <3>1, <1>3
      <4> QED BY <4>1, <4>2, <3>1, <1>5
    <3> QED BY <3>2, <3>3
  <2> HIDE DEF H
  <2>3. \A i \in 0..n : i \in H
    BY <1>2, <2>1, <2>2, HandedOn
  <2> QED BY <2>3, <1>2 DEF H
<1>7. ASSUME NEW i \in 1..n
      PROVE  a <= s[i].start /\ s[i].end <= b
  <2>1. 1 \in 1..n /\ n \in 1..n /\ n # 0
    BY <1>2
  <2>2. s[1].start = a /\ s[1].start < s[1].end
    BY <2>1, <1>3
  <2>3. a <= s[i].start
    <3>1. i = 1 \/ s[1].end <= s[i].start
      BY <2>1, <1>6
    <3> QED BY <3>1, <2>1, <2>2, <1>5
  <2>4. s[i].end <= b
    <3>1. i = n \/ s[i].end <= s[n].start
      BY <2>1, <1>2, <1>6
    <3>2. s[n].start < s[n].end /\ b = s[n].end
      BY <2>1, <1>3, <1>4
    <3> QED BY <3>1, <3>2, <2>1, <1>5
  <2> QED BY <2>3, <2>4
<1> QED BY <1>2, <1>3, <1>5, <1>6, <1>7 DEF n

LEMMA PartDurationType ==
  ASSUME NEW p, p.start \in Nat, p.end \in Nat, p.start <= p.end, p.rate \in Nat \ {0}
  PROVE  PartDuration(p) \in Nat
<1>1. (p.end - p.start) * 2 \in Nat
  OBVIOUS
<1> DEFINE d == (p.end - p.start) * 2
<1> HIDE DEF d
<1>2. d \div p.rate \in Nat
  BY <1>1, DivFacts DEF d
<1> QED BY <1>2 DEF PartDuration, d

(* The parts of s, none of which ends before it starts.                    *)
Playable(s) ==
  /\ Len(s) \in Nat
  /\ \A i \in 1..Len(s) : /\ s[i].start \in Nat /\ s[i].end \in Nat
                          /\ s[i].start <= s[i].end /\ s[i].rate \in Nat \ {0}

LEMMA ElapsedFacts ==
  ASSUME NEW s, Playable(s)
  PROVE  /\ Elapsed(s) \in [0..Len(s) -> Nat] /\ Elapsed(s)[0] = 0
         /\ \A i \in 1..Len(s) : /\ PartDuration(s[i]) \in Nat
                                 /\ Elapsed(s)[i] = Elapsed(s)[i - 1] + PartDuration(s[i])
<1> DEFINE n == Len(s)
           d(i) == PartDuration(s[i])
           upTo == CHOOSE F : F = [i \in 0..n |-> IF i = 0 THEN 0 ELSE F[i - 1] + d(i)]
<1>1. Elapsed(s) = upTo
  BY DEF Elapsed
<1>2. n \in Nat
  BY DEF Playable
<1>3. \A i \in 1..n : d(i) \in Nat
  <2>1. ASSUME NEW i \in 1..n PROVE d(i) \in Nat
    <3> DEFINE p == s[i]
    <3>1. p.start \in Nat /\ p.end \in Nat /\ p.start <= p.end /\ p.rate \in Nat \ {0}
      BY DEF Playable
    <3> HIDE DEF p
    <3>2. PartDuration(p) \in Nat
      BY <3>1, PartDurationType
    <3> QED BY <3>2 DEF p
  <2> QED BY <2>1
<1>4. \A i \in 1..n : PartDuration(s[i]) = d(i)
  OBVIOUS
<1> HIDE DEF d, n
<1>b. PICK g : g = [i \in 1..n |-> [x \in Nat |-> x + d(i)]]
  OBVIOUS
<1>5. g \in [1..n -> [Nat -> Nat]]
  BY <1>b, <1>3
<1>6. \A x \in Nat, i \in 1..n : g[i][x] = x + d(i)
  BY <1>b, <1>3
<1>7. PICK F \in [0..n -> Nat] : F[0] = 0 /\ \A i \in 1..n : F[i] = g[i][F[i - 1]]
  <2>1. \E F : GoesThrough(F, n, Nat, 0, g)
    BY <1>2, <1>5, StepByStep
  <2> QED BY <2>1 DEF GoesThrough
<1>8. \A i \in 1..n : F[i] = F[i - 1] + d(i)
  <2>1. \A i \in 1..n : i - 1 \in 0..n
    BY <1>2
  <2> QED BY <2>1, <1>6, <1>7
<1>9. F = [i \in 0..n |-> IF i = 0 THEN 0 ELSE F[i - 1] + d(i)]
  <2>1. \A i \in 0..n : F[i] = IF i = 0 THEN 0 ELSE F[i - 1] + d(i)
    BY <1>7, <1>8, <1>2
  <2> QED BY <2>1, <1>7
<1>10. upTo = [i \in 0..n |-> IF i = 0 THEN 0 ELSE upTo[i - 1] + d(i)]
  BY <1>9
<1> HIDE DEF upTo
<1>11. upTo[0] = 0 /\ \A i \in 1..n : upTo[i] = upTo[i - 1] + d(i)
  BY <1>10, <1>2
<1> DEFINE H == {i \in 0..n : upTo[i] \in Nat}
<1>12. 0 \in H
  BY <1>2, <1>11
<1>13. \A i \in 1..n : i - 1 \in H => i \in H
  BY <1>2, <1>3, <1>11
<1> HIDE DEF H
<1>14. \A i \in 0..n : i \in H
  BY <1>2, <1>12, <1>13, HandedOn
<1>15. upTo \in [0..n -> Nat]
  <2>1. \A i \in 0..n : upTo[i] \in Nat
    BY <1>14 DEF H
  <2> QED BY <2>1, <1>10
<1> QED BY <1>1, <1>3, <1>4, <1>11, <1>15 DEF n

LEMMA ElapsedGrows ==
  ASSUME NEW s, Playable(s)
  PROVE  \A i, j \in 0..Len(s) : i <= j => Elapsed(s)[i] <= Elapsed(s)[j]
<1> DEFINE n == Len(s)
           E == Elapsed(s)
<1>1. n \in Nat
  BY DEF Playable
<1>2. /\ E \in [0..n -> Nat]
      /\ \A i \in 1..n : PartDuration(s[i]) \in Nat /\ E[i] = E[i - 1] + PartDuration(s[i])
  BY ElapsedFacts
<1> HIDE DEF n, E
<1>3. ASSUME NEW i \in 0..n
      PROVE  \A j \in 0..n : i <= j => E[i] <= E[j]
  <2> DEFINE H == {j \in 0..n : i <= j => E[i] <= E[j]}
  <2>1. 0 \in H
    BY <1>1, <1>2
  <2>2. ASSUME NEW j \in 1..n, j - 1 \in H PROVE j \in H
    <3>1. j - 1 \in 0..n /\ E[j - 1] \in Nat /\ E[j] \in Nat /\ E[i] \in Nat
      BY <1>1, <1>2
    <3>2. E[j - 1] <= E[j]
      BY <3>1, <1>2
    <3>3. CASE i = j
      BY <3>3, <3>1
    <3>4. CASE i # j
      <4>1. i <= j => i <= j - 1
        BY <3>4
      <4>2. i <= j => E[i] <= E[j - 1]
        BY <4>1, <2>2
      <4> QED BY <4>2, <3>1, <3>2
    <3> QED BY <3>3, <3>4
  <2> HIDE DEF H
  <2>3. \A j \in 0..n : j \in H
    BY <1>1, <2>1, <2>2, HandedOn
  <2> QED BY <2>3 DEF H
<1> QED BY <1>3 DEF n, E

(* Tiles of positive length can be played, and their elapsed times too.    *)
LEMMA TilesPlayable ==
  ASSUME NEW s, NEW a \in Nat, NEW b \in Nat, Tiles(s, a, b)
  PROVE  Playable(s)
BY TilesFar DEF Playable

LEMMA RenderedFacts ==
  ASSUME NEW clip, WholeClip(clip)
  PROVE  /\ RenderedDuration(clip) \in Nat
         /\ Playable(RateParts(clip))
         /\ RenderedDuration(clip) = Elapsed(RateParts(clip))[Len(RateParts(clip))]
<1> DEFINE s == RateParts(clip)
<1>1. clip.start \in Nat /\ clip.end \in Nat
  BY DEF WholeClip
<1>2. Tiles(s, clip.start, clip.end)
  BY RatePartsTile
<1>4. RenderedDuration(clip) = Elapsed(s)[Len(s)]
  BY DEF RenderedDuration
<1> HIDE DEF s
<1>3. Playable(s)
  BY <1>1, <1>2, TilesPlayable
<1>5. Len(s) \in 0..Len(s)
  BY <1>3 DEF Playable
<1>6. Elapsed(s)[Len(s)] \in Nat
  BY <1>3, <1>5, ElapsedFacts
<1> QED BY <1>3, <1>4, <1>6 DEF s

(* A begun part: whole before the moment, none after it.                   *)
LEMMA BegunFacts ==
  ASSUME NEW p \in PartType, NEW source \in Nat, p.start < p.end
  PROVE  LET q == Begun(p, source)
         IN  /\ q.start = p.start /\ q.rate = p.rate /\ q.end \in Nat /\ q.start <= q.end
             /\ (p.end <= source => q.end = p.end)
             /\ (source <= p.start => q.end = p.start)
             /\ (p.start <= source /\ source <= p.end => q.end = source)
<1>1. p.start \in Nat /\ p.end \in Nat
  BY DEF PartType
<1> DEFINE e == IF source <= p.start THEN p.start ELSE IF source < p.end THEN source ELSE p.end
<1>2. /\ e \in Nat /\ p.start <= e
      /\ (p.end <= source => e = p.end)
      /\ (source <= p.start => e = p.start)
      /\ (p.start <= source /\ source <= p.end => e = source)
  BY <1>1
<1>3. Begun(p, source) = [p EXCEPT !.end = e]
  BY DEF Begun
<1> HIDE DEF e
<1>4. /\ [p EXCEPT !.end = e].start = p.start /\ [p EXCEPT !.end = e].rate = p.rate
      /\ [p EXCEPT !.end = e].end = e
  BY DEF PartType
<1> QED BY <1>2, <1>3, <1>4

(* The presentation time of a moment inside a part: all that came before,  *)
(* and the part up to it.                                                  *)
LEMMA PresentationTimeInside ==
  ASSUME NEW clip, WholeClip(clip), NEW i \in 1..Len(RateParts(clip)), NEW source \in Nat,
         RateParts(clip)[i].start <= source, source <= RateParts(clip)[i].end
  PROVE  PresentationTime(clip, source)
           = Elapsed(RateParts(clip))[i - 1]
               + ((source - RateParts(clip)[i].start) * 2) \div RateParts(clip)[i].rate
<1> DEFINE s == RateParts(clip)
           n == Len(s)
           t == [k \in DOMAIN s |-> Begun(s[k], source)]
           E == Elapsed(s)
           G == Elapsed(t)
           d == ((source - s[i].start) * 2) \div s[i].rate
<1>1. PresentationTime(clip, source) = G[n]
  BY DEF PresentationTime
<1>2. Tiles(s, clip.start, clip.end) /\ clip.start \in Nat /\ clip.end \in Nat
  BY RatePartsTile DEF WholeClip
<1>3. s[i].start <= source /\ source <= s[i].end /\ i \in 1..n
  OBVIOUS
<1>4. s \in Seq(PartType)
  BY <1>2 DEF Tiles
<1> HIDE DEF s
<1>5. DOMAIN s = 1..n
  BY <1>4
<1>6. /\ n \in Nat
      /\ \A k \in 1..n : /\ s[k] \in PartType /\ s[k].start \in Nat /\ s[k].end \in Nat
                         /\ s[k].rate \in Nat \ {0} /\ s[k].start < s[k].end
      /\ \A k, j \in 1..n : k < j => s[k].end <= s[j].start
  BY <1>2, TilesFar
<1>7. Playable(s)
  BY <1>2, TilesPlayable
<1>8. /\ E \in [0..n -> Nat] /\ E[0] = 0
      /\ \A k \in 1..n : PartDuration(s[k]) \in Nat /\ E[k] = E[k - 1] + PartDuration(s[k])
  BY <1>7, ElapsedFacts
<1>9. \A k \in 1..n : t[k] = Begun(s[k], source)
  BY <1>5
<1>10. t = [k \in 1..n |-> t[k]]
  BY <1>5
<1>11. Len(t) = n
  <2> HIDE DEF t, n
  <2> QED BY <1>6, <1>10, LengthOf
<1> HIDE DEF t, n
<1>12. ASSUME NEW k \in 1..n
       PROVE  /\ t[k].start = s[k].start /\ t[k].rate = s[k].rate /\ t[k].end \in Nat
              /\ t[k].start <= t[k].end
              /\ (s[k].end <= source => t[k].end = s[k].end)
              /\ (source <= s[k].start => t[k].end = s[k].start)
              /\ (s[k].start <= source /\ source <= s[k].end => t[k].end = source)
  <2> DEFINE p == s[k]
  <2>1. p \in PartType /\ p.start < p.end
    BY <1>6
  <2>2. t[k] = Begun(p, source)
    BY <1>9
  <2> HIDE DEF p
  <2>3. LET q == Begun(p, source)
        IN  /\ q.start = p.start /\ q.rate = p.rate /\ q.end \in Nat /\ q.start <= q.end
            /\ (p.end <= source => q.end = p.end)
            /\ (source <= p.start => q.end = p.start)
            /\ (p.start <= source /\ source <= p.end => q.end = source)
    BY <2>1, BegunFacts
  <2> QED BY <2>2, <2>3 DEF p
<1>13. Playable(t)
  <2>1. \A k \in 1..n : /\ t[k].start \in Nat /\ t[k].end \in Nat
                        /\ t[k].start <= t[k].end /\ t[k].rate \in Nat \ {0}
    BY <1>6, <1>12
  <2> QED BY <2>1, <1>6, <1>11 DEF Playable
<1>14. /\ G \in [0..n -> Nat] /\ G[0] = 0
       /\ \A k \in 1..n : PartDuration(t[k]) \in Nat /\ G[k] = G[k - 1] + PartDuration(t[k])
  BY <1>11, <1>13, ElapsedFacts
<1> HIDE DEF E, G
<1>15. d \in Nat
  <2> DEFINE x == (source - s[i].start) * 2
  <2>1. x \in Nat /\ s[i].rate \in Nat \ {0}
    BY <1>3, <1>6
  <2> HIDE DEF x
  <2>2. x \div s[i].rate \in Nat
    BY <2>1, DivFacts
  <2> QED BY <2>2 DEF x
<1>16. ASSUME NEW k \in 1..n
       PROVE  PartDuration(t[k]) = IF k < i THEN PartDuration(s[k]) ELSE IF k = i THEN d ELSE 0
  <2>1. CASE k < i
    <3>1. s[k].end <= s[i].start
      BY <2>1, <1>3, <1>6
    <3>2. s[k].end <= source
      BY <3>1, <1>3, <1>6
    <3>3. t[k].start = s[k].start /\ t[k].rate = s[k].rate /\ t[k].end = s[k].end
      BY <3>2, <1>12
    <3>4. PartDuration(t[k]) = PartDuration(s[k])
      BY <3>3 DEF PartDuration
    <3> QED BY <2>1, <3>4
  <2>2. CASE k = i
    <3>1. t[k].start = s[i].start /\ t[k].rate = s[i].rate /\ t[k].end = source
      BY <2>2, <1>3, <1>12
    <3>2. PartDuration(t[k]) = d
      BY <3>1 DEF PartDuration
    <3> QED BY <2>2, <3>2, <1>3
  <2>3. CASE i < k
    <3>1. s[i].end <= s[k].start
      BY <2>3, <1>3, <1>6
    <3>2. source <= s[k].start
      BY <3>1, <1>3, <1>6
    <3>3. t[k].start = s[k].start /\ t[k].rate = s[k].rate /\ t[k].end = s[k].start
      BY <3>2, <1>12
    <3> DEFINE r == s[k].rate
    <3>4. s[k].start - s[k].start = 0 /\ r \in Nat \ {0}
      BY <1>6
    <3>5. PartDuration(t[k]) = (0 * 2) \div r
      BY <3>3, <3>4 DEF PartDuration
    <3> HIDE DEF r
    <3>6. (0 * 2) \div r = 0
      BY <3>4
    <3>7. ~(k < i) /\ k # i
      BY <2>3, <1>3
    <3> QED BY <3>5, <3>6, <3>7
  <2> QED BY <2>1, <2>2, <2>3, <1>3
<1> HIDE DEF d
<1> DEFINE H == {k \in 0..n : G[k] = IF k < i THEN E[k] ELSE E[i - 1] + d}
<1>17. 0 \in H
  BY <1>3, <1>6, <1>8, <1>14
<1>18. ASSUME NEW k \in 1..n, k - 1 \in H PROVE k \in H
  <2>1. G[k] = G[k - 1] + PartDuration(t[k])
    BY <1>14
  <2>2. G[k - 1] = IF k - 1 < i THEN E[k - 1] ELSE E[i - 1] + d
    BY <1>18
  <2>3. E[k - 1] \in Nat /\ E[k] \in Nat /\ E[i - 1] \in Nat
    <3>1. k - 1 \in 0..n /\ k \in 0..n /\ i - 1 \in 0..n
      BY <1>3, <1>6
    <3> QED BY <3>1, <1>8
  <2>4. CASE k < i
    BY <2>1, <2>2, <2>4, <1>3, <1>6, <1>8, <1>16
  <2>5. CASE k = i
    BY <2>1, <2>2, <2>3, <2>5, <1>3, <1>6, <1>15, <1>16
  <2>6. CASE i < k
    <3>1. ~(k - 1 < i) /\ ~(k < i) /\ k # i
      BY <2>6, <1>3
    <3>2. G[k] = E[i - 1] + d + 0
      BY <3>1, <2>1, <2>2, <1>16
    <3>3. G[k] = E[i - 1] + d
      BY <3>2, <2>3, <1>15
    <3> QED BY <3>1, <3>3, <1>6
  <2> QED BY <2>4, <2>5, <2>6, <1>3
<1> HIDE DEF H
<1>19. n \in H
  <2>1. \A k \in 0..n : k \in H
    BY <1>6, <1>17, <1>18, HandedOn
  <2> QED BY <2>1, <1>6
<1>20. G[n] = E[i - 1] + d
  BY <1>3, <1>6, <1>19 DEF H
<1> QED BY <1>1, <1>20 DEF E, d, s

(* The source time of a moment: ticks rounded within a part come back to   *)
(* the moment, or to one tick after it.                                    *)
LEMMA RoundTrip ==
  ASSUME NEW x \in Nat, NEW r \in Nat \ {0}, NEW l \in Nat, x <= (l * 2) \div r
  PROVE  LET y == Round(x * r, 2)
         IN  /\ y \in Nat /\ y <= l
             /\ x <= (y * 2) \div r /\ (y * 2) \div r <= x + 1
<1> DEFINE a == x * r
           y == Round(a, 2)
           d == (l * 2) \div r
           z == (y * 2) \div r
<1>1. a \in Nat
  <2>1. \A m, k \in Nat : m * k \in Nat
    OBVIOUS
  <2> QED BY <2>1
<1>2. y \in Nat /\ a <= 2 * y /\ 2 * y <= a + 1
  <2> HIDE DEF a
  <2>1. Round(a, 2) = (2 * a + 2) \div 4
    BY DEF Round
  <2> QED BY <1>1, <2>1
<1>3. l * 2 \in Nat /\ d \in Nat /\ r * d <= l * 2
  <2> DEFINE m == l * 2
  <2>1. m \in Nat
    OBVIOUS
  <2> HIDE DEF m
  <2>2. m \div r \in Nat /\ r * (m \div r) <= m
    BY <2>1, DivFacts
  <2> QED BY <2>1, <2>2 DEF m
<1>4. y * 2 \in Nat /\ z \in Nat /\ r * z <= y * 2 /\ y * 2 < r * z + r
  <2> DEFINE m == y * 2
  <2> HIDE DEF y
  <2>1. m \in Nat
    BY <1>2
  <2> HIDE DEF m
  <2>2. m \div r \in Nat /\ r * (m \div r) <= m /\ m < r * (m \div r) + r
    BY <2>1, DivFacts
  <2> QED BY <2>1, <2>2 DEF m
<1>5. x <= d
  OBVIOUS
<1>6. r * x = a
  BY DEF a
<1> HIDE DEF d, y, z, a
<1>7. y <= l
  <2>1. PICK e \in Nat : d = x + e
    BY <1>3, <1>5
  <2>2. r * d = r * x + r * e /\ r * e \in Nat
    <3>1. \A p, q \in Nat : r * (p + q) = r * p + r * q /\ r * q \in Nat
      OBVIOUS
    <3> QED BY <3>1, <2>1
  <2> DEFINE re == r * e
             rd == r * d
  <2>3. rd = a + re /\ re \in Nat /\ rd <= l * 2
    BY <2>2, <1>3, <1>6
  <2> HIDE DEF re, rd
  <2> QED BY <2>3, <1>1, <1>2
<1>8. x <= z
  <2> SUFFICES ASSUME z < x PROVE FALSE
    BY <1>4
  <2>1. PICK e \in Nat : x = z + 1 + e
    BY <1>4
  <2>2. r * x = r * z + r + r * e /\ r * e \in Nat /\ r * z \in Nat
    <3>1. \A p, q \in Nat : r * (p + 1 + q) = r * p + r + r * q /\ r * q \in Nat
      OBVIOUS
    <3> QED BY <3>1, <2>1, <1>4
  <2> DEFINE re == r * e
             rz == r * z
  <2>3. a = rz + r + re /\ re \in Nat /\ rz \in Nat /\ y * 2 < rz + r
    BY <2>2, <1>4, <1>6
  <2> HIDE DEF re, rz
  <2> QED BY <2>3, <1>1, <1>2
<1>9. z <= x + 1
  <2> SUFFICES ASSUME x + 1 < z PROVE FALSE
    BY <1>4
  <2>1. PICK e \in Nat : z = x + 2 + e
    BY <1>4
  <2>2. r * z = r * x + 2 * r + r * e /\ r * e \in Nat
    <3>1. \A p, q \in Nat : r * (p + 2 + q) = r * p + 2 * r + r * q /\ r * q \in Nat
      OBVIOUS
    <3> QED BY <3>1, <2>1, <1>4
  <2> DEFINE re == r * e
             rz == r * z
  <2>3. rz = a + 2 * r + re /\ re \in Nat /\ rz <= y * 2
    BY <2>2, <1>4, <1>6
  <2> HIDE DEF re, rz
  <2> QED BY <2>3, <1>1, <1>2
<1> QED BY <1>2, <1>7, <1>8, <1>9 DEF y, z, a

SourceIsRight(clip, local, source) ==
  /\ source \in Nat /\ clip.start <= source /\ source <= clip.end
  /\ Abs(PresentationTime(clip, source)
           - (IF local < RenderedDuration(clip) THEN local ELSE RenderedDuration(clip))) <= 1

LEMMA SourceTimeIsRight ==
  ASSUME NEW clip, WholeClip(clip), NEW local \in Nat
  PROVE  SourceIsRight(clip, local, SourceTime(clip, local))
<1> DEFINE s == RateParts(clip)
           n == Len(s)
           E == Elapsed(s)
           R == RenderedDuration(clip)
           reached == {i \in DOMAIN s : local <= E[i]}
           first == CHOOSE i \in reached : \A k \in reached : i <= k
<1>1. SourceTime(clip, local)
        = IF reached = {} THEN clip.end
          ELSE s[first].start + Round((local - E[first - 1]) * s[first].rate, 2)
  BY DEF SourceTime
<1>2. /\ Tiles(s, clip.start, clip.end)
      /\ clip.start \in Nat /\ clip.end \in Nat /\ clip.start < clip.end
  BY RatePartsTile DEF WholeClip
<1>3. Playable(s) /\ R \in Nat /\ R = E[n]
  BY RenderedFacts
<1>4. ASSUME NEW i \in 1..n, NEW source \in Nat, s[i].start <= source, source <= s[i].end
      PROVE  PresentationTime(clip, source) = E[i - 1] + ((source - s[i].start) * 2) \div s[i].rate
  BY <1>4, PresentationTimeInside
<1> HIDE DEF s, R
<1>5. DOMAIN s = 1..n
  BY <1>2 DEF Tiles
<1>6. /\ n \in Nat
      /\ \A i \in 1..n : /\ s[i] \in PartType /\ s[i].start \in Nat /\ s[i].end \in Nat
                         /\ s[i].rate \in Nat \ {0} /\ s[i].start < s[i].end
      /\ \A i \in 1..n : clip.start <= s[i].start /\ s[i].end <= clip.end
  BY <1>2, TilesFar
<1>7. /\ E \in [0..n -> Nat] /\ E[0] = 0
      /\ \A i \in 1..n : PartDuration(s[i]) \in Nat /\ E[i] = E[i - 1] + PartDuration(s[i])
  BY <1>3, ElapsedFacts
<1>8. \A i, j \in 0..n : i <= j => E[i] <= E[j]
  BY <1>3, ElapsedGrows
<1>9. n # 0 /\ clip.end = s[n].end
  BY <1>2 DEF Tiles
<1> HIDE DEF n, E
<1>10. CASE reached = {}
  <2>1. SourceTime(clip, local) = clip.end
    BY <1>1, <1>10
  <2>2. n \in 1..n
    BY <1>6, <1>9
  <2>3. R < local
    <3>1. ~(local <= E[n])
      BY <1>5, <1>10, <2>2
    <3> QED BY <3>1, <1>3
  <2>4. PresentationTime(clip, clip.end) = E[n - 1] + ((clip.end - s[n].start) * 2) \div s[n].rate
    BY <1>2, <1>4, <1>6, <1>9, <2>2
  <2>5. PartDuration(s[n]) = ((clip.end - s[n].start) * 2) \div s[n].rate
    BY <1>9 DEF PartDuration
  <2>6. E[n] = E[n - 1] + PartDuration(s[n])
    BY <1>7, <2>2
  <2>7. PresentationTime(clip, clip.end) = R
    BY <2>4, <2>5, <2>6, <1>3
  <2>8. (IF local < R THEN local ELSE R) = R
    BY <2>3, <1>3
  <2>9. Abs(R - R) <= 1
    BY <1>3 DEF Abs
  <2> QED BY <2>1, <2>7, <2>8, <2>9, <1>2 DEF SourceIsRight, R
<1>11. CASE reached # {}
  <2>1. \E i \in reached : \A k \in reached : i <= k
    <3>1. reached \subseteq Nat
      BY <1>5, <1>6
    <3> HIDE DEF reached
    <3> QED BY <3>1, <1>11, LeastNumber
  <2>2. first \in reached /\ \A k \in reached : first <= k
    BY <2>1
  <2>3. PICK i : i = first
    OBVIOUS
  <2>4. i \in 1..n /\ local <= E[i]
    BY <2>2, <2>3, <1>5
  <2>5. i - 1 \in 0..n /\ E[i - 1] \in Nat /\ E[i - 1] <= local
    <3>1. i - 1 \in 0..n /\ E[i - 1] \in Nat
      BY <2>4, <1>6, <1>7
    <3>2. CASE i = 1
      BY <3>1, <3>2, <1>7
    <3>3. CASE i # 1
      <4>1. i - 1 \in 1..n /\ ~(i <= i - 1)
        BY <3>3, <2>4, <1>6
      <4>2. ~(local <= E[i - 1])
        BY <4>1, <2>2, <2>3, <1>5
      <4> QED BY <4>2, <3>1
    <3> QED BY <3>2, <3>3
  <2> DEFINE x == local - E[i - 1]
             r == s[i].rate
             b == s[i].start
             l == s[i].end - s[i].start
             y == Round(x * r, 2)
  <2>6. SourceTime(clip, local) = b + y
    BY <1>1, <1>11, <2>3
  <2>7. x \in Nat /\ r \in Nat \ {0} /\ b \in Nat /\ l \in Nat
    BY <2>4, <2>5, <1>6
  <2>8. x <= (l * 2) \div r
    <3>1. PartDuration(s[i]) = (l * 2) \div r
      BY DEF PartDuration
    <3>2. E[i] = E[i - 1] + PartDuration(s[i]) /\ PartDuration(s[i]) \in Nat
      BY <2>4, <1>7
    <3> DEFINE d == PartDuration(s[i])
    <3> HIDE DEF d
    <3>3. x <= d
      BY <3>2, <2>4, <2>5 DEF d
    <3> QED BY <3>1, <3>3 DEF d
  <2>a. s[i].end = b + l /\ clip.start <= b /\ b + l <= clip.end
    BY <2>4, <1>6
  <2>b. local = E[i - 1] + x
    BY <2>5
  <2> HIDE DEF x, r, l
  <2>9. y \in Nat /\ y <= l /\ x <= (y * 2) \div r /\ (y * 2) \div r <= x + 1
    BY <2>7, <2>8, RoundTrip
  <2> HIDE DEF y
  <2>10. b + y \in Nat /\ b <= b + y /\ b + y <= s[i].end /\ (b + y) - b = y
    BY <2>7, <2>9, <2>a
  <2>11. PresentationTime(clip, b + y) = E[i - 1] + (y * 2) \div r
    <3>1. PresentationTime(clip, b + y) = E[i - 1] + (((b + y) - s[i].start) * 2) \div s[i].rate
      BY <2>4, <2>10, <1>4
    <3> QED BY <3>1, <2>10 DEF r
  <2>12. local <= R
    <3>1. E[i] <= E[n]
      BY <2>4, <1>6, <1>8
    <3>2. E[i] \in Nat
      BY <2>4, <1>6, <1>7
    <3> QED BY <3>1, <3>2, <2>4, <1>3
  <2>13. (IF local < R THEN local ELSE R) = E[i - 1] + x
    BY <2>12, <2>b, <1>3
  <2> DEFINE z == (y * 2) \div r
             e == E[i - 1]
  <2>14. z \in Nat
    <3> DEFINE m == y * 2
    <3>1. m \in Nat
      BY <2>9
    <3> HIDE DEF m
    <3>2. m \div r \in Nat
      BY <3>1, <2>7, DivFacts
    <3> QED BY <3>2 DEF m
  <2>15. x <= z /\ z <= x + 1 /\ e \in Nat
    BY <2>9, <2>5
  <2>16. PresentationTime(clip, b + y) = e + z /\ (IF local < R THEN local ELSE R) = e + x
    BY <2>11, <2>13
  <2> HIDE DEF z, e
  <2>17. Abs((e + z) - (e + x)) <= 1
    BY <2>7, <2>14, <2>15 DEF Abs
  <2>18. clip.start <= b + y /\ b + y <= clip.end
    BY <2>7, <2>9, <2>a, <1>2
  <2> QED BY <2>6, <2>10, <2>16, <2>17, <2>18 DEF SourceIsRight, R
<1> QED BY <1>10, <1>11

(* A plan that passed its checks: every clip is whole, and no transition   *)
(* is longer than either of the clips it joins.                            *)
PlanFits == \A i \in DOMAIN plan.clips : ClipFits(plan.clips[i]) /\ FadeFits(i)

LEMMA ClipsAreWhole ==
  ASSUME plan \in Plans, PlanFits
  PROVE  /\ Len(plan.clips) \in Nat \ {0} /\ DOMAIN plan.clips = 1..Len(plan.clips)
         /\ plan.fps \in 1..Second
         /\ \A i \in 1..Len(plan.clips) :
              /\ WholeClip(plan.clips[i]) /\ RenderedDuration(plan.clips[i]) \in Nat
              /\ plan.clips[i].fade \in Nat /\ FadeFits(i)
<1> DEFINE c == plan.clips
           n == Len(c)
           ShownClips == [start : Nat, end : Nat, regions : Seq(PartType), fade : Nat]
<1>1. /\ plan.fps \in 1..Second /\ c # <<>> /\ c \in Seq(ShownClips)
      /\ \A k \in DOMAIN c : \A i \in 2..Len(c[k].regions) :
           c[k].regions[i - 1].end <= c[k].regions[i].start
  BY PlansAreTyped DEF PlanTyped
<1>2. \A i \in DOMAIN c : ClipFits(c[i]) /\ FadeFits(i)
  BY DEF PlanFits
<1> HIDE DEF c
<1>3. n \in Nat \ {0} /\ DOMAIN c = 1..n /\ \A i \in 1..n : c[i] \in ShownClips
  <2> HIDE DEF ShownClips
  <2> QED BY <1>1, EmptySeq, ElementOfSeq
<1> HIDE DEF n
<1>4. ASSUME NEW i \in 1..n PROVE WholeClip(c[i]) /\ c[i].fade \in Nat
  <2> DEFINE p == c[i]
  <2>1. p \in ShownClips /\ ClipFits(p)
    BY <1>2, <1>3
  <2>2. \A k \in 2..Len(p.regions) : p.regions[k - 1].end <= p.regions[k].start
    BY <1>1, <1>3
  <2> HIDE DEF p
  <2>3. p.start \in Nat /\ p.end \in Nat /\ p.fade \in Nat /\ p.regions \in Seq(PartType)
    BY <2>1
  <2>4. /\ p.start < p.end
        /\ \A k \in DOMAIN p.regions :
             /\ p.start <= p.regions[k].start /\ p.regions[k].end <= p.end
             /\ p.regions[k].start < p.regions[k].end
    BY <2>1 DEF ClipFits
  <2>5. DOMAIN p.regions = 1..Len(p.regions)
    BY <2>3
  <2> QED BY <2>2, <2>3, <2>4, <2>5 DEF WholeClip, p
<1>5. ASSUME NEW i \in 1..n PROVE RenderedDuration(c[i]) \in Nat
  <2> DEFINE p == c[i]
  <2>1. WholeClip(p)
    BY <1>4
  <2> HIDE DEF p
  <2>2. RenderedDuration(p) \in Nat
    BY <2>1, RenderedFacts
  <2> QED BY <2>2 DEF p
<1>6. \A i \in 1..n : FadeFits(i)
  BY <1>2, <1>3
<1> QED BY <1>1, <1>3, <1>4, <1>5, <1>6 DEF c, n

(* The clips on the presentation's clock: each begins where the one before *)
(* it ends, less the transition between the two.                           *)
ScheduleSound ==
  LET n == Len(plan.clips)
  IN  /\ n \in Nat \ {0} /\ plan.fps \in Nat \ {0} /\ plan.fps <= Second
      /\ schedule[1].start = 0 /\ schedule[1].incoming = 0
      /\ \A i \in 1..n :
           /\ schedule[i].start \in Nat /\ schedule[i].duration \in Nat
           /\ schedule[i].incoming \in Nat /\ schedule[i].incoming <= schedule[i].duration
           /\ schedule[i].duration = RenderedDuration(plan.clips[i])
           /\ WholeClip(plan.clips[i])
           /\ plan.clips[i].fade \in Nat /\ plan.clips[i].fade <= schedule[i].duration
      /\ \A i \in 1..(n - 1) :
           /\ schedule[i + 1].incoming = plan.clips[i].fade
           /\ schedule[i + 1].start + schedule[i + 1].incoming
                = schedule[i].start + schedule[i].duration

LEMMA TheScheduleIsSound ==
  ASSUME plan \in Plans, PlanFits, schedule = ClipSchedule
  PROVE  ScheduleSound
<1> DEFINE c == plan.clips
           n == Len(c)
           D(i) == RenderedDuration(c[i])
           fade(i) == c[i].fade
           Next(i, x) == x + D(i - 1) - fade(i - 1)
           begins == CHOOSE F : F = [i \in DOMAIN c |-> IF i = 1 THEN 0 ELSE Next(i, F[i - 1])]
<1>1. ClipSchedule = [i \in DOMAIN c |-> [start    |-> begins[i],
                                          duration |-> D(i),
                                          incoming |-> Incoming(i)]]
  BY DEF ClipSchedule
<1>2. /\ n \in Nat \ {0} /\ DOMAIN c = 1..n /\ plan.fps \in 1..Second
      /\ \A i \in 1..n : WholeClip(c[i]) /\ D(i) \in Nat /\ fade(i) \in Nat
      /\ \A i \in 1..n : FadeFits(i)
  BY ClipsAreWhole
<1>3. \A i \in 1..n : Incoming(i) = IF i > 1 THEN fade(i - 1) ELSE 0
  BY DEF Incoming
<1>4. ASSUME NEW i \in 1..n
      PROVE  fade(i) <= D(i) /\ (i < n => fade(i) <= D(i + 1))
  <2>1. fade(i) > 0 => i < n /\ fade(i) <= D(i) /\ fade(i) <= D(i + 1)
    <3>1. FadeFits(i)
      BY <1>2
    <3> QED BY <3>1 DEF FadeFits
  <2>2. fade(i) \in Nat /\ D(i) \in Nat
    BY <1>2
  <2>3. i < n => D(i + 1) \in Nat
    BY <1>2
  <2> HIDE DEF fade, D
  <2> QED BY <2>1, <2>2, <2>3
<1> HIDE DEF n, D, fade
<1>5. \A i \in 1..n, x \in Nat : i # 1 => Next(i, x) \in Nat
  <2> SUFFICES ASSUME NEW i \in 1..n, NEW x \in Nat, i # 1 PROVE Next(i, x) \in Nat
    OBVIOUS
  <2>1. i - 1 \in 1..n
    BY <1>2
  <2>2. D(i - 1) \in Nat /\ fade(i - 1) \in Nat /\ fade(i - 1) <= D(i - 1)
    BY <2>1, <1>2, <1>4
  <2> QED BY <2>2
<1>6. \A i \in 1..n, x \in Nat : i # 1 => Next(i, x) = x + D(i - 1) - fade(i - 1)
  OBVIOUS
<1> HIDE DEF Next, c
<1>b. PICK g : g = [i \in 1..n |-> [x \in Nat |-> IF i = 1 THEN 0 ELSE Next(i, x)]]
  OBVIOUS
<1>7. g \in [1..n -> [Nat -> Nat]]
  BY <1>b, <1>5
<1>8. \A x \in Nat, i \in 1..n : g[i][x] = IF i = 1 THEN 0 ELSE Next(i, x)
  BY <1>b
<1>9. PICK F \in [0..n -> Nat] : F[0] = 0 /\ \A i \in 1..n : F[i] = g[i][F[i - 1]]
  <2>1. \E F : GoesThrough(F, n, Nat, 0, g)
    BY <1>2, <1>7, StepByStep
  <2> QED BY <2>1 DEF GoesThrough
<1>10. \A i \in 1..n : F[i] = IF i = 1 THEN 0 ELSE Next(i, F[i - 1])
  <2>1. \A i \in 1..n : i - 1 \in 0..n
    BY <1>2
  <2> QED BY <2>1, <1>8, <1>9
<1>11. \E G : G = [i \in DOMAIN c |-> IF i = 1 THEN 0 ELSE Next(i, G[i - 1])]
  <2> DEFINE G == [i \in 1..n |-> F[i]]
  <2>1. \A i \in 1..n : i # 1 => G[i - 1] = F[i - 1]
    BY <1>2
  <2>2. \A i \in 1..n : G[i] = IF i = 1 THEN 0 ELSE Next(i, G[i - 1])
    BY <2>1, <1>10
  <2>3. G = [i \in 1..n |-> G[i]]
    OBVIOUS
  <2> HIDE DEF G
  <2>4. G = [i \in 1..n |-> IF i = 1 THEN 0 ELSE Next(i, G[i - 1])]
    BY <2>2, <2>3
  <2> QED BY <2>4, <1>2
<1>12. begins = [i \in DOMAIN c |-> IF i = 1 THEN 0 ELSE Next(i, begins[i - 1])]
  BY <1>11
<1> HIDE DEF begins
<1>13. \A i \in 1..n : begins[i] = IF i = 1 THEN 0 ELSE Next(i, begins[i - 1])
  BY <1>2, <1>12
<1>14. \A i \in 1..n : begins[i] \in Nat
  <2> DEFINE H == {i \in 0..n : i # 0 => begins[i] \in Nat}
  <2>1. 0 \in H
    BY <1>2
  <2>2. ASSUME NEW i \in 1..n, i - 1 \in H PROVE i \in H
    <3>1. i = 1 => begins[i] = 0
      BY <1>13
    <3>2. i # 1 => begins[i - 1] \in Nat
      BY <2>2
    <3>3. i # 1 => begins[i] \in Nat
      BY <3>2, <1>5, <1>13
    <3> QED BY <3>1, <3>3, <1>2
  <2> HIDE DEF H
  <2>3. \A i \in 0..n : i \in H
    BY <1>2, <2>1, <2>2, HandedOn
  <2> QED BY <2>3 DEF H
<1>15. \A i \in 1..n : /\ schedule[i].start = begins[i]
                       /\ schedule[i].duration = D(i)
                       /\ schedule[i].incoming = IF i > 1 THEN fade(i - 1) ELSE 0
  BY <1>1, <1>2, <1>3
<1>16. 1 \in 1..n
  BY <1>2
<1>17. schedule[1].start = 0 /\ schedule[1].incoming = 0
  BY <1>13, <1>15, <1>16
<1>18. ASSUME NEW i \in 1..n
       PROVE  schedule[i].incoming \in Nat /\ schedule[i].incoming <= schedule[i].duration
  <2>1. CASE i = 1
    BY <2>1, <1>2, <1>15, <1>17
  <2>2. CASE i # 1
    <3>1. i - 1 \in 1..n /\ i - 1 < n /\ (i - 1) + 1 = i /\ i > 1
      BY <2>2, <1>2
    <3>2. fade(i - 1) \in Nat /\ fade(i - 1) <= D((i - 1) + 1)
      BY <3>1, <1>2, <1>4
    <3> QED BY <3>1, <3>2, <1>15
  <2> QED BY <2>1, <2>2
<1>19. ASSUME NEW i \in 1..(n - 1)
       PROVE  /\ schedule[i + 1].incoming = fade(i)
              /\ schedule[i + 1].start + schedule[i + 1].incoming
                   = schedule[i].start + schedule[i].duration
  <2>1. i \in 1..n /\ i + 1 \in 1..n /\ i + 1 # 1 /\ i + 1 > 1 /\ (i + 1) - 1 = i
    BY <1>2
  <2>2. schedule[i + 1].incoming = fade(i)
    BY <2>1, <1>15
  <2>3. begins[i + 1] = begins[i] + D(i) - fade(i)
    BY <2>1, <1>6, <1>13, <1>14
  <2>4. begins[i] \in Nat /\ D(i) \in Nat /\ fade(i) \in Nat
    BY <2>1, <1>2, <1>14
  <2> QED BY <2>1, <2>2, <2>3, <2>4, <1>15
<1>20. \A i \in 1..n : /\ schedule[i].start \in Nat /\ schedule[i].duration \in Nat
                       /\ fade(i) \in Nat /\ fade(i) <= schedule[i].duration
  BY <1>2, <1>4, <1>14, <1>15
<1>21. plan.fps \in Nat \ {0} /\ plan.fps <= Second
  BY <1>2, SecondAssumption
<1> QED BY <1>2, <1>15, <1>17, <1>18, <1>19, <1>20, <1>21 DEF ScheduleSound, c, n, D, fade

(* The frames of a clip, t ticks of it and fps frames to the second: their *)
(* count is at most one off, no frame lies after the end of the clip, and  *)
(* the last one is inside any transition of two frames or more.            *)
WholeFrames(t, fps) == LET m == Round(t * fps, Second) IN IF m > 0 THEN m ELSE 1

LEMMA FrameRound ==
  ASSUME NEW f \in Nat, NEW fps \in Nat \ {0}
  PROVE  LET r == Round(f * Second, fps)
         IN  /\ r \in Nat
             /\ 2 * (fps * r) <= 2 * (Second * f) + fps
             /\ 2 * (Second * f) < 2 * (fps * r) + fps
<1> DEFINE a == f * Second
<1>1. a \in Nat /\ a = Second * f
  <2>1. \A x, y \in Nat : x * y \in Nat /\ x * y = y * x
    OBVIOUS
  <2> QED BY <2>1, SecondAssumption
<1> HIDE DEF a
<1>2. Round(a, fps) \in Nat /\ 2 * (fps * Round(a, fps)) <= 2 * a + fps
      /\ 2 * a < 2 * (fps * Round(a, fps)) + fps
  BY <1>1, RoundFacts
<1>3. a = f * Second
  BY DEF a
<1> QED BY <1>1, <1>2, <1>3, Zenon

LEMMA FrameCounted ==
  ASSUME NEW t \in Nat, NEW fps \in Nat \ {0}, fps <= Second
  PROVE  /\ WholeFrames(t, fps) \in Nat \ {0}
         /\ Second * WholeFrames(t, fps) <= fps * t + Second
         /\ fps * t <= Second * WholeFrames(t, fps) + Second
         /\ \A f \in 0..(WholeFrames(t, fps) - 1) : Round(f * Second, fps) <= t
         /\ \A fade \in Nat : 2 * Second <= fps * fade
              => t <= Round((WholeFrames(t, fps) - 1) * Second, fps) + fade
<1> DEFINE a == t * fps
           m == Round(a, Second)
           F == WholeFrames(t, fps)
<1>0. Second \in Nat \ {0}
  BY SecondAssumption
<1>1. a \in Nat /\ a = fps * t
  <2>1. \A x, y \in Nat : x * y \in Nat /\ x * y = y * x
    OBVIOUS
  <2> QED BY <2>1
<1>2. F = IF m > 0 THEN m ELSE 1
  BY DEF WholeFrames
<1> HIDE DEF a, F
<1>3. m \in Nat /\ 2 * (Second * m) <= 2 * a + Second /\ 2 * a < 2 * (Second * m) + Second
  BY <1>0, <1>1, RoundFacts
<1> HIDE DEF m
<1> DEFINE p == Second * F
<1>4. F \in Nat \ {0} /\ p \in Nat
  <2>1. F \in Nat \ {0}
    BY <1>2, <1>3
  <2>2. \A x, y \in Nat : x * y \in Nat
    OBVIOUS
  <2> QED BY <2>1, <2>2, <1>0
<1>5. p <= a + Second /\ a <= p + Second /\ (F # 1 => 2 * p <= 2 * a + Second) /\ 2 * a < 2 * p + Second
  <2>1. CASE m > 0
    <3>1. p = Second * m
      BY <2>1, <1>2
    <3> DEFINE q == Second * m
    <3>2. p = q /\ 2 * q <= 2 * a + Second /\ 2 * a < 2 * q + Second
      BY <3>1, <1>3
    <3> HIDE DEF q, p
    <3> QED BY <3>2, <1>0, <1>1, <1>4
  <2>2. CASE ~(m > 0)
    <3>1. m = 0 /\ F = 1
      BY <2>2, <1>2, <1>3
    <3>2. Second * m = 0 /\ p = Second
      BY <3>1, <1>0
    <3>3. 2 * a < Second
      BY <3>2, <1>0, <1>3
    <3> HIDE DEF p
    <3> QED BY <3>1, <3>2, <3>3, <1>0, <1>1
  <2> QED BY <2>1, <2>2
<1> HIDE DEF p
<1>6. \A x, y, z \in Nat : x * (y + z) = x * y + x * z /\ x * y \in Nat
  OBVIOUS
<1>7. ASSUME NEW f \in 0..(F - 1) PROVE Round(f * Second, fps) <= t
  <2> DEFINE r == Round(f * Second, fps)
             rf == fps * r
             sf == Second * f
  <2>1. f \in Nat
    BY <1>4
  <2>2. r \in Nat /\ 2 * rf <= 2 * sf + fps
    BY <2>1, FrameRound
  <2> HIDE DEF r
  <2>3. sf \in Nat /\ rf \in Nat
    BY <2>1, <2>2, <1>0, <1>6
  <2>4. CASE f = 0
    <3>1. sf = 0
      BY <2>4, <1>0
    <3>2. 2 * rf <= fps
      BY <3>1, <2>2
    <3>3. r = 0
      <4> SUFFICES ASSUME r # 0 PROVE FALSE
        OBVIOUS
      <4>1. PICK e \in Nat : r = 1 + e
        BY <2>2
      <4>2. rf = fps + fps * e /\ fps * e \in Nat
        BY <4>1, <1>6
      <4> DEFINE fe == fps * e
      <4>3. rf = fps + fe /\ fe \in Nat
        BY <4>2
      <4> HIDE DEF fe, rf
      <4> QED BY <4>3, <3>2
    <3> QED BY <3>3 DEF r
  <2>5. CASE f # 0
    <3>1. F # 1
      BY <2>5, <1>4
    <3>2. PICK k \in Nat : F = f + 1 + k
      BY <1>4
    <3>3. p = sf + Second + Second * k /\ Second * k \in Nat
      <4>1. Second * (f + (1 + k)) = Second * f + Second * (1 + k)
        BY <2>1, <1>0, <1>6
      <4>2. Second * (1 + k) = Second * 1 + Second * k /\ Second * k \in Nat /\ Second * 1 = Second
        BY <1>0, <1>6
      <4>3. F = f + (1 + k)
        BY <3>2, <2>1
      <4> QED BY <4>1, <4>2, <4>3, <2>3, <1>0 DEF p
    <3> DEFINE sk == Second * k
    <3>4. p = sf + Second + sk /\ sk \in Nat
      BY <3>3
    <3>5. t < r => \E e \in Nat : r = t + (1 + e)
      BY <2>2
    <3>6. t < r => rf >= a + fps
      <4> SUFFICES ASSUME t < r PROVE rf >= a + fps
        OBVIOUS
      <4>1. PICK e \in Nat : r = t + (1 + e)
        BY <3>5
      <4>2. rf = fps * t + fps * (1 + e) /\ fps * (1 + e) = fps * 1 + fps * e /\ fps * e \in Nat
        BY <4>1, <1>6
      <4> DEFINE fe == fps * e
      <4>3. rf = a + fps + fe /\ fe \in Nat
        BY <4>2, <1>1
      <4> HIDE DEF fe, rf
      <4> QED BY <4>3, <1>1
    <3> HIDE DEF sk, sf, rf
    <3>7. 2 * rf <= 2 * a
      BY <3>1, <3>4, <2>2, <2>3, <1>0, <1>1, <1>4, <1>5
    <3>8. ~(t < r)
      BY <3>6, <3>7, <2>3, <1>1
    <3> QED BY <3>8, <2>2 DEF r
  <2> QED BY <2>4, <2>5
<1>8. ASSUME NEW fade \in Nat, 2 * Second <= fps * fade
      PROVE  t <= Round((F - 1) * Second, fps) + fade
  <2> DEFINE r == Round((F - 1) * Second, fps)
             f == F - 1
             rf == fps * r
             sf == Second * f
             ff == fps * fade
  <2>1. f \in Nat /\ F = f + 1
    BY <1>4
  <2>2. r \in Nat /\ 2 * sf < 2 * rf + fps
    <3> HIDE DEF f
    <3>1. Round(f * Second, fps) \in Nat
          /\ 2 * (Second * f) < 2 * (fps * Round(f * Second, fps)) + fps
      BY <2>1, FrameRound
    <3> QED BY <3>1 DEF f
  <2> HIDE DEF r, f
  <2>3. sf \in Nat /\ rf \in Nat /\ ff \in Nat
    BY <2>1, <2>2, <1>0, <1>6
  <2>4. p = sf + Second
    <3>1. Second * (f + 1) = Second * f + Second * 1 /\ Second * 1 = Second
      BY <2>1, <1>0, <1>6
    <3> QED BY <3>1, <2>1 DEF p
  <2>5. SUFFICES ASSUME r + fade < t PROVE FALSE
    BY <2>2 DEF r, f
  <2>6. PICK e \in Nat : t = (r + fade) + e
    BY <2>2, <2>5
  <2>7. fps * t = fps * (r + fade) + fps * e /\ fps * (r + fade) = fps * r + fps * fade
        /\ fps * e \in Nat
    BY <2>2, <2>6, <1>6
  <2> DEFINE fe == fps * e
  <2>8. a = rf + ff + fe /\ fe \in Nat /\ 2 * Second <= ff
    BY <2>7, <1>1, <1>8
  <2> HIDE DEF fe, rf, ff, sf
  <2> QED BY <2>2, <2>3, <2>4, <2>8, <1>0, <1>1, <1>4, <1>5
<1> QED BY <1>1, <1>4, <1>5, <1>7, <1>8 DEF F, p

(* The generator's walk: the places, clip and frame, of the frames it has  *)
(* yielded, each following the one before, and the place it stands at.     *)
PlaceType == [clip : Nat, frame : Nat]
RenderType == [state : {"planned", "rendering", "rendered", "refused"}, clip : Nat, frame : Nat]

IsPlace(p) ==
  /\ p.clip \in 1..Len(plan.clips) /\ p.frame \in Nat
  /\ p.frame = 0 \/ p.frame < FrameCount(p.clip)

IsFirst(p) == p.clip = 1 /\ p.frame = 0

Follows(p, q) ==
  \/ q.clip = p.clip /\ q.frame = p.frame + 1
  \/ q.clip = p.clip + 1 /\ q.frame = 0 /\ ~(p.frame + 1 < FrameCount(p.clip))

FrameAt(p) ==
  [time   |-> schedule[p.clip].start + LocalTime(p.clip, p.frame),
   scenes |-> Scenes(p.clip, LocalTime(p.clip, p.frame))]

Walked(w) ==
  /\ w \in Seq(PlaceType)
  /\ shown = [n \in 1..Len(w) |-> FrameAt(w[n])]
  /\ \A n \in 1..Len(w) : IsPlace(w[n])
  /\ Len(w) # 0 => IsFirst(w[1])
  /\ \A n \in 2..Len(w) : Follows(w[n - 1], w[n])

Stands(w) ==
  render.state = "rendering" =>
    /\ IsPlace(render)
    /\ IF Len(w) = 0 THEN IsFirst(render) ELSE Follows(w[Len(w)], render)

NotBegun ==
  /\ shown = <<>>
  /\ render.state \in {"planned", "refused"}
  /\ render.state = "planned" => IsFirst(render)

Begins ==
  /\ PlanFits /\ schedule = ClipSchedule
  /\ render.state # "planned"
  /\ \E w : Walked(w) /\ Stands(w)

PresentationInvariant ==
  /\ plan \in Plans
  /\ render \in RenderType
  /\ NotBegun \/ Begins

LEMMA GrowsByOne ==
  ASSUME NEW n \in Nat, NEW s, s = [i \in 1..n |-> s[i]], NEW x
  PROVE  Append(s, x) = [i \in 1..(n + 1) |-> IF i = n + 1 THEN x ELSE s[i]]
<1> DEFINE S == {s[i] : i \in 1..n} \cup {x}
           t == Append(s, x)
<1>1. \A i \in 1..n : s[i] \in S
  OBVIOUS
<1>2. x \in S
  OBVIOUS
<1> HIDE DEF S
<1>3. s \in Seq(S) /\ Len(s) = n
  BY <1>1, IsASeqOf
<1>4. t \in Seq(S) /\ Len(t) = Len(s) + 1 /\ (\A i \in 1..Len(s) : t[i] = s[i]) /\ t[Len(s) + 1] = x
  BY <1>2, <1>3, AppendProperties
<1> HIDE DEF t
<1>5. Len(t) = n + 1 /\ (\A i \in 1..n : t[i] = s[i]) /\ t[n + 1] = x
  BY <1>3, <1>4
<1>6. t = [i \in 1..(n + 1) |-> t[i]]
  BY <1>4, <1>5
<1>7. \A i \in 1..(n + 1) : t[i] = IF i = n + 1 THEN x ELSE s[i]
  BY <1>5
<1>8. t = [i \in 1..(n + 1) |-> IF i = n + 1 THEN x ELSE s[i]]
  BY <1>6, <1>7
<1> QED BY <1>8 DEF t

LEMMA PresentationStarts == PresentationInit => PresentationInvariant
<1> SUFFICES ASSUME PresentationInit PROVE PresentationInvariant
  OBVIOUS
<1>1. plan \in Plans /\ shown = <<>> /\ render = [state |-> "planned", clip |-> 1, frame |-> 0]
  BY DEF PresentationInit
<1>2. render \in RenderType
  BY <1>1 DEF RenderType
<1>3. NotBegun
  BY <1>1 DEF NotBegun, IsFirst
<1> QED BY <1>1, <1>2, <1>3 DEF PresentationInvariant

(* While the plan and its schedule stay, so does what they say.            *)
LEMMA PlanStays ==
  ASSUME plan' = plan, schedule' = schedule
  PROVE  /\ \A p : FrameAt(p)' = FrameAt(p)
         /\ \A p : IsPlace(p)' <=> IsPlace(p)
         /\ \A p, q : Follows(p, q)' <=> Follows(p, q)
         /\ PlanFits' <=> PlanFits
         /\ ClipSchedule' = ClipSchedule
<1>1. \A i, f : LocalTime(i, f)' = LocalTime(i, f)
  BY DEF LocalTime
<1>2. \A i, f : Scenes(i, f)' = Scenes(i, f)
  BY DEF Scenes, Scene, Fading, NextLocal
<1>3. \A p : FrameAt(p)' = FrameAt(p)
  BY <1>1, <1>2 DEF FrameAt
<1>4. \A i : FrameCount(i)' = FrameCount(i)
  BY DEF FrameCount
<1>5. \A p : IsPlace(p)' <=> IsPlace(p)
  BY <1>4 DEF IsPlace
<1>6. \A p, q : Follows(p, q)' <=> Follows(p, q)
  BY <1>4 DEF Follows
<1>7. \A i : FadeFits(i)' <=> FadeFits(i)
  BY DEF FadeFits
<1>8. \A c : ClipFits(c)' <=> ClipFits(c)
  BY DEF ClipFits
<1>9. PlanFits' <=> PlanFits
  BY <1>7, <1>8 DEF PlanFits
<1>10. \A i : Incoming(i)' = Incoming(i)
  BY DEF Incoming
<1>11. ClipSchedule' = ClipSchedule
  BY <1>10 DEF ClipSchedule
<1> QED BY <1>3, <1>5, <1>6, <1>9, <1>11

LEMMA WalkStays ==
  ASSUME plan' = plan, schedule' = schedule, shown' = shown, NEW w, Walked(w)
  PROVE  Walked(w)'
<1>1. /\ \A p : FrameAt(p)' = FrameAt(p)
      /\ \A p : IsPlace(p)' <=> IsPlace(p)
      /\ \A p, q : Follows(p, q)' <=> Follows(p, q)
  BY PlanStays
<1>2. shown' = [n \in 1..Len(w) |-> FrameAt(w[n])']
  BY <1>1 DEF Walked
<1> QED BY <1>1, <1>2 DEF Walked

LEMMA ScheduleBegins ==
  ASSUME PresentationInvariant, Schedule
  PROVE  PresentationInvariant'
<1>1. /\ plan \in Plans /\ render \in RenderType /\ render.state = "planned"
      /\ plan' = plan /\ shown' = shown
  BY DEF PresentationInvariant, Schedule
<1>2. shown = <<>> /\ IsFirst(render)
  BY <1>1 DEF PresentationInvariant, NotBegun, Begins
<1>3. CASE PlanFits
  <2>1. schedule' = ClipSchedule /\ render' = [render EXCEPT !.state = "rendering"]
    BY <1>3 DEF Schedule, PlanFits
  <2>2. render' \in RenderType /\ render'.state = "rendering"
        /\ render'.clip = render.clip /\ render'.frame = render.frame
    BY <1>1, <2>1 DEF RenderType
  <2>3. PlanFits' /\ schedule' = ClipSchedule'
    <3>1. \A i : FadeFits(i)' <=> FadeFits(i)
      BY <1>1 DEF FadeFits
    <3>2. \A c : ClipFits(c)' <=> ClipFits(c)
      BY <1>1 DEF ClipFits
    <3>3. PlanFits'
      BY <1>1, <1>3, <3>1, <3>2 DEF PlanFits
    <3>4. \A i : Incoming(i)' = Incoming(i)
      BY <1>1 DEF Incoming
    <3>5. ClipSchedule' = ClipSchedule
      BY <1>1, <3>4 DEF ClipSchedule
    <3> QED BY <3>3, <3>5, <2>1
  <2>4. Walked(<<>>)'
    <3>1. <<>> \in Seq(PlaceType) /\ Len(<<>>) = 0
      BY EmptySeq
    <3>2. shown' = [n \in 1..0 |-> FrameAt(<<>>[n])']
      BY <1>1, <1>2
    <3> QED BY <3>1, <3>2 DEF Walked
  <2>5. Stands(<<>>)'
    <3>1. Len(<<>>) = 0
      BY EmptySeq
    <3>2. IsFirst(render)'
      BY <1>2, <2>2 DEF IsFirst
    <3>3. IsPlace(render)'
      <4>1. 1 \in 1..Len(plan.clips)
        BY <1>1, <1>3, ClipsAreWhole
      <4> QED BY <4>1, <1>1, <1>2, <2>2 DEF IsFirst, IsPlace
    <3> QED BY <3>1, <3>2, <3>3 DEF Stands
  <2>6. Begins'
    BY <2>2, <2>3, <2>4, <2>5 DEF Begins
  <2> QED BY <1>1, <2>2, <2>6 DEF PresentationInvariant
<1>4. CASE ~PlanFits
  <2>1. render' = [render EXCEPT !.state = "refused"]
    BY <1>4 DEF Schedule, PlanFits
  <2>2. render' \in RenderType /\ render'.state = "refused"
    BY <1>1, <2>1 DEF RenderType
  <2>3. NotBegun'
    BY <1>1, <1>2, <2>2 DEF NotBegun
  <2> QED BY <1>1, <2>2, <2>3 DEF PresentationInvariant
<1> QED BY <1>3, <1>4

LEMMA FrameFails ==
  ASSUME PresentationInvariant, FailFrame
  PROVE  PresentationInvariant'
<1>1. /\ plan \in Plans /\ render \in RenderType /\ render.state = "rendering"
      /\ plan' = plan /\ shown' = shown /\ schedule' = schedule
      /\ render' = [render EXCEPT !.state = "refused"]
  BY DEF PresentationInvariant, FailFrame
<1>2. render' \in RenderType /\ render'.state = "refused"
  BY <1>1 DEF RenderType
<1>3. Begins
  BY <1>1 DEF PresentationInvariant, NotBegun
<1>4. PICK w : Walked(w) /\ Stands(w)
  BY <1>3 DEF Begins
<1>5. Walked(w)'
  BY <1>1, <1>4, WalkStays
<1>6. Stands(w)'
  BY <1>2 DEF Stands
<1>7. PlanFits' /\ schedule' = ClipSchedule'
  BY <1>1, <1>3, PlanStays DEF Begins
<1>8. Begins'
  BY <1>2, <1>5, <1>6, <1>7 DEF Begins
<1> QED BY <1>1, <1>2, <1>8 DEF PresentationInvariant

LEMMA FrameYields ==
  ASSUME PresentationInvariant, YieldFrame
  PROVE  PresentationInvariant'
<1> DEFINE local == LocalTime(render.clip, render.frame)
<1>1. /\ plan \in Plans /\ render \in RenderType /\ render.state = "rendering"
      /\ plan' = plan /\ schedule' = schedule
      /\ shown' = Append(shown, FrameAt(render))
      /\ render' = IF render.frame + 1 < FrameCount(render.clip)
                     THEN [render EXCEPT !.frame = @ + 1]
                     ELSE IF render.clip < Len(plan.clips)
                            THEN [render EXCEPT !.clip = @ + 1, !.frame = 0]
                            ELSE [render EXCEPT !.state = "rendered"]
  BY DEF PresentationInvariant, YieldFrame, FrameAt
<1>2. render.clip \in Nat /\ render.frame \in Nat
  BY <1>1 DEF RenderType
<1>3. Begins
  BY <1>1 DEF PresentationInvariant, NotBegun
<1>4. PICK w : Walked(w) /\ Stands(w)
  BY <1>3 DEF Begins
<1>5. /\ IsPlace(render)
      /\ IF Len(w) = 0 THEN IsFirst(render) ELSE Follows(w[Len(w)], render)
  BY <1>1, <1>4 DEF Stands
<1>6. /\ w \in Seq(PlaceType) /\ shown = [n \in 1..Len(w) |-> FrameAt(w[n])]
      /\ \A n \in 1..Len(w) : IsPlace(w[n])
      /\ Len(w) # 0 => IsFirst(w[1])
      /\ \A n \in 2..Len(w) : Follows(w[n - 1], w[n])
  BY <1>4 DEF Walked
<1>7. PICK p : p = [clip |-> render.clip, frame |-> render.frame]
  OBVIOUS
<1>8. p \in PlaceType /\ p.clip = render.clip /\ p.frame = render.frame
  BY <1>2, <1>7 DEF PlaceType
<1>9. /\ IsPlace(p) <=> IsPlace(render)
      /\ IsFirst(p) <=> IsFirst(render)
      /\ FrameAt(p) = FrameAt(render)
      /\ \A q : Follows(q, p) <=> Follows(q, render)
  BY <1>8 DEF IsPlace, IsFirst, FrameAt, Follows
<1>a. PICK x : x = Append(w, p)
  OBVIOUS
<1>b. PICK n : n = Len(w)
  OBVIOUS
<1>10. /\ x \in Seq(PlaceType) /\ n \in Nat /\ Len(x) = n + 1
       /\ \A i \in 1..n : x[i] = w[i]
       /\ x[n + 1] = p
  BY <1>6, <1>8, <1>a, <1>b, AppendProperties, LenProperties
<1>11. /\ \A q : FrameAt(q)' = FrameAt(q)
       /\ \A q : IsPlace(q)' <=> IsPlace(q)
       /\ \A q, r : Follows(q, r)' <=> Follows(q, r)
       /\ PlanFits' <=> PlanFits
       /\ ClipSchedule' = ClipSchedule
  BY <1>1, PlanStays
<1>12. shown' = [i \in 1..(n + 1) |-> FrameAt(x[i])]
  <2> DEFINE y == FrameAt(p)
  <2>1. shown' = Append(shown, y)
    BY <1>1, <1>9
  <2>2. \A i \in 1..n : shown[i] = FrameAt(x[i])
    BY <1>6, <1>10, <1>b
  <2>3. shown = [i \in 1..n |-> shown[i]]
    BY <1>6, <1>b
  <2>4. y = FrameAt(x[n + 1])
    BY <1>10
  <2> HIDE DEF y
  <2>5. Append(shown, y) = [i \in 1..(n + 1) |-> IF i = n + 1 THEN y ELSE shown[i]]
    BY <2>3, <1>10, GrowsByOne
  <2>6. \A i \in 1..(n + 1) : (IF i = n + 1 THEN y ELSE shown[i]) = FrameAt(x[i])
    BY <2>2, <2>4, <1>10
  <2> QED BY <2>1, <2>5, <2>6
<1>13. \A i \in 1..(n + 1) : IsPlace(x[i])
  BY <1>5, <1>6, <1>9, <1>10, <1>b
<1>14. IsFirst(x[1])
  <2>1. CASE n = 0
    BY <2>1, <1>5, <1>9, <1>10, <1>b
  <2>2. CASE n # 0
    <3>1. 1 \in 1..n
      BY <2>2, <1>10
    <3> QED BY <2>2, <3>1, <1>6, <1>10, <1>b
  <2> QED BY <2>1, <2>2
<1>15. ASSUME NEW i \in 2..(n + 1) PROVE Follows(x[i - 1], x[i])
  <2>1. CASE i = n + 1
    <3>1. n # 0 /\ i - 1 = n /\ n \in 1..n
      BY <2>1, <1>10
    <3> QED BY <2>1, <3>1, <1>5, <1>9, <1>10, <1>b
  <2>2. CASE i # n + 1
    <3>1. i \in 2..n /\ i - 1 \in 1..n /\ i \in 1..n
      BY <2>2, <1>10
    <3> QED BY <3>1, <1>6, <1>10, <1>b
  <2> QED BY <2>1, <2>2
<1>16. Walked(x)'
  <2>1. shown' = [i \in 1..(n + 1) |-> FrameAt(x[i])']
    BY <1>11, <1>12
  <2> QED BY <2>1, <1>10, <1>11, <1>13, <1>14, <1>15 DEF Walked, IsFirst
<1>17. render' \in RenderType /\ render'.state # "planned" /\ Stands(x)'
  <2>0. /\ Len(x) # 0 /\ x[Len(x)] = p
        /\ render.clip \in 1..Len(plan.clips)
    BY <1>5, <1>10 DEF IsPlace
  <2>1. CASE render.frame + 1 < FrameCount(render.clip)
    <3>1. render' = [render EXCEPT !.frame = @ + 1]
      BY <2>1, <1>1
    <3>2. /\ render' \in RenderType /\ render'.state = "rendering"
          /\ render'.clip = render.clip /\ render'.frame = render.frame + 1
      BY <3>1, <1>1, <1>2 DEF RenderType
    <3> DEFINE q == render'
    <3>3. IsPlace(q)
      BY <2>0, <2>1, <3>2, <1>2 DEF IsPlace
    <3>4. Follows(p, q)
      BY <3>2, <1>8 DEF Follows
    <3>5. IsPlace(render)' /\ Follows(p, render)'
      <4>1. IsPlace(render)' <=> IsPlace(q)
        BY <1>1 DEF IsPlace, FrameCount
      <4>2. Follows(p, render)' <=> Follows(p, q)
        BY <1>1 DEF Follows, FrameCount
      <4> QED BY <4>1, <4>2, <3>3, <3>4
    <3> QED BY <2>0, <3>2, <3>5 DEF Stands
  <2>2. CASE ~(render.frame + 1 < FrameCount(render.clip)) /\ render.clip < Len(plan.clips)
    <3>1. render' = [render EXCEPT !.clip = @ + 1, !.frame = 0]
      BY <2>2, <1>1
    <3> DEFINE c == render.clip + 1
    <3>a. c \in Nat /\ 0 \in Nat /\ render' = [render EXCEPT !.clip = c, !.frame = 0]
      BY <3>1, <1>2
    <3> HIDE DEF c
    <3>b. render' \in RenderType
      BY <3>a, <1>1, Zenon DEF RenderType
    <3>c. render'.state = "rendering" /\ render'.clip = c /\ render'.frame = 0
      BY <3>a, <1>1 DEF RenderType
    <3>2. /\ render' \in RenderType /\ render'.state = "rendering"
          /\ render'.clip = render.clip + 1 /\ render'.frame = 0
      BY <3>b, <3>c DEF c
    <3> DEFINE q == render'
    <3>0. Len(plan.clips) \in Nat
      BY <1>1, <1>3, ClipsAreWhole DEF Begins
    <3>3. IsPlace(q)
      BY <2>0, <2>2, <3>0, <3>2, <1>2 DEF IsPlace
    <3>4. Follows(p, q)
      BY <2>2, <3>2, <1>8 DEF Follows
    <3>5. IsPlace(render)' /\ Follows(p, render)'
      <4>1. IsPlace(render)' <=> IsPlace(q)
        BY <1>1 DEF IsPlace, FrameCount
      <4>2. Follows(p, render)' <=> Follows(p, q)
        BY <1>1 DEF Follows, FrameCount
      <4> QED BY <4>1, <4>2, <3>3, <3>4
    <3> QED BY <2>0, <3>2, <3>5 DEF Stands
  <2>3. CASE ~(render.frame + 1 < FrameCount(render.clip)) /\ ~(render.clip < Len(plan.clips))
    <3>1. render' = [render EXCEPT !.state = "rendered"]
      BY <2>3, <1>1
    <3>2. render' \in RenderType /\ render'.state = "rendered"
      BY <3>1, <1>1 DEF RenderType
    <3> QED BY <3>2 DEF Stands
  <2> QED BY <2>1, <2>2, <2>3
<1>18. Begins'
  BY <1>1, <1>3, <1>11, <1>16, <1>17 DEF Begins
<1> QED BY <1>1, <1>17, <1>18 DEF PresentationInvariant

LEMMA PresentationSteps ==
  PresentationInvariant /\ [PresentationNext]_presentationVars => PresentationInvariant'
<1> SUFFICES ASSUME PresentationInvariant, [PresentationNext]_presentationVars
             PROVE  PresentationInvariant'
  OBVIOUS
<1>1. CASE Schedule
  BY <1>1, ScheduleBegins
<1>2. CASE FailFrame
  BY <1>2, FrameFails
<1>3. CASE YieldFrame
  BY <1>3, FrameYields
<1>4. CASE UNCHANGED presentationVars
  <2>1. plan' = plan /\ schedule' = schedule /\ shown' = shown /\ render' = render
    BY <1>4 DEF presentationVars
  <2>2. plan \in Plans /\ render \in RenderType /\ (NotBegun \/ Begins)
    BY DEF PresentationInvariant
  <2>3. NotBegun => NotBegun'
    BY <2>1 DEF NotBegun, IsFirst
  <2>4. ASSUME Begins PROVE Begins'
    <3>1. PICK w : Walked(w) /\ Stands(w)
      BY <2>4 DEF Begins
    <3>2. Walked(w)'
      BY <2>1, <3>1, WalkStays
    <3>3. Stands(w)'
      <4>1. IsPlace(render)' <=> IsPlace(render)
        BY <2>1 DEF IsPlace, FrameCount
      <4>2. \A p : Follows(p, render)' <=> Follows(p, render)
        BY <2>1 DEF Follows, FrameCount
      <4> QED BY <2>1, <3>1, <4>1, <4>2 DEF Stands, IsFirst
    <3>4. PlanFits' /\ schedule' = ClipSchedule'
      BY <2>1, <2>4, PlanStays DEF Begins
    <3> QED BY <2>1, <2>4, <3>2, <3>3, <3>4 DEF Begins
  <2> QED BY <2>1, <2>2, <2>3, <2>4 DEF PresentationInvariant
<1> QED BY <1>1, <1>2, <1>3, <1>4 DEF PresentationNext

(* What a place of the walk shows: a time within its clip, and beside the  *)
(* clip the next one, once the transition has begun.                       *)
LEMMA CountedFrames ==
  ASSUME ScheduleSound, NEW i \in 1..Len(plan.clips)
  PROVE  LET t == schedule[i].duration - schedule[i].incoming
         IN  t \in Nat /\ FrameCount(i) = WholeFrames(t, plan.fps)
BY DEF ScheduleSound, FrameCount, WholeFrames

LEMMA LocalWithin ==
  ASSUME ScheduleSound, NEW p, IsPlace(p)
  PROVE  LET i == p.clip
             r == Round(p.frame * Second, plan.fps)
         IN  /\ i \in 1..Len(plan.clips) /\ p.frame \in 0..(FrameCount(i) - 1)
             /\ FrameCount(i) \in Nat \ {0}
             /\ r \in Nat
             /\ LocalTime(i, p.frame) = schedule[i].incoming + r
             /\ LocalTime(i, p.frame) \in Nat
             /\ LocalTime(i, p.frame) <= schedule[i].duration
<1> DEFINE i == p.clip
           f == p.frame
           fps == plan.fps
           r == Round(f * Second, fps)
           t == schedule[i].duration - schedule[i].incoming
<1>1. /\ i \in 1..Len(plan.clips) /\ f \in Nat /\ (f = 0 \/ f < FrameCount(i))
      /\ LocalTime(i, f) = schedule[i].incoming + r
  BY DEF IsPlace, LocalTime
<1>2. /\ fps \in Nat \ {0} /\ fps <= Second
      /\ schedule[i].duration \in Nat /\ schedule[i].incoming \in Nat
      /\ schedule[i].incoming <= schedule[i].duration
  BY <1>1 DEF ScheduleSound
<1>3. t \in Nat /\ FrameCount(i) = WholeFrames(t, fps)
  BY <1>1, CountedFrames
<1>a. t = schedule[i].duration - schedule[i].incoming
  OBVIOUS
<1> HIDE DEF i, f, fps, t
<1>4. /\ WholeFrames(t, fps) \in Nat \ {0}
      /\ \A k \in 0..(WholeFrames(t, fps) - 1) : Round(k * Second, fps) <= t
  BY <1>2, <1>3, FrameCounted
<1>5. f \in 0..(FrameCount(i) - 1) /\ FrameCount(i) \in Nat \ {0}
  BY <1>1, <1>3, <1>4
<1>6. r \in Nat
  BY <1>1, <1>2, FrameRound
<1>7. r <= t
  BY <1>3, <1>4, <1>5
<1> HIDE DEF r
<1>8. /\ schedule[i].incoming + r \in Nat
      /\ schedule[i].incoming + r <= schedule[i].duration
  BY <1>2, <1>6, <1>7, <1>a
<1> QED BY <1>1, <1>5, <1>6, <1>8 DEF i, f, r, fps

LEMMA ScenesShown ==
  ASSUME ScheduleSound, NEW p, IsPlace(p)
  PROVE  LET i == p.clip
             l == LocalTime(i, p.frame)
             x == FrameAt(p).scenes
         IN  /\ FrameAt(p).time = schedule[i].start + l
             /\ x[1] = Scene(i, l)
             /\ ~Fading(i, l) => DOMAIN x = {1}
             /\ Fading(i, l) => /\ DOMAIN x = {1, 2} /\ x[2] = Scene(i + 1, NextLocal(i, l))
                                /\ i \in 1..(Len(plan.clips) - 1)
                                /\ NextLocal(i, l) \in Nat
                                /\ l + plan.clips[i].fade = NextLocal(i, l) + schedule[i].duration
<1> DEFINE i == p.clip
           l == LocalTime(i, p.frame)
           x == FrameAt(p).scenes
           a == Scene(i, l)
           b == Scene(i + 1, NextLocal(i, l))
<1>1. FrameAt(p).time = schedule[i].start + l /\ x = Scenes(i, l)
  BY DEF FrameAt
<1>2. Scenes(i, l) = <<a>> \o (IF Fading(i, l) THEN <<b>> ELSE <<>>)
  BY DEF Scenes
<1>3. i \in 1..Len(plan.clips) /\ l \in Nat /\ l <= schedule[i].duration
  BY LocalWithin
<1>4. /\ Len(plan.clips) \in Nat /\ schedule[i].duration \in Nat /\ plan.clips[i].fade \in Nat
      /\ plan.clips[i].fade <= schedule[i].duration
  BY <1>3 DEF ScheduleSound
<1> HIDE DEF a, b, l, x, i
<1>5. CASE ~Fading(i, l)
  <2>1. x = <<a>>
    BY <1>1, <1>2, <1>5
  <2>2. x[1] = a /\ DOMAIN x = {1}
    BY <2>1
  <2> QED BY <2>2, <1>1, <1>5 DEF a, x, l, i
<1>6. CASE Fading(i, l)
  <2>1. x = <<a>> \o <<b>>
    BY <1>1, <1>2, <1>6
  <2>2. x[1] = a /\ x[2] = b /\ DOMAIN x = {1, 2}
    <3> DEFINE S == {a, b}
               u == <<a>>
               v == <<b>>
    <3>1. u \in Seq(S) /\ v \in Seq(S) /\ Len(u) = 1 /\ Len(v) = 1 /\ u[1] = a /\ v[1] = b
      OBVIOUS
    <3> HIDE DEF S, u, v
    <3>2. /\ u \o v \in Seq(S) /\ Len(u \o v) = Len(u) + Len(v)
          /\ \A k \in 1..Len(u) : (u \o v)[k] = u[k]
          /\ \A k \in 1..Len(v) : (u \o v)[Len(u) + k] = v[k]
      BY <3>1, ConcatProperties
    <3>3. x = u \o v
      BY <2>1 DEF u, v
    <3>4. x \in Seq(S) /\ Len(x) = 2 /\ x[1] = a /\ x[2] = b
      BY <3>1, <3>2, <3>3
    <3> QED BY <3>4
  <2>3. i < Len(plan.clips) /\ l >= schedule[i].duration - plan.clips[i].fade
    BY <1>6 DEF Fading
  <2>4. NextLocal(i, l) = l - (schedule[i].duration - plan.clips[i].fade)
    BY DEF NextLocal
  <2>5. /\ NextLocal(i, l) \in Nat /\ i \in 1..(Len(plan.clips) - 1)
        /\ l + plan.clips[i].fade = NextLocal(i, l) + schedule[i].duration
    BY <2>3, <2>4, <1>3, <1>4
  <2> QED BY <2>2, <2>5, <1>1, <1>6 DEF a, b, x, l, i
<1> QED BY <1>5, <1>6

(* The places of a walk keep step: what the clips begun so far have lost   *)
(* or gained by rounding is less than a frame each.                        *)
Kept(p, n) ==
  LET a == plan.fps * (schedule[p.clip].start + schedule[p.clip].incoming)
      g == Second * p.frame
      m == Second * (n - 1)
      b == Second * (p.clip - 1)
  IN  a + g <= m + b /\ m <= a + g + b

LEMMA NextKept ==
  ASSUME ScheduleSound, NEW p, NEW q, IsPlace(p), IsPlace(q), Follows(p, q),
         NEW n \in Nat \ {0}, Kept(p, n)
  PROVE  Kept(q, n + 1)
<1> DEFINE fps == plan.fps
           a == fps * (schedule[p.clip].start + schedule[p.clip].incoming)
           g == Second * p.frame
           m == Second * (n - 1)
           b == Second * (p.clip - 1)
           A == fps * (schedule[q.clip].start + schedule[q.clip].incoming)
           G == Second * q.frame
           M == Second * ((n + 1) - 1)
           B == Second * (q.clip - 1)
<1>0. Second \in Nat \ {0} /\ \A x, y, z \in Nat : x * (y + z) = x * y + x * z /\ x * y \in Nat
  BY SecondAssumption
<1>1. a + g <= m + b /\ m <= a + g + b
  BY DEF Kept
<1>2. /\ fps \in Nat \ {0} /\ fps <= Second /\ Len(plan.clips) \in Nat
      /\ \A i \in 1..Len(plan.clips) :
           /\ schedule[i].start \in Nat /\ schedule[i].duration \in Nat
           /\ schedule[i].incoming \in Nat /\ schedule[i].incoming <= schedule[i].duration
      /\ \A i \in 1..(Len(plan.clips) - 1) :
           schedule[i + 1].start + schedule[i + 1].incoming
             = schedule[i].start + schedule[i].duration
  BY DEF ScheduleSound
<1>3. /\ p.clip \in 1..Len(plan.clips) /\ p.frame \in 0..(FrameCount(p.clip) - 1)
      /\ q.clip \in 1..Len(plan.clips) /\ q.frame \in 0..(FrameCount(q.clip) - 1)
      /\ FrameCount(p.clip) \in Nat \ {0} /\ FrameCount(q.clip) \in Nat \ {0}
  BY LocalWithin
<1>4. p.frame \in Nat /\ p.clip - 1 \in Nat /\ q.frame \in Nat /\ n - 1 \in Nat
  BY <1>3
<1>5. schedule[p.clip].start + schedule[p.clip].incoming \in Nat
  <2>1. schedule[p.clip].start \in Nat /\ schedule[p.clip].incoming \in Nat
    BY <1>2, <1>3
  <2> QED BY <2>1
<1>6. a \in Nat /\ g \in Nat /\ m \in Nat /\ b \in Nat
  <2> HIDE DEF fps
  <2>1. a \in Nat
    BY <1>0, <1>2, <1>5
  <2>2. g \in Nat /\ m \in Nat /\ b \in Nat
    BY <1>0, <1>4
  <2> QED BY <2>1, <2>2
<1>7. M = m + Second
  <2>1. Second * ((n - 1) + 1) = Second * (n - 1) + Second * 1 /\ Second * 1 = Second
    BY <1>0, <1>4
  <2>2. (n - 1) + 1 = (n + 1) - 1
    OBVIOUS
  <2> QED BY <2>1, <2>2
<1>8. CASE q.clip = p.clip /\ q.frame = p.frame + 1
  <2>1. A = a /\ B = b
    BY <1>8
  <2>2. G = g + Second
    <3>1. Second * (p.frame + 1) = Second * p.frame + Second * 1 /\ Second * 1 = Second
      BY <1>0, <1>4
    <3> QED BY <3>1, <1>8
  <2>3. A + G <= M + B /\ M <= A + G + B
    <3> HIDE DEF a, b, g, m, A, B, G, M
    <3> QED BY <2>1, <2>2, <1>0, <1>1, <1>6, <1>7
  <2> QED BY <2>3 DEF Kept
<1>9. CASE q.clip = p.clip + 1 /\ q.frame = 0 /\ ~(p.frame + 1 < FrameCount(p.clip))
  <2> DEFINE t == schedule[p.clip].duration - schedule[p.clip].incoming
             F == WholeFrames(t, fps)
             ft == fps * t
             sf == Second * F
  <2>1. t \in Nat /\ FrameCount(p.clip) = F
    BY <1>3, CountedFrames
  <2>a. t = schedule[p.clip].duration - schedule[p.clip].incoming
    OBVIOUS
  <2> HIDE DEF t
  <2>2. F \in Nat \ {0} /\ sf <= ft + Second /\ ft <= sf + Second
    <3> HIDE DEF fps
    <3> QED BY <2>1, <1>2, FrameCounted
  <2>3. p.frame + 1 = F
    BY <2>1, <1>3, <1>9
  <2> HIDE DEF F
  <2>4. sf = g + Second
    <3>1. Second * (p.frame + 1) = Second * p.frame + Second * 1 /\ Second * 1 = Second
      BY <1>0, <1>4
    <3> QED BY <3>1, <2>3
  <2>5. ft \in Nat /\ A = a + ft
    <3>1. p.clip \in 1..(Len(plan.clips) - 1)
      BY <1>2, <1>3, <1>9
    <3>2. schedule[p.clip + 1].start + schedule[p.clip + 1].incoming
            = schedule[p.clip].start + schedule[p.clip].duration
      BY <3>1, <1>2
    <3>3. /\ schedule[p.clip].start \in Nat /\ schedule[p.clip].incoming \in Nat
          /\ schedule[p.clip].duration \in Nat
      BY <1>2, <1>3
    <3>4. schedule[q.clip].start + schedule[q.clip].incoming
            = (schedule[p.clip].start + schedule[p.clip].incoming) + t
      BY <3>2, <3>3, <2>a, <1>9
    <3> DEFINE u == schedule[p.clip].start + schedule[p.clip].incoming
    <3>5. u \in Nat /\ A = fps * (u + t) /\ a = fps * u
      BY <3>4, <1>5
    <3> HIDE DEF u, fps, A, a
    <3>6. fps * (u + t) = fps * u + fps * t /\ fps * t \in Nat
      BY <3>5, <2>1, <1>0, <1>2
    <3> QED BY <3>5, <3>6
  <2>6. B = b + Second
    <3>1. Second * ((p.clip - 1) + 1) = Second * (p.clip - 1) + Second * 1 /\ Second * 1 = Second
      BY <1>0, <1>4
    <3>2. q.clip - 1 = (p.clip - 1) + 1
      BY <1>3, <1>9
    <3> QED BY <3>1, <3>2
  <2>7. G = 0
    BY <1>0, <1>9
  <2>8. A + G <= M + B /\ M <= A + G + B
    <3> HIDE DEF a, b, g, m, A, B, G, M, sf, ft
    <3> QED BY <2>2, <2>4, <2>5, <2>6, <2>7, <1>0, <1>1, <1>6, <1>7
  <2> QED BY <2>8 DEF Kept
<1> QED BY <1>8, <1>9 DEF Follows

LEMMA WalkKept ==
  ASSUME ScheduleSound, NEW w, Walked(w)
  PROVE  \A n \in 1..Len(w) : Kept(w[n], n)
<1>1. /\ \A n \in 1..Len(w) : IsPlace(w[n])
      /\ Len(w) # 0 => IsFirst(w[1])
      /\ \A n \in 2..Len(w) : Follows(w[n - 1], w[n])
      /\ Len(w) \in Nat
  BY LenProperties DEF Walked
<1> DEFINE N == Len(w)
           H == {n \in 0..N : n # 0 => Kept(w[n], n)}
<1> HIDE DEF N
<1>2. 0 \in H
  BY <1>1 DEF N
<1>3. ASSUME NEW n \in 1..N, n - 1 \in H PROVE n \in H
  <2>1. CASE n = 1
    <3>1. IsFirst(w[1])
      BY <1>1 DEF N
    <3>2. w[1].clip = 1 /\ w[1].frame = 0
      BY <3>1 DEF IsFirst
    <3>3. schedule[1].start = 0 /\ schedule[1].incoming = 0 /\ plan.fps \in Nat
      BY DEF ScheduleSound
    <3>4. plan.fps * (0 + 0) = 0 /\ Second * 0 = 0 /\ Second * (1 - 1) = 0
      BY <3>3, SecondAssumption
    <3>5. Kept(w[1], 1)
      BY <3>2, <3>3, <3>4 DEF Kept
    <3> QED BY <2>1, <3>5, <1>1 DEF N
  <2>2. CASE n # 1
    <3>1. n - 1 \in 1..N /\ n \in 2..N /\ (n - 1) + 1 = n /\ n - 1 \in Nat \ {0} /\ n - 1 # 0
      BY <2>2, <1>1 DEF N
    <3>2. Kept(w[n - 1], n - 1)
      BY <3>1, <1>3
    <3> DEFINE p == w[n - 1]
               q == w[n]
               k == n - 1
    <3>3. IsPlace(p) /\ IsPlace(q) /\ Follows(p, q) /\ Kept(p, k) /\ k \in Nat \ {0} /\ k + 1 = n
      BY <3>1, <3>2, <1>1 DEF N
    <3> HIDE DEF p, q, k
    <3>4. Kept(q, k + 1)
      BY <3>3, NextKept
    <3>5. Kept(w[n], n)
      BY <3>3, <3>4 DEF q
    <3> QED BY <3>1, <3>5
  <2> QED BY <2>1, <2>2
<1> HIDE DEF H
<1>4. \A n \in 0..N : n \in H
  BY <1>1, <1>2, <1>3, HandedOn DEF N
<1> QED BY <1>4, <1>1 DEF H, N

LEMMA WalkInStep ==
  ASSUME ScheduleSound, NEW w, Walked(w)
  PROVE  InStep
<1>1. /\ shown = [n \in 1..Len(w) |-> FrameAt(w[n])] /\ Len(w) \in Nat
      /\ \A n \in 1..Len(w) : IsPlace(w[n])
  BY LenProperties DEF Walked
<1> SUFFICES ASSUME NEW n \in 1..Len(w)
             PROVE  Abs(shown[n].time * plan.fps - (n - 1) * Second)
                      <= shown[n].scenes[1].clip * Second
  BY <1>1 DEF InStep
<1>2. PICK p : p = w[n]
  OBVIOUS
<1>3. IsPlace(p) /\ Kept(p, n) /\ shown[n] = FrameAt(p)
  BY <1>1, <1>2, WalkKept
<1> DEFINE i == p.clip
           f == p.frame
           fps == plan.fps
           r == Round(f * Second, fps)
           u == schedule[i].start + schedule[i].incoming
           a == fps * u
           g == Second * f
           m == Second * (n - 1)
           b == Second * (i - 1)
           fr == fps * r
<1>4. /\ i \in 1..Len(plan.clips) /\ f \in Nat /\ r \in Nat
      /\ LocalTime(i, f) = schedule[i].incoming + r
  <2>1. f \in 0..(FrameCount(i) - 1) /\ FrameCount(i) \in Nat \ {0}
    BY <1>3, LocalWithin
  <2> QED BY <2>1, <1>3, LocalWithin
<1>5. shown[n].time = schedule[i].start + LocalTime(i, f)
  BY <1>3, ScenesShown
<1>6. shown[n].scenes[1].clip = i
  <2>1. shown[n].scenes[1] = Scene(i, LocalTime(i, f))
    BY <1>3, ScenesShown
  <2> QED BY <2>1 DEF Scene
<1>7. fps \in Nat \ {0} /\ fps <= Second /\ schedule[i].start \in Nat /\ schedule[i].incoming \in Nat
  BY <1>4 DEF ScheduleSound
<1>8. a + g <= m + b /\ m <= a + g + b
  BY <1>3 DEF Kept
<1>9. 2 * fr <= 2 * g + fps /\ 2 * g < 2 * fr + fps
  <2> HIDE DEF f, fps
  <2> QED BY <1>4, <1>7, FrameRound
<1>10. u \in Nat /\ shown[n].time = u + r
  <2>1. \A x, y, z \in Nat : x + (y + z) = (x + y) + z /\ x + y \in Nat
    OBVIOUS
  <2>2. PICK first : first = schedule[i].start
    OBVIOUS
  <2>3. PICK fade : fade = schedule[i].incoming
    OBVIOUS
  <2>4. PICK rounded : rounded = r
    OBVIOUS
  <2>5. first \in Nat /\ fade \in Nat /\ rounded \in Nat
    BY <1>4, <1>7, <2>2, <2>3, <2>4
  <2>6. shown[n].time = first + (fade + rounded) /\ u = first + fade
    BY <1>4, <1>5, <2>2, <2>3, <2>4
  <2> HIDE DEF u, r
  <2>7. first + (fade + rounded) = (first + fade) + rounded /\ first + fade \in Nat
    BY <2>1, <2>5
  <2> QED BY <2>4, <2>6, <2>7
<1>0. Second \in Nat \ {0} /\ \A x, y, z \in Nat : /\ x * (y + z) = x * y + x * z
                                                   /\ x * y \in Nat /\ x * y = y * x
  BY SecondAssumption
<1> HIDE DEF i, f, fps, r, u
<1>11. shown[n].time * fps = a + fr /\ a \in Nat /\ fr \in Nat
  <2>1. u + r \in Nat
    BY <1>4, <1>10
  <2>2. (u + r) * fps = fps * (u + r)
    BY <2>1, <1>0, <1>7
  <2>3. fps * (u + r) = fps * u + fps * r /\ fps * u \in Nat /\ fps * r \in Nat
    BY <1>0, <1>4, <1>7, <1>10
  <2> QED BY <2>2, <2>3, <1>10
<1>12. g \in Nat /\ m \in Nat /\ b \in Nat /\ (n - 1) * Second = m /\ i * Second = b + Second
  <2>1. i - 1 \in Nat /\ n - 1 \in Nat /\ i \in Nat /\ i = (i - 1) + 1
    BY <1>1, <1>4
  <2>2. Second * ((i - 1) + 1) = Second * (i - 1) + Second * 1 /\ Second * 1 = Second
    BY <2>1, <1>0
  <2>3. i * Second = Second * i /\ (n - 1) * Second = Second * (n - 1)
    BY <2>1, <1>0
  <2>4. g \in Nat /\ m \in Nat /\ b \in Nat
    BY <2>1, <1>0, <1>4
  <2> QED BY <2>1, <2>2, <2>3, <2>4
<1> HIDE DEF a, g, m, b, fr
<1>13. (a + fr) - m <= b + Second /\ m - (a + fr) <= b + Second
  BY <1>0, <1>7, <1>8, <1>9, <1>11, <1>12
<1>14. Abs((a + fr) - m) <= b + Second
  BY <1>11, <1>12, <1>13 DEF Abs
<1> QED BY <1>6, <1>11, <1>12, <1>14 DEF fps

(* The clips a place shows, each with its own time.                        *)
Shows(p, c, t) ==
  LET l == LocalTime(p.clip, p.frame)
  IN  \/ c = p.clip /\ t = l
      \/ c = p.clip + 1 /\ t = NextLocal(p.clip, l) /\ Fading(p.clip, l)

LEMMA SceneShows ==
  ASSUME ScheduleSound, NEW p, IsPlace(p), NEW k \in DOMAIN FrameAt(p).scenes
  PROVE  LET x == FrameAt(p).scenes[k]
         IN  /\ Shows(p, x.clip, x.local)
             /\ x.source = SourceTime(plan.clips[x.clip], x.local)
             /\ x.clip \in 1..Len(plan.clips) /\ x.local \in Nat
<1> DEFINE i == p.clip
           l == LocalTime(i, p.frame)
           s == FrameAt(p).scenes
<1>1. i \in 1..Len(plan.clips) /\ l \in Nat
  BY LocalWithin
<1>2. Len(plan.clips) \in Nat
  BY DEF ScheduleSound
<1>3. /\ s[1] = Scene(i, l)
      /\ ~Fading(i, l) => DOMAIN s = {1}
      /\ Fading(i, l) => /\ DOMAIN s = {1, 2} /\ s[2] = Scene(i + 1, NextLocal(i, l))
                         /\ i \in 1..(Len(plan.clips) - 1)
                         /\ NextLocal(i, l) \in Nat
  BY ScenesShown
<1>4. k \in DOMAIN s
  OBVIOUS
<1> HIDE DEF s
<1>6. CASE k = 1
  <2>1. s[k].clip = i /\ s[k].local = l /\ s[k].source = SourceTime(plan.clips[i], l)
    BY <1>3, <1>6 DEF Scene
  <2> QED BY <2>1, <1>1 DEF Shows, s
<1>7. CASE k # 1
  <2>1. Fading(i, l) /\ k = 2
    BY <1>3, <1>4, <1>7
  <2> DEFINE t == NextLocal(i, l)
  <2>2. s[k].clip = i + 1 /\ s[k].local = t /\ s[k].source = SourceTime(plan.clips[i + 1], t)
    BY <2>1, <1>3 DEF Scene
  <2>3. i + 1 \in 1..Len(plan.clips) /\ t \in Nat
    BY <2>1, <1>2, <1>3
  <2> QED BY <2>1, <2>2, <2>3 DEF Shows, s
<1> QED BY <1>6, <1>7

LEMMA ShownScene ==
  ASSUME ScheduleSound, NEW p, IsPlace(p), NEW c, NEW t, Shows(p, c, t)
  PROVE  \E k \in DOMAIN FrameAt(p).scenes : FrameAt(p).scenes[k].clip = c
<1> DEFINE i == p.clip
           l == LocalTime(i, p.frame)
           s == FrameAt(p).scenes
<1>1. /\ s[1] = Scene(i, l)
      /\ ~Fading(i, l) => DOMAIN s = {1}
      /\ Fading(i, l) => DOMAIN s = {1, 2} /\ s[2] = Scene(i + 1, NextLocal(i, l))
  BY ScenesShown
<1>2. c = i \/ (c = i + 1 /\ Fading(i, l))
  BY DEF Shows
<1> HIDE DEF s
<1>3. CASE c = i
  <2>1. 1 \in DOMAIN s /\ s[1].clip = c
    BY <1>1, <1>3 DEF Scene
  <2> QED BY <2>1 DEF s
<1>4. CASE c = i + 1 /\ Fading(i, l)
  <2>1. 2 \in DOMAIN s /\ s[2].clip = c
    BY <1>1, <1>4 DEF Scene
  <2> QED BY <2>1 DEF s
<1> QED BY <1>2, <1>3, <1>4

(* From one frame of a clip to the next its time grows, by less than two   *)
(* ticks more than a frame.                                                *)
LEMMA NextFrameLater ==
  ASSUME ScheduleSound, NEW p, NEW q, IsPlace(p), IsPlace(q),
         q.clip = p.clip, q.frame = p.frame + 1
  PROVE  LET l == LocalTime(p.clip, p.frame)
             m == LocalTime(q.clip, q.frame)
         IN  l \in Nat /\ m \in Nat /\ l <= m /\ plan.fps * (m - l) < Second + plan.fps
<1> DEFINE i == p.clip
           f == p.frame
           g == q.frame
           fps == plan.fps
           r == Round(f * Second, fps)
           s == Round(g * Second, fps)
           l == LocalTime(i, f)
           m == LocalTime(i, g)
<1>1. l \in Nat /\ m \in Nat /\ r \in Nat /\ s \in Nat
  BY LocalWithin
<1>2. l = schedule[i].incoming + r /\ m = schedule[i].incoming + s
  BY DEF LocalTime
<1>3. i \in 1..Len(plan.clips) /\ f \in 0..(FrameCount(i) - 1) /\ FrameCount(i) \in Nat \ {0}
  BY LocalWithin
<1>4. fps \in Nat \ {0} /\ schedule[i].incoming \in Nat
  BY <1>3 DEF ScheduleSound
<1>5. f \in Nat /\ g \in Nat /\ g = f + 1
  BY <1>3
<1>0. Second \in Nat \ {0} /\ \A x, y, z \in Nat : /\ x * (y + z) = x * y + x * z
                                                   /\ x * y \in Nat /\ x * y = y * x
  BY SecondAssumption
<1>a. r = Round(f * Second, fps) /\ s = Round(g * Second, fps)
  OBVIOUS
<1>b. l = LocalTime(p.clip, p.frame) /\ m = LocalTime(q.clip, q.frame)
  OBVIOUS
<1> HIDE DEF f, g, fps, r, s, l, m
<1> DEFINE sf == Second * f
           sg == Second * g
           fr == fps * r
           fs == fps * s
<1>6. sg = sf + Second /\ sf \in Nat
  <2>1. Second * (f + 1) = Second * f + Second * 1 /\ Second * 1 = Second /\ Second * f \in Nat
    BY <1>0, <1>5
  <2> QED BY <2>1, <1>5
<1>7. 2 * fr <= 2 * sf + fps /\ 2 * sf < 2 * fr + fps
  BY <1>4, <1>5, <1>a, FrameRound
<1>8. 2 * fs <= 2 * sg + fps /\ 2 * sg < 2 * fs + fps
  BY <1>4, <1>5, <1>a, FrameRound
<1>9. r <= s
  <2> DEFINE x == f * Second
             y == g * Second
  <2>1. x = sf /\ y = sg
    BY <1>0, <1>5
  <2>2. x \in Nat /\ y \in Nat /\ x <= y
    BY <2>1, <1>0, <1>6
  <2> HIDE DEF x, y
  <2>3. Round(x, fps) <= Round(y, fps)
    BY <2>2, <1>4, RoundGrows
  <2> QED BY <2>3, <1>a DEF x, y
<1>10. PICK d \in Nat : s = r + d
  BY <1>1, <1>9
<1>11. fs = fr + fps * d /\ fps * d \in Nat /\ fr \in Nat
  BY <1>0, <1>1, <1>4, <1>10
<1> DEFINE fd == fps * d
<1>12. fs = fr + fd /\ fd \in Nat
  BY <1>11
<1>13. m - l = d /\ l <= m
  BY <1>1, <1>2, <1>4, <1>10
<1> HIDE DEF sf, sg, fr, fs, fd
<1>14. fd < Second + fps
  BY <1>0, <1>4, <1>6, <1>7, <1>8, <1>11, <1>12
<1>15. fps * (m - l) < Second + fps
  BY <1>13, <1>14 DEF fd
<1> QED BY <1>1, <1>13, <1>15, <1>b DEF fps

LEMMA ShownLater ==
  ASSUME ScheduleSound, NEW p, NEW q, IsPlace(p), IsPlace(q), Follows(p, q),
         NEW c, NEW t, NEW u, Shows(p, c, t), Shows(q, c, u)
  PROVE  t <= u
<1> DEFINE i == p.clip
           l == LocalTime(i, p.frame)
           m == LocalTime(q.clip, q.frame)
<1>1. /\ i \in 1..Len(plan.clips) /\ l \in Nat /\ l <= schedule[i].duration
      /\ q.clip \in 1..Len(plan.clips) /\ m \in Nat
  BY LocalWithin
<1>2. (c = i /\ t = l) \/ (c = i + 1 /\ t = NextLocal(i, l) /\ Fading(i, l))
  BY DEF Shows
<1>3. (c = q.clip /\ u = m) \/ (c = q.clip + 1 /\ u = NextLocal(q.clip, m) /\ Fading(q.clip, m))
  BY DEF Shows
<1>4. /\ schedule[i].duration \in Nat /\ plan.clips[i].fade \in Nat
      /\ plan.clips[i].fade <= schedule[i].duration
      /\ Len(plan.clips) \in Nat
  BY <1>1 DEF ScheduleSound
<1>5. CASE q.clip = i /\ q.frame = p.frame + 1
  <2>1. l <= m
    BY <1>5, NextFrameLater
  <2>2. NextLocal(i, l) = l - (schedule[i].duration - plan.clips[i].fade)
        /\ NextLocal(i, m) = m - (schedule[i].duration - plan.clips[i].fade)
    BY DEF NextLocal
  <2> HIDE DEF i, l, m
  <2>3. CASE c = i
    <3>1. t = l /\ u = m
      BY <2>3, <1>1, <1>2, <1>3, <1>5
    <3> QED BY <3>1, <2>1
  <2>4. CASE c # i
    <3>1. t = NextLocal(i, l) /\ u = NextLocal(i, m)
      BY <2>4, <1>2, <1>3, <1>5
    <3> QED BY <3>1, <2>1, <2>2, <1>1, <1>4
  <2> QED BY <2>3, <2>4
<1>6. CASE q.clip = i + 1 /\ q.frame = 0
  <2>1. c = i + 1 /\ t = NextLocal(i, l) /\ u = m
    <3> HIDE DEF i, l, m
    <3> QED BY <1>1, <1>2, <1>3, <1>6
  <2>2. t = l - (schedule[i].duration - plan.clips[i].fade)
    BY <2>1 DEF NextLocal
  <2>3. t <= plan.clips[i].fade
    <3> HIDE DEF i, l
    <3> QED BY <2>2, <1>1, <1>4
  <2>4. i \in 1..(Len(plan.clips) - 1)
    BY <1>1, <1>4, <1>6
  <2>5. schedule[i + 1].incoming = plan.clips[i].fade
    BY <2>4 DEF ScheduleSound
  <2> DEFINE r == Round(q.frame * Second, plan.fps)
  <2>6. m = schedule[q.clip].incoming + r /\ r \in Nat
    BY LocalWithin
  <2>7. t \in Int
    <3> HIDE DEF i, l
    <3> QED BY <2>2, <1>1, <1>4
  <2> HIDE DEF r, i, l, m
  <2>8. plan.clips[i].fade <= m
    BY <2>5, <2>6, <1>4, <1>6
  <2> QED BY <2>1, <2>3, <2>7, <2>8, <1>1, <1>4
<1> QED BY <1>5, <1>6 DEF Follows

LEMMA WalkForward ==
  ASSUME ScheduleSound, NEW w, Walked(w)
  PROVE  ClipsRunForward
<1>1. /\ shown = [n \in 1..Len(w) |-> FrameAt(w[n])] /\ Len(w) \in Nat
      /\ \A n \in 1..Len(w) : IsPlace(w[n])
      /\ \A n \in 2..Len(w) : Follows(w[n - 1], w[n])
  BY LenProperties DEF Walked
<1> SUFFICES ASSUME NEW n \in 1..Len(w), NEW a \in DOMAIN shown[n].scenes
             PROVE  LET here == shown[n].scenes[a]
                        clip == plan.clips[here.clip]
                    IN  /\ clip.start <= here.source /\ here.source <= clip.end
                        /\ Abs(PresentationTime(clip, here.source)
                                 - (IF here.local < RenderedDuration(clip) THEN here.local
                                    ELSE RenderedDuration(clip))) <= 1
                        /\ n > 1 => \A b \in DOMAIN shown[n - 1].scenes :
                             shown[n - 1].scenes[b].clip = here.clip
                               => shown[n - 1].scenes[b].local <= here.local
  BY <1>1 DEF ClipsRunForward
<1> DEFINE here == shown[n].scenes[a]
           clip == plan.clips[here.clip]
<1>2. PICK q : q = w[n]
  OBVIOUS
<1>3. IsPlace(q) /\ shown[n] = FrameAt(q)
  BY <1>1, <1>2
<1>4. /\ Shows(q, here.clip, here.local)
      /\ here.source = SourceTime(clip, here.local)
      /\ here.clip \in 1..Len(plan.clips) /\ here.local \in Nat
  BY <1>3, SceneShows
<1>5. WholeClip(clip)
  BY <1>4 DEF ScheduleSound
<1> HIDE DEF here, clip
<1>6. SourceIsRight(clip, here.local, here.source)
  BY <1>4, <1>5, SourceTimeIsRight
<1>7. ASSUME n > 1, NEW b \in DOMAIN shown[n - 1].scenes, shown[n - 1].scenes[b].clip = here.clip
      PROVE  shown[n - 1].scenes[b].local <= here.local
  <2> DEFINE there == shown[n - 1].scenes[b]
  <2>1. n - 1 \in 1..Len(w) /\ n \in 2..Len(w)
    BY <1>1, <1>7
  <2>2. PICK p : p = w[n - 1]
    OBVIOUS
  <2>3. IsPlace(p) /\ shown[n - 1] = FrameAt(p) /\ Follows(p, q)
    BY <1>1, <1>2, <2>1, <2>2
  <2>4. Shows(p, there.clip, there.local)
    BY <2>3, SceneShows
  <2>5. there.clip = here.clip
    BY <1>7
  <2> HIDE DEF there
  <2>6. Shows(p, here.clip, there.local)
    BY <2>4, <2>5
  <2>7. there.local <= here.local
    BY <1>3, <1>4, <2>3, <2>6, ShownLater
  <2> QED BY <2>7 DEF there
<1> QED BY <1>6, <1>7 DEF SourceIsRight, here, clip

(* The last frame of a clip is inside the transition out of it, if that is *)
(* two frames long or more.                                                *)
LEMMA LastFrameFades ==
  ASSUME ScheduleSound, NEW p, IsPlace(p), ~(p.frame + 1 < FrameCount(p.clip)),
         p.clip + 1 \in 1..Len(plan.clips),
         schedule[p.clip + 1].incoming * plan.fps >= 2 * Second
  PROVE  Fading(p.clip, LocalTime(p.clip, p.frame))
<1> DEFINE i == p.clip
           fps == plan.fps
           t == schedule[i].duration - schedule[i].incoming
           F == WholeFrames(t, fps)
           r == Round(p.frame * Second, fps)
           l == LocalTime(i, p.frame)
           fade == plan.clips[i].fade
<1>1. /\ i \in 1..Len(plan.clips) /\ p.frame \in 0..(FrameCount(i) - 1)
      /\ FrameCount(i) \in Nat \ {0} /\ r \in Nat
      /\ l = schedule[i].incoming + r
  BY LocalWithin
<1>2. t \in Nat /\ FrameCount(i) = F
  BY <1>1, CountedFrames
<1>3. p.frame = F - 1
  BY <1>1, <1>2
<1>4. /\ fps \in Nat \ {0} /\ fps <= Second /\ Len(plan.clips) \in Nat
      /\ schedule[i].duration \in Nat /\ schedule[i].incoming \in Nat /\ fade \in Nat
  BY <1>1 DEF ScheduleSound
<1>5. i \in 1..(Len(plan.clips) - 1)
  BY <1>1, <1>4
<1>6. schedule[i + 1].incoming = fade
  BY <1>5 DEF ScheduleSound
<1>7. fade * fps >= 2 * Second
  BY <1>6
<1>a. t = schedule[i].duration - schedule[i].incoming /\ r = Round((F - 1) * Second, fps)
  BY <1>3
<1>b. \A x, y \in Nat : x * y = y * x
  OBVIOUS
<1> HIDE DEF i, fps, t, r, l, fade, F
<1>8. fps * fade >= 2 * Second
  BY <1>4, <1>7, <1>b
<1>9. 2 * Second <= fps * fade
  <2> DEFINE z == fps * fade
  <2>1. z \in Nat
    <3>1. \A x, y \in Nat : x * y \in Nat
      OBVIOUS
    <3> QED BY <3>1, <1>4
  <2>2. z >= 2 * Second
    BY <1>8
  <2> HIDE DEF z
  <2>3. 2 * Second <= z
    BY <2>1, <2>2, SecondAssumption
  <2> QED BY <2>3 DEF z
<1>10. t <= r + fade
  BY <1>2, <1>4, <1>9, <1>a, FrameCounted DEF F
<1>11. l >= schedule[i].duration - fade
  <2>1. t = schedule[i].duration - schedule[i].incoming /\ l = schedule[i].incoming + r
    BY <1>1, <1>a
  <2>2. /\ t \in Nat /\ r \in Nat /\ fade \in Nat /\ t <= r + fade
        /\ schedule[i].duration \in Nat /\ schedule[i].incoming \in Nat
    BY <1>1, <1>2, <1>4, <1>10
  <2> DEFINE D == schedule[i].duration
             I == schedule[i].incoming
  <2>3. t = D - I /\ l = I + r
    BY <2>1
  <2>4. D \in Nat /\ I \in Nat
    BY <2>2
  <2> HIDE DEF D, I
  <2>5. l + fade >= D
    BY <2>2, <2>3, <2>4
  <2>6. l >= D - fade
    BY <2>2, <2>3, <2>4, <2>5
  <2> QED BY <2>6 DEF D
<1>12. fade > 0
  <2>1. fade # 0
    <3> SUFFICES ASSUME fade = 0 PROVE FALSE
      OBVIOUS
    <3>1. fps * 0 = 0
      BY <1>4
    <3> QED BY <3>1, <1>9, SecondAssumption
  <2> QED BY <2>1, <1>4
<1>13. i < Len(plan.clips)
  BY <1>4, <1>5
<1>14. Fading(i, l)
  BY <1>11, <1>12, <1>13 DEF Fading, fade
<1> QED BY <1>14 DEF i, l

LEMMA WalkFadesFromStart ==
  ASSUME ScheduleSound, NEW w, Walked(w)
  PROVE  FadesFromStart
<1>1. /\ shown = [n \in 1..Len(w) |-> FrameAt(w[n])] /\ Len(w) \in Nat
      /\ \A n \in 1..Len(w) : IsPlace(w[n])
      /\ Len(w) # 0 => IsFirst(w[1])
      /\ \A n \in 2..Len(w) : Follows(w[n - 1], w[n])
  BY LenProperties DEF Walked
<1> SUFFICES ASSUME NEW n \in 1..Len(w), NEW a \in DOMAIN shown[n].scenes,
                    \A k \in 1..(n - 1) : \A b \in DOMAIN shown[k].scenes :
                      shown[k].scenes[b].clip # shown[n].scenes[a].clip,
                    shown[n].scenes[a].clip > 1,
                    schedule[shown[n].scenes[a].clip - 1].incoming
                      + schedule[shown[n].scenes[a].clip].incoming
                      <= schedule[shown[n].scenes[a].clip - 1].duration,
                    schedule[shown[n].scenes[a].clip].incoming * plan.fps >= 2 * Second
             PROVE  shown[n].scenes[a].local * plan.fps <= Second
  BY <1>1 DEF FadesFromStart
<1>2. PICK q : q = w[n]
  OBVIOUS
<1>3. IsPlace(q) /\ shown[n] = FrameAt(q)
  BY <1>1, <1>2
<1> DEFINE c == shown[n].scenes[a].clip
           t == shown[n].scenes[a].local
           j == q.clip
           m == LocalTime(j, q.frame)
<1>4. Shows(q, c, t) /\ c \in 1..Len(plan.clips) /\ t \in Nat
  BY <1>3, SceneShows
<1>5. /\ \A k \in 1..(n - 1) : \A b \in DOMAIN shown[k].scenes : shown[k].scenes[b].clip # c
      /\ c > 1 /\ schedule[c - 1].incoming + schedule[c].incoming <= schedule[c - 1].duration
      /\ schedule[c].incoming * plan.fps >= 2 * Second
  OBVIOUS
<1> HIDE DEF c, t
<1>6. (c = j /\ t = m) \/ (c = j + 1 /\ t = NextLocal(j, m) /\ Fading(j, m))
  BY <1>4 DEF Shows
<1>7. /\ j \in 1..Len(plan.clips) /\ m \in Nat /\ m <= schedule[j].duration
      /\ m = schedule[j].incoming + Round(q.frame * Second, plan.fps)
  BY <1>3, LocalWithin
<1>8. /\ plan.fps \in Nat \ {0} /\ plan.fps <= Second /\ Len(plan.clips) \in Nat
      /\ schedule[j].duration \in Nat /\ schedule[j].incoming \in Nat
      /\ plan.clips[j].fade \in Nat /\ plan.clips[j].fade <= schedule[j].duration
      /\ schedule[1].incoming = 0
  BY <1>7 DEF ScheduleSound
(* Whatever the frame before shows, it is not this clip.                   *)
<1>9. ASSUME n # 1
      PROVE  \E p : /\ IsPlace(p) /\ Follows(p, q)
                    /\ \A u : ~Shows(p, c, u)
  <2>1. n \in 2..Len(w) /\ n - 1 \in 1..Len(w) /\ n - 1 \in 1..(n - 1)
    BY <1>1, <1>9
  <2>2. PICK p : p = w[n - 1]
    OBVIOUS
  <2>3. IsPlace(p) /\ Follows(p, q) /\ shown[n - 1] = FrameAt(p)
    BY <1>1, <1>2, <2>1, <2>2
  <2>4. \A u : ~Shows(p, c, u)
    <3> SUFFICES ASSUME NEW u, Shows(p, c, u) PROVE FALSE
      OBVIOUS
    <3>1. \E k \in DOMAIN FrameAt(p).scenes : FrameAt(p).scenes[k].clip = c
      BY <2>3, ShownScene
    <3> QED BY <3>1, <2>1, <2>3, <1>5
  <2> QED BY <2>3, <2>4
<1>10. n = 1 => j = 1 /\ q.frame = 0
  <2>1. Len(w) # 0
    BY <1>1
  <2> QED BY <2>1, <1>1, <1>2 DEF IsFirst
<1>11. Round(0 * Second, plan.fps) = 0
  <2>1. 0 * Second = 0
    BY SecondAssumption
  <2>2. Round(0, plan.fps) \in Nat /\ 2 * (plan.fps * Round(0, plan.fps)) <= 2 * 0 + plan.fps
    BY <1>8, RoundFacts
  <2>3. Round(0, plan.fps) = 0
    <3> DEFINE z == Round(0, plan.fps)
               fps == plan.fps
    <3>1. z \in Nat /\ 2 * (fps * z) <= fps /\ fps \in Nat \ {0}
      BY <2>2, <1>8
    <3> HIDE DEF z, fps
    <3> SUFFICES ASSUME z # 0 PROVE FALSE
      BY DEF z
    <3>2. PICK e \in Nat : z = 1 + e
      BY <3>1
    <3>3. fps * z = fps + fps * e /\ fps * e \in Nat
      <4>1. \A x, y \in Nat : x * (1 + y) = x + x * y /\ x * y \in Nat
        OBVIOUS
      <4> QED BY <4>1, <3>1, <3>2
    <3> DEFINE fe == fps * e
               fz == fps * z
    <3>4. fz = fps + fe /\ fe \in Nat /\ 2 * fz <= fps
      BY <3>1, <3>3
    <3> HIDE DEF fe, fz
    <3> QED BY <3>4, <3>1
  <2> QED BY <2>1, <2>3
<1> HIDE DEF j, m
<1>12. CASE c = j /\ t = m
  <2>1. n # 1
    BY <1>5, <1>10, <1>12
  <2>2. PICK p : IsPlace(p) /\ Follows(p, q) /\ \A u : ~Shows(p, c, u)
    BY <2>1, <1>9
  <2>3. q.clip # p.clip
    BY <2>2, <1>12 DEF Shows, j
  <2>4. q.clip = p.clip + 1 /\ ~(p.frame + 1 < FrameCount(p.clip))
    BY <2>2, <2>3 DEF Follows
  <2>5. c = p.clip + 1
    BY <2>4, <1>12 DEF j
  <2>6. Fading(p.clip, LocalTime(p.clip, p.frame))
    BY <2>2, <2>4, <2>5, <1>4, <1>5, LastFrameFades
  <2>7. Shows(p, c, NextLocal(p.clip, LocalTime(p.clip, p.frame)))
    BY <2>5, <2>6 DEF Shows
  <2> QED BY <2>2, <2>7
<1>13. CASE c = j + 1 /\ t = NextLocal(j, m) /\ Fading(j, m)
  <2> DEFINE d == schedule[j].duration
             fade == plan.clips[j].fade
  <2>1. t = m - (d - fade)
    BY <1>13 DEF NextLocal
  <2>2. j \in 1..(Len(plan.clips) - 1) /\ c - 1 = j
    BY <1>4, <1>7, <1>8, <1>13
  <2>3. schedule[c].incoming = fade
    BY <2>2, <1>13 DEF ScheduleSound
  <2>4. schedule[j].incoming + fade <= d
    BY <2>2, <2>3, <1>5
  <2>5. CASE q.frame = 0
    <3>1. m = schedule[j].incoming
      BY <2>5, <1>7, <1>8, <1>11
    <3>2. t = 0
      BY <3>1, <2>1, <2>4, <1>4, <1>8
    <3>3. 0 * plan.fps = 0
      BY <1>8
    <3>4. t * plan.fps <= Second
      BY <3>2, <3>3, SecondAssumption
    <3> QED BY <3>4 DEF t
  <2>6. CASE q.frame # 0
    <3>1. n # 1
      BY <2>6, <1>10
    <3>2. PICK p : IsPlace(p) /\ Follows(p, q) /\ \A u : ~Shows(p, c, u)
      BY <3>1, <1>9
    <3>3. q.clip = p.clip /\ q.frame = p.frame + 1
      BY <2>6, <3>2 DEF Follows
    <3> DEFINE l == LocalTime(p.clip, p.frame)
               fps == plan.fps
    <3>4. l \in Nat /\ m \in Nat /\ l <= m /\ fps * (m - l) < Second + fps
      BY <1>3, <3>2, <3>3, NextFrameLater DEF m, j
    <3>5. p.clip = j
      BY <3>3 DEF j
    <3>6. ~Fading(j, l)
      <4> SUFFICES ASSUME Fading(j, l) PROVE FALSE
        OBVIOUS
      <4>1. Shows(p, c, NextLocal(p.clip, l))
        BY <3>5, <1>13 DEF Shows
      <4> QED BY <4>1, <3>2
    <3>7. j < Len(plan.clips) /\ fade > 0
      BY <1>13 DEF Fading
    <3>8. ~(l >= d - fade)
      BY <3>6, <3>7 DEF Fading
    <3> HIDE DEF l
    <3>a. d \in Nat /\ fade \in Nat /\ fps \in Nat \ {0} /\ t \in Nat
      BY <1>4, <1>8
    <3> HIDE DEF d, fade, fps
    <3>9. PICK e \in Nat : m - l = t + 1 + e
      <4>1. m - l >= t + 1 /\ m - l \in Nat
        BY <2>1, <3>4, <3>8, <3>a
      <4> DEFINE e == (m - l) - (t + 1)
      <4>2. e \in Nat /\ m - l = t + 1 + e
        BY <4>1, <3>a
      <4> QED BY <4>2
    <3>10. fps * (t + 1 + e) = fps * t + fps + fps * e /\ fps * e \in Nat
           /\ fps * t \in Nat /\ t * fps = fps * t
      <4>1. \A x, y, z \in Nat : /\ x * (y + 1 + z) = x * y + x + x * z
                                 /\ x * y \in Nat /\ x * y = y * x
        OBVIOUS
      <4> QED BY <4>1, <3>a
    <3> DEFINE ft == fps * t
               fe == fps * e
    <3>11. ft + fps + fe < Second + fps /\ ft \in Nat /\ fe \in Nat /\ t * fps = ft
      BY <3>4, <3>9, <3>10
    <3> HIDE DEF ft, fe
    <3>12. ft <= Second
      BY <3>11, <3>a, SecondAssumption
    <3>13. t * fps <= Second
      BY <3>11, <3>12
    <3> QED BY <3>13 DEF t, fps
  <2> QED BY <2>5, <2>6
<1> QED BY <1>6, <1>12, <1>13

LEMMA PresentationIsInStep == PresentationInvariant => PresentationInStep
<1> SUFFICES ASSUME PresentationInvariant PROVE PresentationInStep
  OBVIOUS
<1>1. plan \in Plans /\ (NotBegun \/ Begins)
  BY DEF PresentationInvariant
<1>2. CASE NotBegun
  <2>1. DOMAIN shown = {}
    BY <1>2 DEF NotBegun
  <2> QED BY <2>1 DEF PresentationInStep, InStep, ClipsRunForward, FadesFromStart
<1>3. CASE Begins
  <2>1. ScheduleSound
    BY <1>1, <1>3, TheScheduleIsSound DEF Begins
  <2>2. PICK w : Walked(w)
    BY <1>3 DEF Begins
  <2> QED BY <2>1, <2>2, WalkInStep, WalkForward, WalkFadesFromStart DEF PresentationInStep
<1> QED BY <1>1, <1>2, <1>3

(* The rendered film keeps step with its sound, by the mapping of times in *)
(* src/render/timeline-mapping.ts and the schedule and the generator of    *)
(* src/render/raster-compositor.ts: whatever the plan, its clips, speeds   *)
(* and transitions, every frame is at most one frame per clip begun from   *)
(* its place, no clip runs backwards or leaves its trim, source times come *)
(* back to the moment they show, and a transition of two frames or more    *)
(* shows the next clip from its start.                                     *)
THEOREM PresentationsKeepStep == PresentationSpec => []PresentationInStep
<1>1. PresentationInit => PresentationInvariant
  BY PresentationStarts
<1>2. PresentationInvariant /\ [PresentationNext]_presentationVars => PresentationInvariant'
  BY PresentationSteps
<1>3. PresentationInvariant => PresentationInStep
  BY PresentationIsInStep
<1> QED BY <1>1, <1>2, <1>3, PTL DEF PresentationSpec

-----------------------------------------------------------------------------
(* 6. Project documents. *)

(* A sequence made element by element from another.                        *)
LEMMA MadeFromSequence ==
  ASSUME NEW S, NEW s \in Seq(S), NEW T, NEW f, f = [i \in DOMAIN s |-> f[i]],
         \A i \in DOMAIN s : f[i] \in T
  PROVE  f \in Seq(T) /\ DOMAIN f = DOMAIN s /\ Len(f) = Len(s)
<1> PICK n \in Nat : n = Len(s) /\ DOMAIN s = 1..n
  OBVIOUS
<1>1. f \in [1..n -> T]
  OBVIOUS
<1>2. f \in Seq(T) /\ Len(f) = n
  BY <1>1
<1> QED BY <1>2

(* A sequence with another element in one place.                           *)
LEMMA ReplacedInSequence ==
  ASSUME NEW S, NEW s \in Seq(S), NEW k, NEW v, k \in DOMAIN s => v \in S
  PROVE  [s EXCEPT ![k] = v] \in Seq(S)
<1> DEFINE f == [s EXCEPT ![k] = v]
<1>1. f = [i \in DOMAIN s |-> f[i]] /\ \A i \in DOMAIN s : f[i] \in S
  OBVIOUS
<1> HIDE DEF f
<1> QED BY <1>1, MadeFromSequence DEF f

(* What has the ids of items told apart by theirs is told apart by them.   *)
LEMMA SameIds ==
  ASSUME NEW s, NEW t, Unique(IdsOf(s)), DOMAIN t = DOMAIN s, \A i \in DOMAIN s : t[i].id = s[i].id
  PROVE  Unique(IdsOf(t))
<1>1. IdsOf(t) = IdsOf(s)
  BY DEF IdsOf
<1> QED BY <1>1

(* The item with an id: there is one at most.                              *)
LEMMA FoundById ==
  ASSUME NEW s, Unique(IdsOf(s)), NEW i \in DOMAIN s
  PROVE  /\ Knows(s, s[i].id) /\ Find(s, s[i].id) = s[i]
<1>1. s[i] \in ToSet(s)
  BY DEF ToSet
<1>2. \A x \in ToSet(s) : x.id = s[i].id => x = s[i]
  <2> SUFFICES ASSUME NEW k \in DOMAIN s, s[k].id = s[i].id PROVE s[k] = s[i]
    BY DEF ToSet
  <2>1. DOMAIN IdsOf(s) = DOMAIN s /\ IdsOf(s)[k] = s[k].id /\ IdsOf(s)[i] = s[i].id
    BY DEF IdsOf
  <2>2. k = i
    BY <2>1 DEF Unique, IsInjective
  <2> QED BY <2>2
<1>3. \E x \in ToSet(s) : x.id = s[i].id
  BY <1>1
<1> QED BY <1>1, <1>2, <1>3 DEF Knows, Find

(* An id that is known is found, somewhere in the sequence.                *)
LEMMA KnownIsFound ==
  ASSUME NEW s, NEW id, Knows(s, id)
  PROVE  \E i \in DOMAIN s : s[i].id = id /\ Find(s, id) = s[i]
<1>1. Find(s, id) \in ToSet(s) /\ Find(s, id).id = id
  BY DEF Knows, Find
<1> QED BY <1>1 DEF ToSet

(* Types of the parts of a project. *)
LEMMA PartsTyped ==
  ASSUME NEW p \in ProjectType
  PROVE  /\ p.version \in {1, 2} /\ p.revision \in Nat
         /\ p.policy \in [limit : Int, count : Int]
         /\ p.sources \in Seq(SourceType)
         /\ p.clips \in Seq(ClipType)
         /\ p.overlays \in Seq(OverlayType)
         /\ p.audio \in Seq(TrackType)
         /\ p.pips \in Seq(PipType)
         /\ p.preview \in PreviewType
         /\ p.profile \in Seq(SnapshotType)
         /\ p.media \in Seq(MediaType)
         /\ p.visuals \in Seq(VisualType)
         /\ p.transitions \in Seq(TransitionType)
         /\ p.mix \in Seq(MixType)
<1>1. p.version \in {1, 2} /\ p.revision \in Nat
  BY DEF ProjectType
<1>2. p.policy \in [limit : Int, count : Int] /\ p.sources \in Seq(SourceType)
  BY DEF ProjectType
<1>3. p.clips \in Seq(ClipType) /\ p.overlays \in Seq(OverlayType)
  BY DEF ProjectType
<1>4. p.audio \in Seq(TrackType) /\ p.pips \in Seq(PipType)
  BY DEF ProjectType
<1>5. p.preview \in PreviewType /\ p.profile \in Seq(SnapshotType)
  BY DEF ProjectType
<1>6. p.media \in Seq(MediaType) /\ p.visuals \in Seq(VisualType)
  BY DEF ProjectType
<1>7. p.transitions \in Seq(TransitionType) /\ p.mix \in Seq(MixType)
  BY DEF ProjectType
<1> QED BY <1>1, <1>2, <1>3, <1>4, <1>5, <1>6, <1>7

ProjectFields ==
  {"version", "revision", "policy", "sources", "clips", "overlays", "audio", "pips", "preview",
   "profile", "media", "visuals", "transitions", "mix"}

(* A record with the fields of a project, each typed, is a project.        *)
LEMMA PartsMakeProject ==
  ASSUME NEW p, p = [x \in ProjectFields |-> p[x]],
         p.version \in {1, 2}, p.revision \in Nat, p.policy \in [limit : Int, count : Int],
         p.sources \in Seq(SourceType), p.clips \in Seq(ClipType),
         p.overlays \in Seq(OverlayType), p.audio \in Seq(TrackType), p.pips \in Seq(PipType),
         p.preview \in PreviewType, p.profile \in Seq(SnapshotType),
         p.media \in Seq(MediaType), p.visuals \in Seq(VisualType),
         p.transitions \in Seq(TransitionType), p.mix \in Seq(MixType)
  PROVE  p \in ProjectType
BY DEF ProjectType, ProjectFields

(* A project has these fields and no other.                                *)
LEMMA FieldsOfProject ==
  ASSUME NEW p \in ProjectType
  PROVE  p = [x \in ProjectFields |-> p[x]]
BY DEF ProjectType, ProjectFields

(* What a version-2 envelope adds leaves the rest of a project alone.      *)
SameBase(p, q) ==
  /\ q.policy = p.policy /\ q.sources = p.sources /\ q.clips = p.clips
  /\ q.overlays = p.overlays /\ q.audio = p.audio /\ q.pips = p.pips
  /\ q.preview = p.preview /\ q.revision = p.revision

(* So it is as valid as before in the sections of both versions.           *)
LEMMA BaseIsKept ==
  ASSUME NEW p, NEW q, SameBase(p, q)
  PROVE  BaseOK(p) <=> BaseOK(q)
<1>1. ASSUME NEW o PROVE OnClip(p, o) <=> OnClip(q, o)
  BY DEF SameBase, OnClip, ClipLength
<1>2. OverlaysOK(p) <=> OverlaysOK(q)
  BY <1>1 DEF SameBase, OverlaysOK
<1>3. TracksOK(p) <=> TracksOK(q)
  BY <1>1 DEF SameBase, TracksOK
<1>4. TimelineOK(p) <=> TimelineOK(q)
  BY DEF SameBase, TimelineOK
<1>5. PreviewOK(p) <=> PreviewOK(q)
  BY DEF SameBase, PreviewOK
<1> QED BY <1>2, <1>3, <1>4, <1>5 DEF SameBase, BaseOK

EnvelopeOf(p, v, profile, media, visuals, transitions, mix) ==
  [p EXCEPT !.version = v, !.profile = profile, !.media = media, !.visuals = visuals,
            !.transitions = transitions, !.mix = mix]

(* The fields of a project in its new envelope.                            *)
LEMMA EnvelopeFields ==
  ASSUME NEW p \in ProjectType, NEW v, NEW a, NEW b, NEW c, NEW d, NEW e
  PROVE  LET q == EnvelopeOf(p, v, a, b, c, d, e)
         IN  /\ SameBase(p, q)
             /\ q.version = v /\ q.profile = a /\ q.media = b /\ q.visuals = c
             /\ q.transitions = d /\ q.mix = e
             /\ v \in {1, 2} /\ a \in Seq(SnapshotType) /\ b \in Seq(MediaType)
                /\ c \in Seq(VisualType) /\ d \in Seq(TransitionType) /\ e \in Seq(MixType)
                => q \in ProjectType
<1> DEFINE q == EnvelopeOf(p, v, a, b, c, d, e)
<1>1. p = [x \in ProjectFields |-> p[x]]
  BY FieldsOfProject
<1>2. /\ q.version = v /\ q.profile = a /\ q.media = b /\ q.visuals = c
      /\ q.transitions = d /\ q.mix = e
  BY <1>1 DEF EnvelopeOf, ProjectFields
<1>3. SameBase(p, q)
  BY <1>1 DEF EnvelopeOf, SameBase, ProjectFields
<1>4. q = [x \in ProjectFields |-> q[x]]
  BY <1>1 DEF EnvelopeOf
<1>5. ASSUME v \in {1, 2}, a \in Seq(SnapshotType), b \in Seq(MediaType),
             c \in Seq(VisualType), d \in Seq(TransitionType), e \in Seq(MixType)
      PROVE  q \in ProjectType
  <2> HIDE DEF q
  <2>1. /\ q.revision \in Nat /\ q.policy \in [limit : Int, count : Int]
        /\ q.sources \in Seq(SourceType) /\ q.clips \in Seq(ClipType)
        /\ q.overlays \in Seq(OverlayType) /\ q.audio \in Seq(TrackType)
        /\ q.pips \in Seq(PipType) /\ q.preview \in PreviewType
    BY <1>3, PartsTyped DEF SameBase
  <2> QED BY <1>2, <1>4, <1>5, <2>1, PartsMakeProject
<1> QED BY <1>2, <1>3, <1>5

(* The media of a migrated project, made up use by use.                    *)
UseType == [kind : {"audio", "image"}, asset : AssetType, duration : Nat \ {0}]
MadeType == [id : MediaIds, kind : {"audio", "image"}, asset : AssetType, duration : Nat \ {0}]

(* A use of an asset is typed.                                             *)
LEMMA UseIsTyped ==
  ASSUME NEW kind \in {"audio", "image"}, NEW asset \in AssetType, NEW last \in Int, NEW track,
         track.asset = asset
  PROVE  Asset(kind, track, last) \in UseType
<1>1. Larger(1, last) \in Nat \ {0}
  BY DEF Larger
<1> QED BY <1>1 DEF Asset, UseType

(* The uses are those of the audio tracks, then those of the pictures.     *)
LEMMA UsesInOrder ==
  ASSUME NEW p \in ProjectType
  PROVE  LET U == Uses(p)
             a == Len(p.audio)
             b == Len(p.pips)
         IN  /\ a \in Nat /\ b \in Nat
             /\ U \in Seq(UseType) /\ Len(U) = a + b
             /\ \A i \in 1..a : U[i] = Asset("audio", p.audio[i], p.audio[i].trim.end)
             /\ \A i \in 1..b : U[a + i] = Asset("image", p.pips[i], p.pips[i].end - p.pips[i].start)
<1> DEFINE a == Len(p.audio)
           b == Len(p.pips)
           S == [i \in DOMAIN p.audio |-> Asset("audio", p.audio[i], p.audio[i].trim.end)]
           T == [i \in DOMAIN p.pips |-> Asset("image", p.pips[i], p.pips[i].end - p.pips[i].start)]
<1>1. p.audio \in Seq(TrackType) /\ p.pips \in Seq(PipType)
  BY PartsTyped
<1>2. a \in Nat /\ b \in Nat /\ DOMAIN p.audio = 1..a /\ DOMAIN p.pips = 1..b
  BY <1>1
<1>3. ASSUME NEW i \in 1..a PROVE Asset("audio", p.audio[i], p.audio[i].trim.end) \in UseType
  <2>1. p.audio[i] \in TrackType
    BY <1>1, <1>2
  <2>2. p.audio[i].asset \in AssetType /\ p.audio[i].trim.end \in Int
    BY <2>1 DEF TrackType, TimeRange
  <2> QED BY <2>2, UseIsTyped
<1>4. ASSUME NEW i \in 1..b
      PROVE  Asset("image", p.pips[i], p.pips[i].end - p.pips[i].start) \in UseType
  <2>1. p.pips[i] \in PipType
    BY <1>1, <1>2
  <2>2. p.pips[i].asset \in AssetType /\ p.pips[i].end - p.pips[i].start \in Int
    BY <2>1 DEF PipType
  <2> QED BY <2>2, UseIsTyped
<1>5. S \in Seq(UseType) /\ Len(S) = a /\ \A i \in 1..a : S[i] = Asset("audio", p.audio[i], p.audio[i].trim.end)
  BY <1>2, <1>3
<1>6. T \in Seq(UseType) /\ Len(T) = b
      /\ \A i \in 1..b : T[i] = Asset("image", p.pips[i], p.pips[i].end - p.pips[i].start)
  BY <1>2, <1>4
<1>7. Uses(p) = S \o T
  BY DEF Uses
<1>12. a = Len(p.audio) /\ b = Len(p.pips)
  OBVIOUS
<1> HIDE DEF S, T, a, b
<1>8. S \o T \in Seq(UseType) /\ Len(S \o T) = a + b
  BY <1>2, <1>5, <1>6, ConcatProperties
<1>9. \A i \in 1..(a + b) : (S \o T)[i] = IF i <= a THEN S[i] ELSE T[i - a]
  BY <1>2, <1>5, <1>6, ConcatProperties
<1>10. ASSUME NEW i \in 1..a PROVE (S \o T)[i] = S[i]
  <2>1. i \in 1..(a + b) /\ i <= a
    BY <1>2
  <2> QED BY <1>9, <2>1
<1>11. ASSUME NEW i \in 1..b PROVE (S \o T)[a + i] = T[i]
  <2>1. a + i \in 1..(a + b) /\ ~(a + i <= a) /\ (a + i) - a = i
    BY <1>2
  <2> QED BY <1>9, <2>1
<1> QED BY <1>2, <1>5, <1>6, <1>7, <1>8, <1>10, <1>11, <1>12

(* One use: an entry of its own, or a longer duration for the one it has.  *)
LEMMA UseAdded ==
  ASSUME NEW M \in Seq(MadeType), NEW u \in UseType
  PROVE  LET N == AddUse(M, u)
         IN  /\ N \in Seq(MadeType)
             /\ \A m \in DOMAIN M :
                  /\ m \in DOMAIN N
                  /\ N[m].id = M[m].id /\ N[m].kind = M[m].kind /\ N[m].asset = M[m].asset
                  /\ N[m].duration = IF SameMedia(M[m], u) THEN Larger(M[m].duration, u.duration)
                                     ELSE M[m].duration
             /\ \/ /\ DOMAIN N = DOMAIN M /\ Len(N) = Len(M)
                   /\ \E m \in DOMAIN M : SameMedia(M[m], u)
                \/ /\ Len(N) = Len(M) + 1
                   /\ DOMAIN N = DOMAIN M \cup {Len(N)} /\ Len(N) \notin DOMAIN M
                   /\ \A m \in DOMAIN M : ~SameMedia(M[m], u)
                   /\ N[Len(N)] = [id |-> IF Knows(M, u.asset.id)
                                          THEN <<"legacy", u.kind, u.asset.digest>>
                                          ELSE u.asset.id,
                                   kind |-> u.kind, asset |-> u.asset, duration |-> u.duration]
<1> DEFINE N == AddUse(M, u)
<1>1. u.kind \in {"audio", "image"} /\ u.asset \in AssetType /\ u.duration \in Nat \ {0}
  BY DEF UseType
<1>2. ASSUME NEW m \in DOMAIN M
      PROVE  /\ M[m] \in MadeType /\ M[m].duration \in Nat \ {0}
             /\ [M[m] EXCEPT !.duration = Larger(@, u.duration)] \in MadeType
  <2>1. M[m] \in MadeType
    OBVIOUS
  <2>2. M[m].duration \in Nat \ {0}
    BY <2>1 DEF MadeType
  <2>3. Larger(M[m].duration, u.duration) \in Nat \ {0}
    BY <1>1, <2>2 DEF Larger
  <2> QED BY <2>1, <2>2, <2>3 DEF MadeType
<1>3. CASE \E m \in DOMAIN M : SameMedia(M[m], u)
  <2>1. N = [i \in DOMAIN M |-> IF SameMedia(M[i], u)
                                THEN [M[i] EXCEPT !.duration = Larger(@, u.duration)] ELSE M[i]]
    BY <1>3 DEF AddUse
  <2>2. N \in Seq(MadeType) /\ DOMAIN N = DOMAIN M /\ Len(N) = Len(M)
    BY <1>2, <2>1
  <2>3. ASSUME NEW m \in DOMAIN M
        PROVE  /\ N[m].id = M[m].id /\ N[m].kind = M[m].kind /\ N[m].asset = M[m].asset
               /\ N[m].duration = IF SameMedia(M[m], u) THEN Larger(M[m].duration, u.duration)
                                  ELSE M[m].duration
    <3>1. N[m] = IF SameMedia(M[m], u)
                 THEN [M[m] EXCEPT !.duration = Larger(@, u.duration)] ELSE M[m]
      BY <2>1
    <3>2. M[m] \in MadeType
      BY <1>2
    <3> QED BY <3>1, <3>2 DEF MadeType
  <2> HIDE DEF N
  <2> QED BY <1>3, <2>2, <2>3 DEF N
<1>4. CASE \A m \in DOMAIN M : ~SameMedia(M[m], u)
  <2> DEFINE id == IF Knows(M, u.asset.id) THEN <<"legacy", u.kind, u.asset.digest>> ELSE u.asset.id
             e == [id |-> id, kind |-> u.kind, asset |-> u.asset, duration |-> u.duration]
  <2>1. N = Append(M, e)
    BY <1>4 DEF AddUse
  <2>2. id \in MediaIds
    <3>1. u.asset.id \in MediaIds /\ u.asset.digest \in STRING
      BY <1>1 DEF AssetType
    <3>3. <<"legacy", u.kind, u.asset.digest>> \in MediaIds
      BY <1>1, <3>1 DEF MediaIds
    <3> QED BY <3>1, <3>3
  <2>3. e \in MadeType
    BY <1>1, <2>2 DEF MadeType
  <2> HIDE DEF e
  <2>4. /\ N \in Seq(MadeType) /\ Len(N) = Len(M) + 1 /\ N[Len(N)] = e
        /\ \A m \in DOMAIN M : m \in DOMAIN N /\ N[m] = M[m]
        /\ DOMAIN N = DOMAIN M \cup {Len(N)} /\ Len(N) \notin DOMAIN M
    BY <2>1, <2>3
  <2> QED BY <1>4, <2>4 DEF e
<1> QED BY <1>3, <1>4

\* No asset id stands for two assets.
OwnIds(U) ==
  \A i, j \in DOMAIN U :
    U[i].asset.id = U[j].asset.id => U[i].asset = U[j].asset /\ U[i].kind = U[j].kind

\* M registers the first n uses, each under its kind and asset.
Registers(M, U, n) ==
  /\ M \in Seq(MadeType) /\ Len(M) <= n
  /\ \A k \in 1..n : \E m \in DOMAIN M : SameMedia(M[m], U[k]) /\ U[k].duration <= M[m].duration
  /\ \A m \in DOMAIN M : \E k \in 1..n : SameMedia(M[m], U[k]) /\ M[m].duration = U[k].duration
  /\ \A m, o \in DOMAIN M : M[m].kind = M[o].kind /\ M[m].asset = M[o].asset => m = o
  /\ OwnIds(U) => \A m \in DOMAIN M : M[m].id = M[m].asset.id

(* One more use, and the media register as many.                           *)
LEMMA UseRegistered ==
  ASSUME NEW U \in Seq(UseType), NEW n \in 1..Len(U), NEW M, Registers(M, U, n - 1)
  PROVE  Registers(AddUse(M, U[n]), U, n)
<1> DEFINE u == U[n]
           N == AddUse(M, u)
<1>1. u \in UseType /\ M \in Seq(MadeType) /\ n \in Nat /\ n - 1 \in Nat
  BY DEF Registers
<1>2. u.duration \in Nat /\ \A m \in DOMAIN M : M[m].duration \in Nat
  <2>1. \A m \in DOMAIN M : M[m] \in MadeType
    BY <1>1
  <2> QED BY <1>1, <2>1 DEF UseType, MadeType
<1>3. /\ Len(M) <= n - 1
      /\ \A k \in 1..(n - 1) : \E m \in DOMAIN M :
           SameMedia(M[m], U[k]) /\ U[k].duration <= M[m].duration
      /\ \A m \in DOMAIN M : \E k \in 1..(n - 1) :
           SameMedia(M[m], U[k]) /\ M[m].duration = U[k].duration
      /\ \A m, o \in DOMAIN M : M[m].kind = M[o].kind /\ M[m].asset = M[o].asset => m = o
      /\ OwnIds(U) => \A m \in DOMAIN M : M[m].id = M[m].asset.id
  BY DEF Registers
<1>4. \A k \in 1..(n - 1) : U[k] \in UseType /\ U[k].duration \in Nat /\ k \in 1..n
  <2>1. \A k \in 1..(n - 1) : k \in DOMAIN U /\ k \in 1..n
    BY <1>1
  <2>2. \A k \in 1..(n - 1) : U[k] \in UseType
    BY <2>1
  <2> QED BY <2>1, <2>2 DEF UseType
<1>5. n \in 1..n /\ n \in DOMAIN U
  BY <1>1
<1>6. \A k \in 1..n : k = n \/ k \in 1..(n - 1)
  BY <1>1
<1>7. /\ N \in Seq(MadeType)
      /\ \A m \in DOMAIN M :
           /\ m \in DOMAIN N
           /\ N[m].id = M[m].id /\ N[m].kind = M[m].kind /\ N[m].asset = M[m].asset
           /\ N[m].duration = IF SameMedia(M[m], u) THEN Larger(M[m].duration, u.duration)
                              ELSE M[m].duration
  BY <1>1, UseAdded
<1>8. \A m \in DOMAIN M : \A w : SameMedia(N[m], w) <=> SameMedia(M[m], w)
  BY <1>7 DEF SameMedia
<1>9. \A m \in DOMAIN M : /\ N[m].duration \in Nat /\ M[m].duration <= N[m].duration
                          /\ SameMedia(M[m], u) => u.duration <= N[m].duration
                          /\ N[m].duration = M[m].duration
                             \/ (SameMedia(M[m], u) /\ N[m].duration = u.duration)
  <2>1. \A a, b \in Nat : /\ Larger(a, b) \in Nat /\ a <= Larger(a, b) /\ b <= Larger(a, b)
                          /\ Larger(a, b) = a \/ Larger(a, b) = b
    BY DEF Larger
  <2>2. ASSUME NEW m \in DOMAIN M
        PROVE  /\ N[m].duration \in Nat /\ M[m].duration <= N[m].duration
               /\ SameMedia(M[m], u) => u.duration <= N[m].duration
               /\ N[m].duration = M[m].duration
                  \/ (SameMedia(M[m], u) /\ N[m].duration = u.duration)
    <3> PICK a \in Nat : a = M[m].duration
      BY <1>2
    <3> PICK b \in Nat : b = u.duration
      BY <1>2
    <3> PICK d : d = N[m].duration
      OBVIOUS
    <3>1. d = IF SameMedia(M[m], u) THEN Larger(a, b) ELSE a
      BY <1>7
    <3>2. CASE SameMedia(M[m], u)
      <4>1. d = Larger(a, b)
        BY <3>1, <3>2, Zenon
      <4>2. d \in Nat /\ a <= d /\ b <= d /\ (d = a \/ d = b)
        BY <2>1, <4>1
      <4>3. /\ N[m].duration \in Nat /\ M[m].duration <= N[m].duration
            /\ u.duration <= N[m].duration
            /\ N[m].duration = M[m].duration \/ N[m].duration = u.duration
        BY <4>2
      <4> QED BY <3>2, <4>3
    <3>3. CASE ~SameMedia(M[m], u)
      <4>1. d = a
        BY <3>1, <3>3, Zenon
      <4>2. a <= d
        BY <4>1
      <4>3. /\ N[m].duration \in Nat /\ M[m].duration <= N[m].duration
            /\ N[m].duration = M[m].duration
        BY <4>1, <4>2
      <4> QED BY <3>3, <4>3
    <3> QED BY <3>2, <3>3, Zenon
  <2> QED BY <2>2
<1>10. \A k \in 1..(n - 1) : \E m \in DOMAIN M :
         SameMedia(N[m], U[k]) /\ U[k].duration <= N[m].duration
  <2> SUFFICES ASSUME NEW k \in 1..(n - 1)
               PROVE  \E m \in DOMAIN M : SameMedia(N[m], U[k]) /\ U[k].duration <= N[m].duration
    OBVIOUS
  <2>1. PICK m \in DOMAIN M : SameMedia(M[m], U[k]) /\ U[k].duration <= M[m].duration
    BY <1>3
  <2>2. U[k].duration <= N[m].duration
    BY <1>2, <1>4, <1>9, <2>1
  <2> QED BY <1>8, <2>1, <2>2
<1>11. \A m \in DOMAIN M : \E k \in 1..n :
         SameMedia(N[m], U[k]) /\ N[m].duration = U[k].duration
  <2> SUFFICES ASSUME NEW m \in DOMAIN M
               PROVE  \E k \in 1..n : SameMedia(N[m], U[k]) /\ N[m].duration = U[k].duration
    OBVIOUS
  <2>1. CASE N[m].duration = M[m].duration
    <3>1. PICK k \in 1..(n - 1) : SameMedia(M[m], U[k]) /\ M[m].duration = U[k].duration
      BY <1>3
    <3> QED BY <1>4, <1>8, <2>1, <3>1
  <2>2. CASE SameMedia(M[m], u) /\ N[m].duration = u.duration
    BY <1>5, <1>8, <2>2
  <2> QED BY <1>9, <2>1, <2>2
<1>12. \A m, o \in DOMAIN M : N[m].kind = N[o].kind /\ N[m].asset = N[o].asset => m = o
  BY <1>3, <1>7
<1>13. OwnIds(U) => \A m \in DOMAIN M : N[m].id = N[m].asset.id
  BY <1>3, <1>7
<1>14. CASE DOMAIN N = DOMAIN M /\ Len(N) = Len(M) /\ \E m \in DOMAIN M : SameMedia(M[m], u)
  <2>1. \E m \in DOMAIN M : SameMedia(N[m], u) /\ u.duration <= N[m].duration
    BY <1>8, <1>9, <1>14
  <2>2. Len(N) <= n
    BY <1>1, <1>3, <1>14
  <2> HIDE DEF N
  <2>3. \A k \in 1..n : \E m \in DOMAIN N : SameMedia(N[m], U[k]) /\ U[k].duration <= N[m].duration
    BY <1>6, <1>10, <1>14, <2>1
  <2>4. Registers(N, U, n)
    BY <1>7, <1>11, <1>12, <1>13, <1>14, <2>2, <2>3 DEF Registers
  <2> QED BY <2>4 DEF N
<1>15. CASE /\ Len(N) = Len(M) + 1
            /\ DOMAIN N = DOMAIN M \cup {Len(N)} /\ Len(N) \notin DOMAIN M
            /\ \A m \in DOMAIN M : ~SameMedia(M[m], u)
            /\ N[Len(N)] = [id |-> IF Knows(M, u.asset.id)
                                   THEN <<"legacy", u.kind, u.asset.digest>> ELSE u.asset.id,
                            kind |-> u.kind, asset |-> u.asset, duration |-> u.duration]
  <2> DEFINE l == Len(N)
  <2>1. N[l].kind = u.kind /\ N[l].asset = u.asset /\ N[l].duration = u.duration
    BY <1>15
  <2>2. SameMedia(N[l], u)
    BY <2>1 DEF SameMedia
  <2>3. OwnIds(U) => N[l].id = u.asset.id
    <3> SUFFICES ASSUME OwnIds(U), Knows(M, u.asset.id) PROVE FALSE
      BY <1>15
    <3>1. PICK m \in DOMAIN M : M[m].id = u.asset.id
      BY DEF Knows, ToSet
    <3>2. PICK k \in 1..(n - 1) : SameMedia(M[m], U[k])
      BY <1>3
    <3>3. M[m].asset.id = u.asset.id /\ M[m].asset = U[k].asset /\ M[m].kind = U[k].kind
      BY <1>3, <3>1, <3>2 DEF SameMedia
    <3>4. k \in DOMAIN U
      BY <1>1
    <3>5. U[k].asset = u.asset /\ U[k].kind = u.kind
      BY <1>5, <3>3, <3>4 DEF OwnIds
    <3> QED BY <1>15, <3>3, <3>5 DEF SameMedia
  <2>4. l <= n
    BY <1>1, <1>3, <1>15
  <2> HIDE DEF l, N
  <2>5. DOMAIN N = DOMAIN M \cup {l}
    BY <1>15 DEF l
  <2>6. \A k \in 1..n : \E m \in DOMAIN N : SameMedia(N[m], U[k]) /\ U[k].duration <= N[m].duration
    <3>1. \E m \in DOMAIN N : SameMedia(N[m], u) /\ u.duration <= N[m].duration
      BY <1>2, <2>1, <2>2, <2>5
    <3>2. \A k \in 1..(n - 1) : \E m \in DOMAIN N :
            SameMedia(N[m], U[k]) /\ U[k].duration <= N[m].duration
      BY <1>10, <2>5
    <3> QED BY <1>6, <3>1, <3>2
  <2>7. \A m \in DOMAIN N : \E k \in 1..n : SameMedia(N[m], U[k]) /\ N[m].duration = U[k].duration
    BY <1>5, <1>11, <2>1, <2>2, <2>5
  <2>8. \A m \in DOMAIN M : ~(N[m].kind = N[l].kind /\ N[m].asset = N[l].asset)
    BY <1>7, <1>15, <2>1 DEF SameMedia
  <2>9. \A m, o \in DOMAIN N : N[m].kind = N[o].kind /\ N[m].asset = N[o].asset => m = o
    BY <1>12, <2>5, <2>8
  <2>10. OwnIds(U) => \A m \in DOMAIN N : N[m].id = N[m].asset.id
    BY <1>13, <2>1, <2>3, <2>5
  <2>11. Registers(N, U, n)
    BY <1>7, <2>4, <2>6, <2>7, <2>9, <2>10 DEF Registers, l
  <2> QED BY <2>11 DEF N
<1> QED
  <2>1. \/ DOMAIN N = DOMAIN M /\ Len(N) = Len(M) /\ \E m \in DOMAIN M : SameMedia(M[m], u)
        \/ /\ Len(N) = Len(M) + 1
           /\ DOMAIN N = DOMAIN M \cup {Len(N)} /\ Len(N) \notin DOMAIN M
           /\ \A m \in DOMAIN M : ~SameMedia(M[m], u)
           /\ N[Len(N)] = [id |-> IF Knows(M, u.asset.id)
                                  THEN <<"legacy", u.kind, u.asset.digest>> ELSE u.asset.id,
                           kind |-> u.kind, asset |-> u.asset, duration |-> u.duration]
    BY <1>1, UseAdded
  <2> QED BY <1>14, <1>15, <2>1

(* The media a migration makes register every use.                         *)
LEMMA LegacyMediaRegister ==
  ASSUME NEW p \in ProjectType
  PROVE  Registers(LegacyMedia(p), Uses(p), Len(Uses(p)))
<1>a. PICK U : U = Uses(p)
  OBVIOUS
<1>b. U \in Seq(UseType)
  BY <1>a, UsesInOrder
<1>c. PICK n : n = Len(U)
  OBVIOUS
<1>d. n \in Nat /\ DOMAIN U = 1..n
  BY <1>b, <1>c
<1>e. PICK A : A = Seq(MadeType)
  OBVIOUS
<1>f. PICK g : g = [i \in 1..n |-> [m \in A |-> AddUse(m, U[i])]]
  OBVIOUS
<1>1. g \in [1..n -> [A -> A]]
  <2>1. ASSUME NEW m \in A, NEW i \in 1..n PROVE AddUse(m, U[i]) \in A
    <3>1. U[i] \in UseType
      BY <1>b, <1>d
    <3> QED BY <1>e, <3>1, UseAdded
  <2> QED BY <2>1, <1>f
<1>2. \A m \in A, i \in 1..n : g[i][m] = AddUse(m, U[i])
  BY <1>f
<1>3. <<>> \in A
  BY <1>e, EmptySeq
<1>4. PICK F \in [0..n -> A] : F[0] = <<>> /\ \A i \in 1..n : F[i] = g[i][F[i - 1]]
  <2>1. \E F : GoesThrough(F, n, A, <<>>, g)
    BY <1>1, <1>3, <1>d, StepByStep
  <2> QED BY <2>1 DEF GoesThrough
<1>5. \A i \in 1..n : i - 1 \in 0..n /\ F[i] = AddUse(F[i - 1], U[i])
  <2>1. \A i \in 1..n : i - 1 \in 0..n
    BY <1>d
  <2> QED BY <1>2, <1>4, <2>1
<1> DEFINE upTo == CHOOSE f : f = [i \in 0..n |-> IF i = 0 THEN <<>> ELSE AddUse(f[i - 1], U[i])]
<1>6. F = [i \in 0..n |-> IF i = 0 THEN <<>> ELSE AddUse(F[i - 1], U[i])]
  <2>1. \A i \in 0..n : i = 0 \/ i \in 1..n
    BY <1>d
  <2> QED BY <1>4, <1>5, <2>1
<1>7. upTo = [i \in 0..n |-> IF i = 0 THEN <<>> ELSE AddUse(upTo[i - 1], U[i])]
  BY <1>6
<1>8. LegacyMedia(p) = upTo[n]
  BY <1>a, <1>c DEF LegacyMedia
<1> HIDE DEF upTo
<1>9. upTo[0] = <<>> /\ \A i \in 1..n : upTo[i] = AddUse(upTo[i - 1], U[i])
  <2>1. 0 \in 0..n /\ \A i \in 1..n : i \in 0..n /\ i # 0
    BY <1>d
  <2> QED BY <1>7, <2>1
<1> DEFINE H == {i \in 0..n : Registers(upTo[i], U, i)}
<1>10. 0 \in H
  <2>1. /\ <<>> \in Seq(MadeType) /\ Len(<<>>) <= 0 /\ DOMAIN <<>> = {} /\ 1..0 = {}
    OBVIOUS
  <2>2. Registers(<<>>, U, 0)
    BY <2>1 DEF Registers
  <2> QED BY <1>9, <1>d, <2>2
<1>11. ASSUME NEW i \in 1..n, i - 1 \in H PROVE i \in H
  <2>1. Registers(AddUse(upTo[i - 1], U[i]), U, i)
    BY <1>11, <1>b, <1>c, UseRegistered
  <2> QED BY <1>9, <1>d, <2>1
<1>12. n \in H
  <2> HIDE DEF H
  <2>1. \A i \in 0..n : i \in H
    BY <1>10, <1>11, <1>d, HandedOn
  <2> QED BY <1>d, <2>1
<1> QED BY <1>12, <1>8, <1>a, <1>c

MediaMade(p) ==
  [i \in DOMAIN LegacyMedia(p) |->
    [id |-> LegacyMedia(p)[i].id, digest |-> LegacyMedia(p)[i].asset.digest,
     kind |-> LegacyMedia(p)[i].kind, duration |-> LegacyMedia(p)[i].duration]]
VisualsMade(p) ==
  [i \in DOMAIN p.pips |->
    [id |-> p.pips[i].id, clip |-> p.pips[i].clip, start |-> p.pips[i].start,
     end |-> p.pips[i].end, media |-> MediaId(p, "image", p.pips[i].asset),
     trim |-> [start |-> 0, end |-> p.pips[i].end - p.pips[i].start],
     sync |-> "source-time"]]
TransitionsMade(p) ==
  [i \in DOMAIN p.clips |->
    [id |-> p.clips[i].id, family |-> p.clips[i].after.kind,
     duration |-> p.clips[i].after.duration]]
MixMade(p) ==
  [i \in DOMAIN p.audio |->
    [id |-> p.audio[i].id, media |-> MediaId(p, "audio", p.audio[i].asset),
     role |-> IF i = 1 THEN "primary" ELSE "bed",
     fadeIn |-> 0, fadeOut |-> 0, ducking |-> "none"]]

(* Each use has one entry, and that entry's id.                            *)
LEMMA EntryOfUse ==
  ASSUME NEW p \in ProjectType, NEW k \in 1..Len(Uses(p))
  PROVE  \E m \in DOMAIN LegacyMedia(p) :
           LET e == LegacyMedia(p)[m]
               u == Uses(p)[k]
           IN  /\ e \in MadeType /\ e.kind = u.kind /\ e.asset = u.asset
               /\ u.duration \in Nat /\ u.duration <= e.duration
               /\ MediaId(p, u.kind, u.asset) = e.id
<1> PICK L : L = LegacyMedia(p)
  OBVIOUS
<1> PICK U : U = Uses(p)
  OBVIOUS
<1>1. Registers(L, U, Len(U))
  BY LegacyMediaRegister
<1>2. L \in Seq(MadeType) /\ U \in Seq(UseType)
  BY <1>1, UsesInOrder DEF Registers
<1> DEFINE u == U[k]
<1>3. u \in UseType
  BY <1>2
<1>4. PICK m \in DOMAIN L : SameMedia(L[m], u) /\ u.duration <= L[m].duration
  BY <1>1 DEF Registers
<1>5. L[m] \in MadeType /\ L[m].kind = u.kind /\ L[m].asset = u.asset /\ u.duration \in Nat
  BY <1>2, <1>3, <1>4 DEF SameMedia, UseType
<1>6. \A x \in ToSet(L) : x.kind = u.kind /\ x.asset = u.asset => x = L[m]
  <2>1. \A o \in DOMAIN L : L[o].kind = L[m].kind /\ L[o].asset = L[m].asset => o = m
    BY <1>1 DEF Registers
  <2> QED BY <1>5, <2>1 DEF ToSet
<1>7. L[m] \in ToSet(L)
  BY DEF ToSet
<1>8. MediaId(p, u.kind, u.asset) = L[m].id
  BY <1>5, <1>6, <1>7 DEF MediaId
<1> QED BY <1>4, <1>5, <1>8

(* The uses of the audio tracks and of the pictures.                       *)
LEMMA AudioIsUse ==
  ASSUME NEW p \in ProjectType, NEW i \in DOMAIN p.audio
  PROVE  /\ p.audio[i] \in TrackType
         /\ i \in 1..Len(Uses(p)) /\ Uses(p)[i].kind = "audio" /\ Uses(p)[i].asset = p.audio[i].asset
         /\ Uses(p)[i].duration = Larger(1, p.audio[i].trim.end)
<1>a. p.audio \in Seq(TrackType) /\ p.pips \in Seq(PipType)
  BY PartsTyped
<1>1. PICK a \in Nat : a = Len(p.audio)
  BY <1>a
<1>2. PICK b \in Nat : b = Len(p.pips)
  BY <1>a
<1>3. p.audio[i] \in TrackType /\ i \in 1..a
  BY <1>1, <1>a
<1>4. Len(Uses(p)) = a + b /\ Uses(p)[i] = Asset("audio", p.audio[i], p.audio[i].trim.end)
  BY <1>1, <1>2, <1>3, UsesInOrder
<1>5. i \in 1..Len(Uses(p))
  <2> PICK l : l = Len(Uses(p))
    OBVIOUS
  <2>1. l = a + b
    BY <1>4
  <2>2. i \in 1..l
    BY <1>3, <2>1
  <2> QED BY <2>2
<1> QED BY <1>3, <1>4, <1>5 DEF Asset

(* A picture is a use of its asset, after those of the audio tracks.       *)
LEMMA PipIsUse ==
  ASSUME NEW p \in ProjectType, NEW i \in DOMAIN p.pips
  PROVE  /\ p.pips[i] \in PipType
         /\ LET k == Len(p.audio) + i
            IN  /\ k \in 1..Len(Uses(p))
                /\ Uses(p)[k].kind = "image" /\ Uses(p)[k].asset = p.pips[i].asset
                /\ Uses(p)[k].duration = Larger(1, p.pips[i].end - p.pips[i].start)
<1>a. p.audio \in Seq(TrackType) /\ p.pips \in Seq(PipType)
  BY PartsTyped
<1>1. PICK a \in Nat : a = Len(p.audio)
  BY <1>a
<1>2. PICK b \in Nat : b = Len(p.pips)
  BY <1>a
<1>3. p.pips[i] \in PipType /\ i \in 1..b
  BY <1>2, <1>a
<1>4. Len(Uses(p)) = a + b
      /\ Uses(p)[a + i] = Asset("image", p.pips[i], p.pips[i].end - p.pips[i].start)
  BY <1>1, <1>2, <1>3, UsesInOrder
<1>5. a + i \in 1..Len(Uses(p))
  <2> PICK l : l = Len(Uses(p))
    OBVIOUS
  <2>1. l = a + b
    BY <1>4
  <2>2. a + i \in 1..l
    BY <1>3, <2>1
  <2> QED BY <2>2
<1>6. /\ Uses(p)[a + i].kind = "image" /\ Uses(p)[a + i].asset = p.pips[i].asset
      /\ Uses(p)[a + i].duration = Larger(1, p.pips[i].end - p.pips[i].start)
  BY <1>4 DEF Asset
<1> QED BY <1>1, <1>3, <1>5, <1>6

(* What a migration makes is typed.                                        *)
LEMMA EnvelopeTyped ==
  ASSUME NEW p \in ProjectType
  PROVE  /\ MediaMade(p) \in Seq(MediaType) /\ VisualsMade(p) \in Seq(VisualType)
         /\ TransitionsMade(p) \in Seq(TransitionType) /\ MixMade(p) \in Seq(MixType)
<1>1. MediaMade(p) \in Seq(MediaType)
  <2>1. LegacyMedia(p) \in Seq(MadeType)
    BY LegacyMediaRegister DEF Registers
  <2>2. ASSUME NEW i \in DOMAIN LegacyMedia(p)
        PROVE  [id |-> LegacyMedia(p)[i].id, digest |-> LegacyMedia(p)[i].asset.digest,
                kind |-> LegacyMedia(p)[i].kind, duration |-> LegacyMedia(p)[i].duration]
               \in MediaType
    <3>1. LegacyMedia(p)[i] \in MadeType
      BY <2>1
    <3> QED BY <3>1 DEF MadeType, MediaType, AssetType
  <2> QED BY <2>1, <2>2 DEF MediaMade
<1>2. VisualsMade(p) \in Seq(VisualType)
  <2>1. p.pips \in Seq(PipType)
    BY PartsTyped
  <2>2. ASSUME NEW i \in DOMAIN p.pips PROVE MediaId(p, "image", p.pips[i].asset) \in MediaIds
    BY PipIsUse, EntryOfUse DEF MadeType
  <2>3. ASSUME NEW i \in DOMAIN p.pips PROVE VisualsMade(p)[i] \in VisualType
    <3>1. p.pips[i] \in PipType
      BY <2>1
    <3> QED BY <2>2, <3>1 DEF PipType, VisualType, VisualsMade, TimeRange
  <2>4. DOMAIN VisualsMade(p) = DOMAIN p.pips
        /\ VisualsMade(p) = [i \in DOMAIN p.pips |-> VisualsMade(p)[i]]
    BY DEF VisualsMade
  <2> QED BY <2>1, <2>3, <2>4
<1>3. TransitionsMade(p) \in Seq(TransitionType)
  <2>1. p.clips \in Seq(ClipType)
    BY PartsTyped
  <2>3. ASSUME NEW i \in DOMAIN p.clips PROVE TransitionsMade(p)[i] \in TransitionType
    <3>1. p.clips[i] \in ClipType
      BY <2>1
    <3> QED BY <3>1 DEF ClipType, TransitionType, TransitionsMade, TransitionFamilies
  <2>4. DOMAIN TransitionsMade(p) = DOMAIN p.clips
        /\ TransitionsMade(p) = [i \in DOMAIN p.clips |-> TransitionsMade(p)[i]]
    BY DEF TransitionsMade
  <2> QED BY <2>1, <2>3, <2>4
<1>4. MixMade(p) \in Seq(MixType)
  <2>1. p.audio \in Seq(TrackType)
    BY PartsTyped
  <2>2. ASSUME NEW i \in DOMAIN p.audio PROVE MediaId(p, "audio", p.audio[i].asset) \in MediaIds
    BY AudioIsUse, EntryOfUse DEF MadeType
  <2>3. ASSUME NEW i \in DOMAIN p.audio PROVE MixMade(p)[i] \in MixType
    <3>1. p.audio[i] \in TrackType
      BY <2>1
    <3> QED BY <2>2, <3>1 DEF TrackType, MixType, MixMade, Roles, Duckings
  <2>4. DOMAIN MixMade(p) = DOMAIN p.audio
        /\ MixMade(p) = [i \in DOMAIN p.audio |-> MixMade(p)[i]]
    BY DEF MixMade
  <2> QED BY <2>1, <2>3, <2>4
<1> QED BY <1>1, <1>2, <1>3, <1>4

(* A migrated project is typed; it keeps its base and has what is made.    *)
LEMMA MigratedFields ==
  ASSUME NEW p \in ProjectType, Clean \in SnapshotType
  PROVE  LET q == Migrated(p)
         IN  /\ q \in ProjectType /\ SameBase(p, q) /\ q.version = 2
             /\ q.media = MediaMade(p) /\ q.visuals = VisualsMade(p)
             /\ q.transitions = TransitionsMade(p) /\ q.mix = MixMade(p)
<1>1. Migrated(p) = EnvelopeOf(p, 2, <<Clean>>, MediaMade(p), VisualsMade(p),
                               TransitionsMade(p), MixMade(p))
  BY DEF Migrated, EnvelopeOf, MediaMade, VisualsMade, TransitionsMade, MixMade
<1>2. <<Clean>> \in Seq(SnapshotType)
  OBVIOUS
<1> PICK a : a = <<Clean>>
  OBVIOUS
<1> PICK b : b = MediaMade(p)
  OBVIOUS
<1> PICK c : c = VisualsMade(p)
  OBVIOUS
<1> PICK d : d = TransitionsMade(p)
  OBVIOUS
<1> PICK e : e = MixMade(p)
  OBVIOUS
<1> PICK q : q = EnvelopeOf(p, 2, a, b, c, d, e)
  OBVIOUS
<1>3. /\ SameBase(p, q) /\ q.version = 2 /\ q.media = b /\ q.visuals = c
      /\ q.transitions = d /\ q.mix = e
  BY EnvelopeFields
<1>4. /\ a \in Seq(SnapshotType) /\ b \in Seq(MediaType) /\ c \in Seq(VisualType)
      /\ d \in Seq(TransitionType) /\ e \in Seq(MixType)
  BY <1>2, EnvelopeTyped
<1>5. q \in ProjectType
  BY <1>4, EnvelopeFields
<1> QED BY <1>1, <1>3, <1>5

(* Without a clash every asset keeps its id, and can be found by it.       *)
LEMMA MigrationKeepsIds ==
  ASSUME NEW p \in ProjectType, OwnIds(Uses(p)), NEW q, q = Migrated(p), Clean \in SnapshotType
  PROVE  /\ Unique(IdsOf(q.media))
         /\ \A k \in 1..Len(Uses(p)) :
              LET u == Uses(p)[k]
                  m == Find(q.media, u.asset.id)
              IN  /\ MediaId(p, u.kind, u.asset) = u.asset.id
                  /\ Knows(q.media, u.asset.id)
                  /\ m.kind = u.kind /\ m.digest = u.asset.digest
                  /\ m.duration \in Nat /\ u.duration \in Nat /\ u.duration <= m.duration
<1> PICK L : L = LegacyMedia(p)
  OBVIOUS
<1> PICK U : U = Uses(p)
  OBVIOUS
<1>1. Registers(L, U, Len(U))
  BY LegacyMediaRegister
<1>2. L \in Seq(MadeType) /\ U \in Seq(UseType)
  BY <1>1, UsesInOrder DEF Registers
<1>3. /\ \A m \in DOMAIN L : L[m].id = L[m].asset.id
      /\ \A m \in DOMAIN L : \E k \in 1..Len(U) : SameMedia(L[m], U[k])
      /\ \A m, o \in DOMAIN L : L[m].kind = L[o].kind /\ L[m].asset = L[o].asset => m = o
  BY <1>1 DEF Registers
<1>4. q.media = MediaMade(p)
  BY MigratedFields
<1>5. DOMAIN q.media = DOMAIN L
      /\ \A m \in DOMAIN L : /\ q.media[m].id = L[m].id /\ q.media[m].digest = L[m].asset.digest
                             /\ q.media[m].kind = L[m].kind /\ q.media[m].duration = L[m].duration
  BY <1>4 DEF MediaMade
<1>6. ASSUME NEW m \in DOMAIN L, NEW o \in DOMAIN L, L[m].id = L[o].id PROVE m = o
  <2>1. PICK k \in 1..Len(U) : SameMedia(L[m], U[k])
    BY <1>3
  <2>2. PICK l \in 1..Len(U) : SameMedia(L[o], U[l])
    BY <1>3
  <2>3. U[k].asset.id = U[l].asset.id
    BY <1>3, <1>6, <2>1, <2>2 DEF SameMedia
  <2>4. k \in DOMAIN U /\ l \in DOMAIN U
    BY <1>2
  <2>5. U[k].asset = U[l].asset /\ U[k].kind = U[l].kind
    BY <2>3, <2>4 DEF OwnIds
  <2> QED BY <1>3, <2>1, <2>2, <2>5 DEF SameMedia
<1>7. Unique(IdsOf(q.media))
  <2>1. DOMAIN IdsOf(q.media) = DOMAIN L /\ \A m \in DOMAIN L : IdsOf(q.media)[m] = L[m].id
    BY <1>5 DEF IdsOf
  <2> QED BY <1>6, <2>1 DEF Unique, IsInjective
<1>8. ASSUME NEW k \in 1..Len(U)
      PROVE  LET u == U[k]
                 m == Find(q.media, u.asset.id)
             IN  /\ MediaId(p, u.kind, u.asset) = u.asset.id
                 /\ Knows(q.media, u.asset.id)
                 /\ m.kind = u.kind /\ m.digest = u.asset.digest
                 /\ m.duration \in Nat /\ u.duration \in Nat /\ u.duration <= m.duration
  <2> DEFINE u == U[k]
  <2>1. PICK m \in DOMAIN L : /\ L[m] \in MadeType /\ L[m].kind = u.kind /\ L[m].asset = u.asset
                              /\ u.duration \in Nat /\ u.duration <= L[m].duration
                              /\ MediaId(p, u.kind, u.asset) = L[m].id
    BY EntryOfUse
  <2>2. q.media[m].id = u.asset.id /\ L[m].id = u.asset.id
    BY <1>3, <1>5, <2>1
  <2>3. Knows(q.media, u.asset.id) /\ Find(q.media, u.asset.id) = q.media[m]
    BY <1>5, <1>7, <2>2, FoundById
  <2>4. L[m].duration \in Nat
    BY <2>1 DEF MadeType
  <2> QED BY <1>5, <2>1, <2>2, <2>3, <2>4
<1> QED BY <1>7, <1>8

(* What stops a migration is a clash of ids or an asset too long.          *)
LEMMA ClashOrOwnIds ==
  ASSUME NEW p
  PROVE  CannotMigrate(p) <=> \/ ~OwnIds(Uses(p))
                              \/ \E k \in DOMAIN Uses(p) : Uses(p)[k].duration > LongestMedia
BY DEF CannotMigrate, OwnIds

(* The longest media is a number, and its value of no matter.              *)
LEMMA LongestIsNumber == LongestMedia \in Nat
BY SMT DEF LongestMedia

(* The media of a migrated project are valid when nothing clashes.         *)
LEMMA MigratedMediaOK ==
  ASSUME NEW p \in ProjectType, BaseOK(p), ~CannotMigrate(p), Clean \in SnapshotType
  PROVE  MediaOK(Migrated(p).media)
<1> PICK L : L = LegacyMedia(p)
  OBVIOUS
<1> PICK U : U = Uses(p)
  OBVIOUS
<1> PICK M : M = Migrated(p).media
  OBVIOUS
<1>1. OwnIds(U) /\ \A k \in DOMAIN U : ~(U[k].duration > LongestMedia)
  BY ClashOrOwnIds
<1>2. Registers(L, U, Len(U)) /\ L \in Seq(MadeType) /\ U \in Seq(UseType)
  BY LegacyMediaRegister, UsesInOrder DEF Registers
<1>3. M = MediaMade(p)
  BY MigratedFields
<1>4. DOMAIN M = DOMAIN L /\ \A m \in DOMAIN L : M[m].duration = L[m].duration
  BY <1>3 DEF MediaMade
<1>5. Len(M) <= 32
  <2>1. p.audio \in Seq(TrackType) /\ p.pips \in Seq(PipType)
    BY PartsTyped
  <2>2. PICK a \in Nat : a = Len(p.audio)
    BY <2>1
  <2>3. PICK b \in Nat : b = Len(p.pips)
    BY <2>1
  <2>4. a <= 16 /\ b <= 8
    BY <2>2, <2>3 DEF BaseOK, TracksOK
  <2>5. PICK n \in Nat : n = Len(U)
    BY <1>2
  <2>6. n = a + b
    BY <2>2, <2>3, <2>5, UsesInOrder
  <2>7. PICK l \in Nat : l = Len(L)
    BY <1>2
  <2>8. l <= n
    BY <1>2, <2>5, <2>7 DEF Registers
  <2>9. Len(M) = l
    <3>1. M \in Seq(MediaType)
      BY <1>3, EnvelopeTyped
    <3>2. DOMAIN M = 1..l /\ DOMAIN M = 1..Len(M) /\ Len(M) \in Nat
      BY <1>2, <1>4, <2>7, <3>1
    <3> QED BY <3>2
  <2> QED BY <2>4, <2>6, <2>8, <2>9
<1>6. Unique(IdsOf(M))
  BY <1>1, MigrationKeepsIds
<1>7. ASSUME NEW m \in DOMAIN M PROVE M[m].duration \in 1..LongestMedia
  <2>1. PICK k \in 1..Len(U) : L[m].duration = U[k].duration
    BY <1>2, <1>4 DEF Registers
  <2>2. k \in DOMAIN U /\ U[k] \in UseType
    BY <1>2
  <2>3. U[k].duration \in Nat \ {0} /\ ~(U[k].duration > LongestMedia)
    BY <1>1, <2>2 DEF UseType
  <2>4. U[k].duration \in 1..LongestMedia
    <3> PICK x : x = U[k].duration
      OBVIOUS
    <3>1. x \in Nat \ {0} /\ ~(x > LongestMedia)
      BY <2>3
    <3> QED BY <3>1, LongestIsNumber
  <2> QED BY <1>4, <2>1, <2>4
<1> QED BY <1>5, <1>6, <1>7 DEF MediaOK, ToSet

(* So are its visual tracks, made of the pictures,                         *)
LEMMA MigratedVisualsOK ==
  ASSUME NEW p \in ProjectType, BaseOK(p), OwnIds(Uses(p)), Clean \in SnapshotType
  PROVE  LET q == Migrated(p)
         IN  /\ Len(q.visuals) <= 16 /\ Unique(IdsOf(q.visuals))
             /\ \A t \in ToSet(q.visuals) : VisualOK(q, t)
<1> PICK q : q = Migrated(p)
  OBVIOUS
<1>1. SameBase(p, q) /\ q.visuals = VisualsMade(p)
  BY MigratedFields
<1>2. p.pips \in Seq(PipType) /\ VisualsMade(p) \in Seq(VisualType)
  BY PartsTyped, EnvelopeTyped
<1>3. Len(p.pips) <= 8 /\ Unique(IdsOf(p.pips)) /\ \A t \in ToSet(p.pips) : OnClip(p, t)
  BY DEF BaseOK, TracksOK
<1>4. DOMAIN q.visuals = DOMAIN p.pips
  BY <1>1 DEF VisualsMade
<1>5. Len(q.visuals) <= 16
  <2> PICK a \in Nat : a = Len(p.pips)
    BY <1>2
  <2> PICK b \in Nat : b = Len(q.visuals)
    BY <1>1, <1>2
  <2>1. 1..a = 1..b
    BY <1>1, <1>2, <1>4
  <2>2. a = b
    BY <2>1
  <2> QED BY <1>3, <2>2
<1>6. \A i \in DOMAIN p.pips : q.visuals[i].id = p.pips[i].id
  BY <1>1 DEF VisualsMade
<1>7. Unique(IdsOf(q.visuals))
  BY <1>3, <1>4, <1>6 DEF IdsOf, Unique, IsInjective
<1>8. ASSUME NEW i \in DOMAIN p.pips PROVE VisualOK(q, q.visuals[i])
  <2> PICK pip : pip = p.pips[i]
    OBVIOUS
  <2> PICK t : t = q.visuals[i]
    OBVIOUS
  <2>1. /\ t.clip = pip.clip /\ t.start = pip.start /\ t.end = pip.end
        /\ t.media = MediaId(p, "image", pip.asset)
        /\ t.trim.start = 0 /\ t.trim.end = pip.end - pip.start
    BY <1>1 DEF VisualsMade
  <2>2. OnClip(p, pip)
    BY <1>3 DEF ToSet
  <2>3. OnClip(q, t)
    BY <1>1, <2>1, <2>2 DEF OnClip, SameBase, ClipLength, InRange
  <2>4. pip \in PipType
    BY <1>2
  <2>5. pip.start \in Int /\ pip.end \in Int /\ pip.start < pip.end
    BY <2>2, <2>4 DEF OnClip, InRange, PipType
  <2> PICK m : m = Find(q.media, pip.asset.id)
    OBVIOUS
  <2> PICK d : d = Larger(1, pip.end - pip.start)
    OBVIOUS
  <2>6. /\ t.media = pip.asset.id /\ Knows(q.media, pip.asset.id) /\ m.kind = "image"
        /\ m.duration \in Nat /\ d \in Nat /\ d <= m.duration
    <3>1. PICK k \in 1..Len(Uses(p)) :
            /\ Uses(p)[k].kind = "image" /\ Uses(p)[k].asset = pip.asset
            /\ Uses(p)[k].duration = d
      BY PipIsUse
    <3> QED BY <2>1, <3>1, MigrationKeepsIds
  <2>7. HasMedia(q, t.media, {"image", "video"})
    BY <2>6 DEF HasMedia
  <2>8. InRange(t.trim, 0, Find(q.media, t.media).duration)
    <3>1. pip.end - pip.start <= d
      BY <2>5 DEF Larger
    <3>2. 0 < pip.end - pip.start /\ pip.end - pip.start <= m.duration
      BY <2>5, <2>6, <3>1
    <3> QED BY <2>1, <2>6, <3>2 DEF InRange
  <2>9. t.trim.end - t.trim.start = t.end - t.start
    BY <2>1, <2>5
  <2> QED BY <2>3, <2>7, <2>8, <2>9 DEF VisualOK
<1>9. \A t \in ToSet(q.visuals) : VisualOK(q, t)
  BY <1>4, <1>8 DEF ToSet
<1> QED BY <1>5, <1>7, <1>9

(* its transitions, made of what follows each clip,                        *)
LEMMA MigratedTransitionsOK ==
  ASSUME NEW p \in ProjectType, BaseOK(p), Clean \in SnapshotType
  PROVE  LET q == Migrated(p)
         IN  /\ Unique(IdsOf(q.transitions))
             /\ \A t \in ToSet(q.transitions) : TransitionOK(q, t)
<1> PICK q : q = Migrated(p)
  OBVIOUS
<1>1. q.clips = p.clips /\ q.transitions = TransitionsMade(p)
  BY MigratedFields DEF SameBase
<1>2. p.clips \in Seq(ClipType)
  BY PartsTyped
<1>3. Unique(IdsOf(p.clips)) /\ \A c \in ToSet(p.clips) : ClipOK(c, p.sources)
  BY DEF BaseOK, TimelineOK
<1>4. DOMAIN q.transitions = DOMAIN p.clips
  BY <1>1 DEF TransitionsMade
<1>5. \A i \in DOMAIN p.clips : /\ q.transitions[i].id = p.clips[i].id
                                /\ q.transitions[i].family = p.clips[i].after.kind
                                /\ q.transitions[i].duration = p.clips[i].after.duration
  BY <1>1 DEF TransitionsMade
<1>6. Unique(IdsOf(q.transitions))
  BY <1>3, <1>4, <1>5, SameIds
<1>7. ASSUME NEW i \in DOMAIN p.clips PROVE TransitionOK(q, q.transitions[i])
  <2> PICK c : c = p.clips[i]
    OBVIOUS
  <2> PICK t : t = q.transitions[i]
    OBVIOUS
  <2>1. t.id = c.id /\ t.family = c.after.kind /\ t.duration = c.after.duration
    BY <1>5
  <2>2. Knows(q.clips, t.id) /\ Find(q.clips, t.id) = c
    BY <1>1, <1>3, <2>1, FoundById
  <2>3. c \in ClipType
    BY <1>2
  <2>4. c.after \in [kind : {"cut", "crossfade"}, duration : Int]
    BY <2>3 DEF ClipType
  <2>5. ClipOK(c, p.sources)
    BY <1>3 DEF ToSet
  <2>6. /\ c.after.duration \in 0..LongestTransition
        /\ (c.after.kind = "cut") <=> (c.after.duration = 0)
    BY <2>5 DEF ClipOK
  <2>7. c.after = [kind |-> IF t.family = "cut" THEN "cut" ELSE "crossfade",
                   duration |-> t.duration]
    BY <2>1, <2>4
  <2> QED BY <2>1, <2>2, <2>6, <2>7 DEF TransitionOK
<1>8. \A t \in ToSet(q.transitions) : TransitionOK(q, t)
  BY <1>4, <1>7 DEF ToSet
<1> QED BY <1>6, <1>8

(* and its mix, with one entry for every audio track.                      *)
LEMMA MigratedMixOK ==
  ASSUME NEW p \in ProjectType, BaseOK(p), OwnIds(Uses(p)), Clean \in SnapshotType
  PROVE  MixOK(Migrated(p))
<1> PICK q : q = Migrated(p)
  OBVIOUS
<1>1. q.audio = p.audio /\ q.mix = MixMade(p)
  BY MigratedFields DEF SameBase
<1>2. p.audio \in Seq(TrackType) /\ MixMade(p) \in Seq(MixType)
  BY PartsTyped, EnvelopeTyped
<1>3. Unique(IdsOf(p.audio)) /\ \A t \in ToSet(p.audio) : t.trim.start < t.trim.end
  BY DEF BaseOK, TracksOK
<1>4. DOMAIN q.mix = DOMAIN p.audio
  BY <1>1 DEF MixMade
<1>5. \A i \in DOMAIN p.audio :
        /\ q.mix[i].id = p.audio[i].id
        /\ q.mix[i].media = MediaId(p, "audio", p.audio[i].asset)
        /\ q.mix[i].fadeIn = 0 /\ q.mix[i].fadeOut = 0 /\ q.mix[i].ducking = "none"
  BY <1>1 DEF MixMade
<1>6. Unique(IdsOf(q.mix))
  BY <1>3, <1>4, <1>5, SameIds
<1>7. Len(q.mix) = Len(q.audio)
  <2> PICK a \in Nat : a = Len(q.audio)
    BY <1>1, <1>2
  <2> PICK b \in Nat : b = Len(q.mix)
    BY <1>1, <1>2
  <2>1. 1..a = 1..b
    BY <1>1, <1>2, <1>4
  <2> QED BY <2>1
<1>8. ASSUME NEW i \in DOMAIN p.audio PROVE MixTrackOK(q, q.mix[i])
  <2> PICK t : t = p.audio[i]
    OBVIOUS
  <2> PICK x : x = q.mix[i]
    OBVIOUS
  <2>1. /\ x.id = t.id /\ x.media = MediaId(p, "audio", t.asset)
        /\ x.fadeIn = 0 /\ x.fadeOut = 0 /\ x.ducking = "none"
    BY <1>5
  <2>2. Knows(q.audio, x.id) /\ Find(q.audio, x.id) = t
    BY <1>1, <1>3, <2>1, FoundById
  <2>3. t \in TrackType
    BY <1>2
  <2>4. t.asset \in AssetType /\ t.trim.start \in Int /\ t.trim.end \in Int
    BY <2>3 DEF TrackType, TimeRange
  <2>5. t.trim.start < t.trim.end
    BY <1>3 DEF ToSet
  <2>6. /\ x.media = t.asset.id /\ Knows(q.media, t.asset.id)
        /\ Find(q.media, t.asset.id).kind = "audio"
        /\ Find(q.media, t.asset.id).digest = t.asset.digest
    <3>1. PICK k \in 1..Len(Uses(p)) : Uses(p)[k].kind = "audio" /\ Uses(p)[k].asset = t.asset
      BY AudioIsUse
    <3> QED BY <2>1, <3>1, MigrationKeepsIds
  <2>7. HasMedia(q, x.media, {"audio"})
    BY <2>6 DEF HasMedia
  <2>8. t.asset = [id |-> x.media, digest |-> Find(q.media, x.media).digest]
    BY <2>4, <2>6 DEF AssetType
  <2>9. x.fadeIn + x.fadeOut <= t.trim.end - t.trim.start
    BY <2>1, <2>4, <2>5
  <2> QED BY <2>1, <2>2, <2>7, <2>8, <2>9 DEF MixTrackOK, LongestFade
<1>9. \A m \in ToSet(q.mix) : MixTrackOK(q, m) /\ m.ducking = "none"
  BY <1>4, <1>5, <1>8 DEF ToSet
<1> QED BY <1>6, <1>7, <1>9 DEF MixOK

(* A project migrates if and only if its assets have ids of their own and  *)
(* last no longer than the registry allows.                                *)
LEMMA Migrates ==
  ASSUME NEW p \in ProjectType, BaseOK(p), Clean \in SnapshotType
  PROVE  ValidProject(Migrated(p)) <=> ~CannotMigrate(p)
<1> PICK q : q = Migrated(p)
  OBVIOUS
<1> PICK U : U = Uses(p)
  OBVIOUS
<1>1. q \in ProjectType /\ SameBase(p, q) /\ q.version = 2 /\ q.media = MediaMade(p)
  BY MigratedFields
<1>2. BaseOK(q) /\ q.audio = p.audio /\ q.pips = p.pips
  BY <1>1, BaseIsKept DEF SameBase
<1>a. p.audio \in Seq(TrackType) /\ p.pips \in Seq(PipType) /\ U \in Seq(UseType)
  BY PartsTyped, UsesInOrder
<1>3. ASSUME ~CannotMigrate(p) PROVE ValidProject(q)
  <2>1. OwnIds(U)
    BY <1>3, ClashOrOwnIds
  <2>2. ASSUME NEW k \in 1..Len(U) PROVE AssetOK(q, U[k].asset, U[k].kind)
    BY <2>1, MigrationKeepsIds DEF AssetOK, HasMedia
  <2>3. \A t \in ToSet(q.audio) : AssetOK(q, t.asset, "audio")
    <3> SUFFICES ASSUME NEW i \in DOMAIN p.audio PROVE AssetOK(q, p.audio[i].asset, "audio")
      BY <1>2 DEF ToSet
    <3> QED BY <2>2, AudioIsUse
  <2>4. \A t \in ToSet(q.pips) : AssetOK(q, t.asset, "image")
    <3> SUFFICES ASSUME NEW i \in DOMAIN p.pips PROVE AssetOK(q, p.pips[i].asset, "image")
      BY <1>2 DEF ToSet
    <3> QED BY <2>2, PipIsUse
  <2>5. EditorialOK(q)
    BY <1>3, <2>1, <2>3, <2>4, MigratedMediaOK, MigratedVisualsOK, MigratedTransitionsOK,
       MigratedMixOK DEF EditorialOK
  <2> QED BY <1>2, <2>5 DEF ValidProject
<1>4. ASSUME ValidProject(q) PROVE ~CannotMigrate(p)
  <2>1. EditorialOK(q)
    BY <1>1, <1>4 DEF ValidProject
  <2>2. ASSUME NEW k \in 1..Len(U) PROVE AssetOK(q, U[k].asset, U[k].kind)
    <3>1. PICK a \in Nat : a = Len(p.audio)
      BY <1>a
    <3>2. PICK b \in Nat : b = Len(p.pips)
      BY <1>a
    <3>3. k \in 1..(a + b)
      BY <3>1, <3>2, UsesInOrder
    <3>4. CASE k <= a
      <4>1. k \in DOMAIN p.audio
        BY <1>a, <3>1, <3>3, <3>4
      <4>2. U[k].kind = "audio" /\ U[k].asset = p.audio[k].asset
        BY <4>1, AudioIsUse
      <4>3. p.audio[k] \in ToSet(q.audio)
        BY <1>2, <4>1 DEF ToSet
      <4> QED BY <2>1, <4>2, <4>3 DEF EditorialOK
    <3>5. CASE ~(k <= a)
      <4>1. PICK j \in 1..b : k = a + j
        <5>1. k - a \in 1..b /\ k = a + (k - a)
          BY <3>3, <3>5
        <5> QED BY <5>1
      <4>2. j \in DOMAIN p.pips
        BY <1>a, <3>2
      <4>3. U[k].kind = "image" /\ U[k].asset = p.pips[j].asset
        BY <3>1, <4>1, <4>2, PipIsUse
      <4>4. p.pips[j] \in ToSet(q.pips)
        BY <1>2, <4>2 DEF ToSet
      <4> QED BY <2>1, <4>3, <4>4 DEF EditorialOK
    <3> QED BY <3>4, <3>5
  <2>3. OwnIds(U)
    <3> SUFFICES ASSUME NEW i \in DOMAIN U, NEW j \in DOMAIN U, U[i].asset.id = U[j].asset.id
                 PROVE  U[i].asset = U[j].asset /\ U[i].kind = U[j].kind
      BY DEF OwnIds
    <3>1. i \in 1..Len(U) /\ j \in 1..Len(U) /\ U[i] \in UseType /\ U[j] \in UseType
      BY <1>a
    <3>2. AssetOK(q, U[i].asset, U[i].kind) /\ AssetOK(q, U[j].asset, U[j].kind)
      BY <2>2, <3>1
    <3>3. U[i].kind = U[j].kind /\ U[i].asset.digest = U[j].asset.digest
      BY <3>2 DEF AssetOK, HasMedia
    <3>4. U[i].asset \in AssetType /\ U[j].asset \in AssetType
      BY <3>1 DEF UseType
    <3> QED BY <3>3, <3>4 DEF AssetType
  <2>4. ASSUME NEW k \in DOMAIN U PROVE ~(U[k].duration > LongestMedia)
    <3>1. k \in 1..Len(U)
      BY <1>a
    <3>2. PICK m \in DOMAIN LegacyMedia(p) :
            /\ LegacyMedia(p)[m] \in MadeType
            /\ U[k].duration \in Nat /\ U[k].duration <= LegacyMedia(p)[m].duration
      BY <3>1, EntryOfUse
    <3>3. m \in DOMAIN q.media /\ q.media[m].duration = LegacyMedia(p)[m].duration
      BY <1>1 DEF MediaMade
    <3>4. q.media[m].duration \in 1..LongestMedia
      BY <2>1, <3>3 DEF EditorialOK, MediaOK, ToSet
    <3> PICK x : x = U[k].duration
      OBVIOUS
    <3> PICK y : y = q.media[m].duration
      OBVIOUS
    <3>5. x \in Nat /\ x <= y /\ y \in 1..LongestMedia
      BY <3>2, <3>3, <3>4
    <3> QED BY <3>5, LongestIsNumber
  <2> QED BY <2>3, <2>4, ClashOrOwnIds
<1> QED BY <1>3, <1>4

(* What a profile changes: clips get its transition, the mix its levels.   *)
ProfiledClips(p, profile) ==
  [i \in DOMAIN p.clips |-> [p.clips[i] EXCEPT !.after =
    [kind |-> IF ProfiledFamily(p, i, profile) = "cut" THEN "cut" ELSE "crossfade",
     duration |-> ProfiledDuration(p, i, profile)]]]
ProfiledTransitions(p, profile) ==
  [i \in DOMAIN p.clips |->
    [id |-> p.clips[i].id, family |-> ProfiledFamily(p, i, profile),
     duration |-> ProfiledDuration(p, i, profile)]]
ProfiledTracks(p, profile) == [i \in DOMAIN p.mix |-> ProfiledMix(p.mix[i], i, profile)]

ChangedTo(p, r, o, c, a, d, e) ==
  [p EXCEPT !.revision = r, !.profile = a, !.policy = o, !.clips = c, !.transitions = d, !.mix = e]

(* The fields of a project with those parts changed.                       *)
LEMMA ChangedFields ==
  ASSUME NEW p \in ProjectType, NEW r, NEW o, NEW c, NEW a, NEW d, NEW e
  PROVE  LET q == ChangedTo(p, r, o, c, a, d, e)
         IN  /\ q.revision = r /\ q.policy = o /\ q.clips = c /\ q.profile = a
             /\ q.transitions = d /\ q.mix = e
             /\ q.version = p.version /\ q.sources = p.sources /\ q.overlays = p.overlays
             /\ q.audio = p.audio /\ q.pips = p.pips /\ q.preview = p.preview
             /\ q.media = p.media /\ q.visuals = p.visuals
             /\ r \in Nat /\ o \in [limit : Int, count : Int] /\ c \in Seq(ClipType)
                /\ a \in Seq(SnapshotType) /\ d \in Seq(TransitionType) /\ e \in Seq(MixType)
                => q \in ProjectType
<1> DEFINE q == ChangedTo(p, r, o, c, a, d, e)
<1>1. p = [x \in ProjectFields |-> p[x]]
  BY FieldsOfProject
<1>2. /\ q.revision = r /\ q.policy = o /\ q.clips = c /\ q.profile = a
      /\ q.transitions = d /\ q.mix = e
  BY <1>1 DEF ChangedTo, ProjectFields
<1>3. /\ q.version = p.version /\ q.sources = p.sources /\ q.overlays = p.overlays
      /\ q.audio = p.audio /\ q.pips = p.pips /\ q.preview = p.preview
      /\ q.media = p.media /\ q.visuals = p.visuals
  BY <1>1 DEF ChangedTo, ProjectFields
<1>4. q = [x \in ProjectFields |-> q[x]]
  BY <1>1 DEF ChangedTo
<1>5. ASSUME r \in Nat, o \in [limit : Int, count : Int], c \in Seq(ClipType),
             a \in Seq(SnapshotType), d \in Seq(TransitionType), e \in Seq(MixType)
      PROVE  q \in ProjectType
  <2> HIDE DEF q
  <2>1. /\ q.version \in {1, 2} /\ q.sources \in Seq(SourceType)
        /\ q.overlays \in Seq(OverlayType) /\ q.audio \in Seq(TrackType)
        /\ q.pips \in Seq(PipType) /\ q.preview \in PreviewType
        /\ q.media \in Seq(MediaType) /\ q.visuals \in Seq(VisualType)
    BY <1>3, PartsTyped
  <2> QED BY <1>2, <1>4, <1>5, <2>1, PartsMakeProject
<1> QED BY <1>2, <1>3, <1>5

(* A transition is a cut exactly when it takes no time, the last one too.  *)
LEMMA FamilyAndDuration ==
  ASSUME NEW p, NEW i, NEW profile, SnapshotOK(profile)
  PROVE  /\ ProfiledFamily(p, i, profile) \in TransitionFamilies
         /\ ProfiledDuration(p, i, profile) \in 0..LongestTransition
         /\ (ProfiledFamily(p, i, profile) = "cut") <=> (ProfiledDuration(p, i, profile) = 0)
<1>1. /\ profile.family \in TransitionFamilies /\ profile.duration \in 0..LongestTransition
      /\ (profile.family = "cut") <=> (profile.duration = 0)
  BY DEF SnapshotOK, SnapshotType
<1>2. CASE i = Len(p.clips)
  BY <1>2 DEF ProfiledFamily, ProfiledDuration, TransitionFamilies, LongestTransition
<1>3. CASE i # Len(p.clips)
  BY <1>1, <1>3 DEF ProfiledFamily, ProfiledDuration
<1> QED BY <1>2, <1>3

(* What a profile changes is typed.                                        *)
LEMMA ProfiledParts ==
  ASSUME NEW p \in ProjectType, NEW profile, SnapshotOK(profile)
  PROVE  /\ ProfiledClips(p, profile) \in Seq(ClipType)
         /\ ProfiledTransitions(p, profile) \in Seq(TransitionType)
         /\ ProfiledTracks(p, profile) \in Seq(MixType)
<1>1. p.clips \in Seq(ClipType) /\ p.mix \in Seq(MixType)
  BY PartsTyped
<1>2. ASSUME NEW i \in DOMAIN p.clips
      PROVE  /\ ProfiledClips(p, profile)[i] \in ClipType
             /\ ProfiledTransitions(p, profile)[i] \in TransitionType
  <2> PICK f : f = ProfiledFamily(p, i, profile)
    OBVIOUS
  <2> PICK d : d = ProfiledDuration(p, i, profile)
    OBVIOUS
  <2>1. f \in TransitionFamilies /\ d \in Int
    BY FamilyAndDuration
  <2>2. p.clips[i] \in ClipType
    BY <1>1
  <2>3. ProfiledClips(p, profile)[i] =
          [p.clips[i] EXCEPT !.after =
            [kind |-> IF f = "cut" THEN "cut" ELSE "crossfade", duration |-> d]]
    BY DEF ProfiledClips
  <2>4. ProfiledTransitions(p, profile)[i] = [id |-> p.clips[i].id, family |-> f, duration |-> d]
    BY DEF ProfiledTransitions
  <2>5. [kind |-> IF f = "cut" THEN "cut" ELSE "crossfade", duration |-> d]
          \in [kind : {"cut", "crossfade"}, duration : Int]
    BY <2>1
  <2>6. ProfiledClips(p, profile)[i] \in ClipType
    BY <2>2, <2>3, <2>5 DEF ClipType
  <2>7. p.clips[i].id \in STRING
    BY <2>2 DEF ClipType
  <2> QED BY <2>1, <2>4, <2>6, <2>7 DEF TransitionType
<1>3. ASSUME NEW i \in DOMAIN p.mix PROVE ProfiledTracks(p, profile)[i] \in MixType
  <2>1. p.mix[i] \in MixType
    BY <1>1
  <2>2. /\ profile.role \in Roles /\ profile.ducking \in Duckings
        /\ profile.fadeIn \in Int /\ profile.fadeOut \in Int
    BY DEF SnapshotOK, SnapshotType
  <2>3. ProfiledTracks(p, profile)[i] = ProfiledMix(p.mix[i], i, profile)
    BY DEF ProfiledTracks
  <2> QED BY <2>1, <2>2, <2>3 DEF ProfiledMix, MixType, Roles, Duckings
<1>4. /\ ProfiledClips(p, profile) = [i \in DOMAIN p.clips |-> ProfiledClips(p, profile)[i]]
      /\ ProfiledTransitions(p, profile) = [i \in DOMAIN p.clips |-> ProfiledTransitions(p, profile)[i]]
      /\ ProfiledTracks(p, profile) = [i \in DOMAIN p.mix |-> ProfiledTracks(p, profile)[i]]
  BY DEF ProfiledClips, ProfiledTransitions, ProfiledTracks
<1>5. ProfiledClips(p, profile) \in Seq(ClipType)
  BY <1>1, <1>2, <1>4, MadeFromSequence
<1>6. ProfiledTransitions(p, profile) \in Seq(TransitionType)
  BY <1>1, <1>2, <1>4, MadeFromSequence
<1>7. ProfiledTracks(p, profile) \in Seq(MixType)
  BY <1>1, <1>3, <1>4, MadeFromSequence
<1> QED BY <1>5, <1>6, <1>7

\* The new project n has what the profile gives p, and the rest of p.
TakesProfile(p, n, profile, mode) ==
  /\ n \in ProjectType
  /\ n.revision = p.revision + 1
  /\ n.policy = [p.policy EXCEPT !.count = @ + Cost(mode)]
  /\ n.clips = ProfiledClips(p, profile)
  /\ n.transitions = ProfiledTransitions(p, profile)
  /\ n.mix = ProfiledTracks(p, profile)
  /\ n.version = p.version /\ n.sources = p.sources /\ n.overlays = p.overlays
  /\ n.audio = p.audio /\ n.pips = p.pips /\ n.preview = p.preview
  /\ n.media = p.media /\ n.visuals = p.visuals

(* Applying a profile changes that, and nothing else.                      *)
LEMMA ProfiledFields ==
  ASSUME NEW p \in ProjectType, NEW profile, SnapshotOK(profile),
         NEW mode \in {"manual", "automated"}
  PROVE  TakesProfile(p, Profiled(p, profile, mode), profile, mode)
<1> PICK r : r = p.revision + 1
  OBVIOUS
<1> PICK o : o = [p.policy EXCEPT !.count = @ + Cost(mode)]
  OBVIOUS
<1> PICK c : c = ProfiledClips(p, profile)
  OBVIOUS
<1> PICK d : d = ProfiledTransitions(p, profile)
  OBVIOUS
<1> PICK e : e = ProfiledTracks(p, profile)
  OBVIOUS
<1> PICK a : a = <<profile>>
  OBVIOUS
<1>1. Profiled(p, profile, mode) = ChangedTo(p, r, o, c, a, d, e)
  BY DEF Profiled, ChangedTo, ProfiledClips, ProfiledTransitions, ProfiledTracks
<1>2. r \in Nat /\ a \in Seq(SnapshotType)
  BY PartsTyped DEF SnapshotOK
<1>3. o \in [limit : Int, count : Int]
  BY PartsTyped DEF Cost
<1>4. c \in Seq(ClipType) /\ d \in Seq(TransitionType) /\ e \in Seq(MixType)
  BY ProfiledParts
<1> PICK q : q = ChangedTo(p, r, o, c, a, d, e)
  OBVIOUS
<1>5. q \in ProjectType
  BY <1>2, <1>3, <1>4, ChangedFields
<1>6. /\ q.revision = r /\ q.policy = o /\ q.clips = c
      /\ q.transitions = d /\ q.mix = e
      /\ q.version = p.version /\ q.sources = p.sources /\ q.overlays = p.overlays
      /\ q.audio = p.audio /\ q.pips = p.pips /\ q.preview = p.preview
      /\ q.media = p.media /\ q.visuals = p.visuals
  BY ChangedFields
<1> QED BY <1>1, <1>5, <1>6 DEF TakesProfile

(* Of the sections of both versions a profile can break the policy alone.  *)
LEMMA ProfiledBase ==
  ASSUME NEW p \in ProjectType, BaseOK(p), NEW profile, SnapshotOK(profile),
         NEW mode \in {"manual", "automated"}
  PROVE  LET n == Profiled(p, profile, mode)
         IN  /\ BaseOK(n) <=> PolicyOK(n.policy)
             /\ \A o : OnClip(n, o) <=> OnClip(p, o)
<1> PICK n : n = Profiled(p, profile, mode)
  OBVIOUS
<1> PICK C : C = p.clips
  OBVIOUS
<1> PICK D : D = n.clips
  OBVIOUS
<1>1. /\ D = ProfiledClips(p, profile) /\ n.sources = p.sources /\ n.overlays = p.overlays
      /\ n.audio = p.audio /\ n.pips = p.pips /\ n.preview = p.preview
      /\ n.revision = p.revision + 1 /\ C \in Seq(ClipType) /\ D \in Seq(ClipType)
      /\ p.revision \in Nat /\ p.preview \in PreviewType
  <2>1. TakesProfile(p, n, profile, mode)
    BY ProfiledFields
  <2>2. n \in ProjectType
    BY <2>1 DEF TakesProfile
  <2> QED BY <2>1, <2>2, PartsTyped DEF TakesProfile
<1>2. DOMAIN D = DOMAIN C
  BY <1>1 DEF ProfiledClips
<1>3. ASSUME NEW i \in DOMAIN C
      PROVE  /\ D[i].id = C[i].id /\ D[i].source = C[i].source /\ D[i].trim = C[i].trim
             /\ D[i].speeds = C[i].speeds /\ D[i].zooms = C[i].zooms
             /\ D[i].after.duration \in 0..LongestTransition
             /\ (D[i].after.kind = "cut") <=> (D[i].after.duration = 0)
  <2> PICK f : f = ProfiledFamily(p, i, profile)
    OBVIOUS
  <2> PICK d : d = ProfiledDuration(p, i, profile)
    OBVIOUS
  <2>1. d \in 0..LongestTransition /\ ((f = "cut") <=> (d = 0))
    BY FamilyAndDuration
  <2>2. C[i] \in ClipType
    BY <1>1
  <2>3. D[i] = [C[i] EXCEPT !.after = [kind |-> IF f = "cut" THEN "cut" ELSE "crossfade",
                                       duration |-> d]]
    BY <1>1 DEF ProfiledClips
  <2>4. /\ D[i].id = C[i].id /\ D[i].source = C[i].source /\ D[i].trim = C[i].trim
        /\ D[i].speeds = C[i].speeds /\ D[i].zooms = C[i].zooms
        /\ D[i].after = [kind |-> IF f = "cut" THEN "cut" ELSE "crossfade", duration |-> d]
    BY <2>2, <2>3 DEF ClipType
  <2>5. D[i].after.duration = d /\ ((D[i].after.kind = "cut") <=> (f = "cut"))
    BY <2>4
  <2> QED BY <2>1, <2>4, <2>5
<1>4. TimelineOK(p) /\ OverlaysOK(p) /\ TracksOK(p) /\ SourcesOK(p.sources) /\ PreviewOK(p)
  BY DEF BaseOK
<1>5. Len(C) \in 1..32 /\ Unique(IdsOf(C)) /\ \A i \in DOMAIN C : ClipOK(C[i], p.sources)
  BY <1>4 DEF TimelineOK, ToSet
<1>6. Unique(IdsOf(D))
  BY <1>2, <1>3, <1>5, SameIds
<1>7. Len(D) \in 1..32
  <2> PICK a \in Nat : a = Len(C)
    BY <1>1
  <2> PICK b \in Nat : b = Len(D)
    BY <1>1
  <2>1. 1..a = 1..b
    BY <1>1, <1>2
  <2>2. a = b
    BY <2>1
  <2> QED BY <1>5, <2>2
<1>8. \A i \in DOMAIN D : ClipOK(D[i], p.sources)
  <2> SUFFICES ASSUME NEW i \in DOMAIN C PROVE ClipOK(D[i], p.sources)
    BY <1>2
  <2>1. ClipOK(C[i], p.sources)
    BY <1>5
  <2> QED BY <1>3, <2>1 DEF ClipOK
<1>9. TimelineOK(n)
  BY <1>1, <1>6, <1>7, <1>8 DEF TimelineOK, ToSet
<1>10. ASSUME NEW o PROVE OnClip(n, o) <=> OnClip(p, o)
  <2>1. Knows(D, o.clip) <=> Knows(C, o.clip)
    BY <1>2, <1>3 DEF Knows, ToSet
  <2>2. ASSUME Knows(C, o.clip) PROVE Find(D, o.clip).trim = Find(C, o.clip).trim
    <3>1. PICK i \in DOMAIN C : C[i].id = o.clip /\ Find(C, o.clip) = C[i]
      BY <2>2, KnownIsFound
    <3>2. Find(D, D[i].id) = D[i]
      BY <1>2, <1>6, FoundById
    <3> QED BY <1>3, <3>1, <3>2
  <2> QED BY <2>1, <2>2 DEF OnClip, ClipLength
<1>11. OverlaysOK(n)
  BY <1>1, <1>4, <1>10 DEF OverlaysOK
<1>12. TracksOK(n)
  BY <1>1, <1>4, <1>10 DEF TracksOK
<1>13. PreviewOK(n)
  <2>1. p.preview.revision \in Int
    BY <1>1 DEF PreviewType
  <2> QED BY <1>1, <1>4, <2>1 DEF PreviewOK
<1>14. BaseOK(n) <=> PolicyOK(n.policy)
  BY <1>1, <1>4, <1>9, <1>11, <1>12, <1>13 DEF BaseOK
<1> QED BY <1>10, <1>14

(* And the policy only when the automated revisions are used up.           *)
LEMMA ProfiledPolicy ==
  ASSUME NEW p \in ProjectType, PolicyOK(p.policy), NEW profile, SnapshotOK(profile),
         NEW mode \in {"manual", "automated"}
  PROVE  PolicyOK(Profiled(p, profile, mode).policy)
           <=> (mode = "automated" => p.policy.count < p.policy.limit)
<1> PICK o : o = p.policy
  OBVIOUS
<1> PICK x : x = Profiled(p, profile, mode).policy
  OBVIOUS
<1>1. o \in [limit : Int, count : Int] /\ x = [o EXCEPT !.count = @ + Cost(mode)]
  <2>1. TakesProfile(p, Profiled(p, profile, mode), profile, mode)
    BY ProfiledFields
  <2> QED BY <2>1, PartsTyped DEF TakesProfile
<1>2. o.limit \in Int /\ o.count \in Int /\ x.limit = o.limit /\ x.count = o.count + Cost(mode)
  BY <1>1
<1>3. o.limit \in 0..16 /\ o.count \in 0..o.limit
  BY DEF PolicyOK, MaxAutomatedRevisions
<1>4. CASE mode = "manual"
  <2>1. x.count = o.count
    BY <1>2, <1>4 DEF Cost
  <2> QED BY <1>2, <1>3, <1>4, <2>1 DEF PolicyOK, MaxAutomatedRevisions
<1>5. CASE mode = "automated"
  <2>1. x.count = o.count + 1
    BY <1>2, <1>5 DEF Cost
  <2>2. PolicyOK(x) <=> o.count + 1 \in 0..o.limit
    BY <1>2, <1>3, <2>1 DEF PolicyOK, MaxAutomatedRevisions
  <2> QED BY <1>2, <1>3, <1>5, <2>2
<1> QED BY <1>4, <1>5

(* As many entries in the mix as tracks, each about a track of its own:    *)
(* s matches t.                                                            *)
MatchedTo(s, t, n) ==
  /\ n \in Nat /\ DOMAIN s = 1..n /\ DOMAIN t = 1..n
  /\ Unique(IdsOf(s)) /\ \A x \in ToSet(s) : Knows(t, x.id)

(* So every track has an entry.                                            *)
LEMMA EveryTrackMixed ==
  ASSUME NEW n, NEW s, NEW t, MatchedTo(s, t, n)
  PROVE  \A i \in 1..n : \E j \in 1..n : s[j].id = t[i].id
<1> SUFFICES ASSUME NEW i \in 1..n, \A j \in 1..n : s[j].id # t[i].id PROVE FALSE
  OBVIOUS
<1> USE DEF MatchedTo
<1> DEFINE T == (1..n) \ {i}
<1>1. ASSUME NEW j \in 1..n PROVE \E k \in T : t[k].id = s[j].id
  <2>1. s[j] \in ToSet(s)
    BY DEF ToSet
  <2>2. PICK x \in ToSet(t) : x.id = s[j].id
    BY <2>1 DEF Knows
  <2>3. PICK k \in 1..n : x = t[k]
    BY DEF ToSet
  <2>4. k # i
    BY <2>2, <2>3
  <2> QED BY <2>2, <2>3, <2>4
<1> DEFINE f == [j \in 1..n |-> CHOOSE k \in T : t[k].id = s[j].id]
<1>2. \A j \in 1..n : f[j] \in T /\ t[f[j]].id = s[j].id
  BY <1>1
<1>3. f \in [1..n -> T]
  BY <1>2
<1>4. IsFiniteSet(1..n) /\ Cardinality(1..n) = n
  BY CountTo
<1>5. IsFiniteSet(T) /\ Cardinality(T) = n - 1
  BY <1>4, FS_RemoveElement
<1>6. Cardinality(T) < Cardinality(1..n)
  BY <1>4, <1>5
<1> HIDE DEF f, T
<1>7. PICK x, y \in 1..n : x # y /\ f[x] = f[y]
  BY <1>3, <1>4, <1>5, <1>6, FS_PigeonHole
<1>8. s[x].id = s[y].id
  BY <1>2, <1>7
<1> QED BY <1>7, <1>8 DEF Unique, IdsOf, IsInjective

(* The mix a profile gives is valid unless a trim is too short for fades.  *)
LEMMA ProfiledMixOK ==
  ASSUME NEW p \in ProjectType, MixOK(p), Unique(IdsOf(p.audio)), NEW profile, SnapshotOK(profile),
         NEW mode \in {"manual", "automated"}
  PROVE  MixOK(Profiled(p, profile, mode)) <=> ~TooShortFor(p, profile)
<1> PICK n : n = Profiled(p, profile, mode)
  OBVIOUS
<1> PICK X : X = p.mix
  OBVIOUS
<1> PICK Y : Y = n.mix
  OBVIOUS
<1> PICK A : A = p.audio
  OBVIOUS
<1>1. /\ Y = ProfiledTracks(p, profile) /\ n.audio = A /\ n.media = p.media
      /\ X \in Seq(MixType) /\ Y \in Seq(MixType) /\ A \in Seq(TrackType)
  <2>1. TakesProfile(p, n, profile, mode)
    BY ProfiledFields
  <2>2. n \in ProjectType
    BY <2>1 DEF TakesProfile
  <2> QED BY <2>1, <2>2, PartsTyped DEF TakesProfile
<1>2. DOMAIN Y = DOMAIN X
  BY <1>1 DEF ProfiledTracks
<1>3. /\ profile.role \in Roles /\ profile.ducking \in Duckings
      /\ profile.fadeIn \in 0..LongestFade /\ profile.fadeOut \in 0..LongestFade
      /\ profile.role = "primary" => profile.ducking = "none"
  BY DEF SnapshotOK, SnapshotType
<1>4. ASSUME NEW i \in DOMAIN X
      PROVE  /\ Y[i].id = X[i].id /\ Y[i].media = X[i].media
             /\ Y[i].fadeIn = profile.fadeIn /\ Y[i].fadeOut = profile.fadeOut
             /\ Y[i].role = "primary" => Y[i].ducking = "none"
             /\ i = 1 => Y[i].role = "primary"
  <2>1. Y[i] = ProfiledMix(X[i], i, profile) /\ X[i] \in MixType
    BY <1>1 DEF ProfiledTracks
  <2>2. /\ Y[i].id = X[i].id /\ Y[i].media = X[i].media
        /\ Y[i].fadeIn = profile.fadeIn /\ Y[i].fadeOut = profile.fadeOut
    BY <2>1 DEF ProfiledMix, MixType
  <2>3. /\ Y[i].role = IF i = 1 /\ profile.role # "primary" THEN "primary" ELSE profile.role
        /\ Y[i].ducking = IF i = 1 /\ profile.role # "primary" THEN "none" ELSE profile.ducking
    BY <2>1 DEF ProfiledMix, MixType
  <2>4. Y[i].role = "primary" => Y[i].ducking = "none"
    BY <1>3, <2>3
  <2>5. i = 1 => Y[i].role = "primary"
    BY <2>3
  <2> QED BY <2>2, <2>4, <2>5
<1>5. /\ Unique(IdsOf(X)) /\ Len(X) = Len(A)
      /\ \A i \in DOMAIN X : MixTrackOK(p, X[i])
  BY DEF MixOK, ToSet
<1>6. Unique(IdsOf(Y))
  BY <1>2, <1>4, <1>5, SameIds
<1>7. PICK l \in Nat : l = Len(A) /\ DOMAIN A = 1..l /\ DOMAIN X = 1..l
  BY <1>1, <1>5
<1>8. Len(Y) = Len(A)
  <2> PICK b \in Nat : b = Len(Y)
    BY <1>1
  <2>1. 1..l = 1..b
    BY <1>1, <1>2, <1>7
  <2>2. l = b
    BY <2>1
  <2> QED BY <1>7, <2>2
<1>9. ASSUME NEW i \in DOMAIN X
      PROVE  MixTrackOK(n, Y[i]) <=>
               LET track == Find(A, X[i].id)
               IN  profile.fadeIn + profile.fadeOut <= track.trim.end - track.trim.start
  <2> PICK x : x = X[i]
    OBVIOUS
  <2> PICK y : y = Y[i]
    OBVIOUS
  <2> PICK track : track = Find(A, x.id)
    OBVIOUS
  <2>1. /\ y.id = x.id /\ y.media = x.media
        /\ y.fadeIn = profile.fadeIn /\ y.fadeOut = profile.fadeOut
        /\ y.role = "primary" => y.ducking = "none"
    BY <1>4
  <2>2. /\ Knows(A, x.id) /\ HasMedia(p, x.media, {"audio"})
        /\ track.asset = [id |-> x.media, digest |-> Find(p.media, x.media).digest]
    BY <1>5 DEF MixTrackOK
  <2>3. HasMedia(n, y.media, {"audio"})
    BY <1>1, <2>1, <2>2 DEF HasMedia
  <2> QED BY <1>1, <1>3, <2>1, <2>2, <2>3 DEF MixTrackOK
<1>10. ASSUME ~TooShortFor(p, profile) PROVE MixOK(n)
  <2>1. ASSUME NEW i \in DOMAIN X PROVE MixTrackOK(n, Y[i])
    <3> PICK track : track = Find(A, X[i].id)
      OBVIOUS
    <3>1. Knows(A, X[i].id)
      BY <1>5 DEF MixTrackOK
    <3>2. PICK k \in DOMAIN A : track = A[k]
      BY <3>1, KnownIsFound
    <3>3. track \in ToSet(A) /\ track \in TrackType
      BY <1>1, <3>2 DEF ToSet
    <3>4. ~(track.trim.end - track.trim.start < profile.fadeIn + profile.fadeOut)
      BY <1>10, <3>3 DEF TooShortFor
    <3>5. track.trim.end \in Int /\ track.trim.start \in Int
      BY <3>3 DEF TrackType, TimeRange
    <3>6. profile.fadeIn + profile.fadeOut <= track.trim.end - track.trim.start
      BY <1>3, <3>4, <3>5 DEF LongestFade
    <3> QED BY <1>9, <3>6
  <2>2. \A m \in ToSet(Y) : MixTrackOK(n, m)
    BY <1>2, <2>1 DEF ToSet
  <2>3. (\E m \in ToSet(Y) : m.ducking = "against-primary") => \E m \in ToSet(Y) : m.role = "primary"
    <3> SUFFICES ASSUME NEW i \in DOMAIN Y PROVE \E k \in DOMAIN Y : Y[k].role = "primary"
      BY DEF ToSet
    <3>1. 1 \in DOMAIN X
      BY <1>2, <1>7
    <3> QED BY <1>2, <1>4, <3>1
  <2> QED BY <1>1, <1>6, <1>8, <2>2, <2>3 DEF MixOK
<1>11. \A i \in 1..l : \E j \in 1..l : X[j].id = A[i].id
  <2>1. \A x \in ToSet(X) : Knows(A, x.id)
    BY <1>5 DEF MixTrackOK, ToSet
  <2>2. DOMAIN X = 1..l /\ DOMAIN A = 1..l /\ Unique(IdsOf(X)) /\ l \in Nat
    BY <1>5, <1>7
  <2>3. MatchedTo(X, A, l)
    BY <2>1, <2>2 DEF MatchedTo
  <2> QED BY <2>3, EveryTrackMixed
<1>12. ASSUME MixOK(n) PROVE ~TooShortFor(p, profile)
  <2> SUFFICES ASSUME NEW i \in DOMAIN A,
                      A[i].trim.end - A[i].trim.start < profile.fadeIn + profile.fadeOut
               PROVE  FALSE
    BY DEF TooShortFor, ToSet
  <2>2. PICK j \in 1..l : X[j].id = A[i].id
    BY <1>11, <1>7
  <2> PICK track : track = Find(A, X[j].id)
    OBVIOUS
  <2>3. j \in DOMAIN X /\ MixTrackOK(n, Y[j])
    BY <1>1, <1>2, <1>7, <1>12 DEF MixOK, ToSet
  <2>4. profile.fadeIn + profile.fadeOut <= track.trim.end - track.trim.start
    BY <1>9, <2>3
  <2>5. Knows(A, X[j].id)
    BY <1>5, <2>3 DEF MixTrackOK
  <2>6. Unique(IdsOf(A))
    OBVIOUS
  <2>7. track = A[i]
    BY <2>2, <2>6, FoundById
  <2>8. A[i] \in TrackType
    BY <1>1
  <2>9. A[i].trim.end \in Int /\ A[i].trim.start \in Int
    BY <2>8 DEF TrackType, TimeRange
  <2> QED BY <1>3, <2>4, <2>7, <2>9 DEF LongestFade
<1> QED BY <1>10, <1>12

(* Applying a profile leaves the rest of a valid version-2 project valid:  *)
(* only fades longer than a trim can stop it.                              *)
LEMMA ProfiledEditorial ==
  ASSUME NEW p \in ProjectType, BaseOK(p), EditorialOK(p), NEW profile, SnapshotOK(profile),
         NEW mode \in {"manual", "automated"}
  PROVE  EditorialOK(Profiled(p, profile, mode)) <=> ~TooShortFor(p, profile)
<1> PICK n : n = Profiled(p, profile, mode)
  OBVIOUS
<1> PICK C : C = p.clips
  OBVIOUS
<1> PICK D : D = n.clips
  OBVIOUS
<1> PICK T : T = n.transitions
  OBVIOUS
<1>1. /\ D = ProfiledClips(p, profile) /\ T = ProfiledTransitions(p, profile)
      /\ n.audio = p.audio /\ n.pips = p.pips /\ n.media = p.media /\ n.visuals = p.visuals
      /\ C \in Seq(ClipType) /\ D \in Seq(ClipType)
  <2>1. TakesProfile(p, n, profile, mode)
    BY ProfiledFields
  <2>2. n \in ProjectType
    BY <2>1 DEF TakesProfile
  <2> QED BY <2>1, <2>2, PartsTyped DEF TakesProfile
<1>2. \A o : OnClip(n, o) <=> OnClip(p, o)
  BY ProfiledBase
<1>3. MediaOK(n.media)
  BY <1>1 DEF EditorialOK
<1>4. \A a, k : HasMedia(n, a, k) <=> HasMedia(p, a, k)
  BY <1>1 DEF HasMedia
<1>5. \A a, k : AssetOK(n, a, k) <=> AssetOK(p, a, k)
  BY <1>1, <1>4 DEF AssetOK
<1>6. /\ \A t \in ToSet(n.audio) : AssetOK(n, t.asset, "audio")
      /\ \A t \in ToSet(n.pips) : AssetOK(n, t.asset, "image")
  BY <1>1, <1>5 DEF EditorialOK
<1>7. ASSUME NEW t, VisualOK(p, t) PROVE VisualOK(n, t)
  BY <1>1, <1>2, <1>4, <1>7 DEF VisualOK
<1>8. /\ Len(n.visuals) <= 16 /\ Unique(IdsOf(n.visuals))
      /\ \A t \in ToSet(n.visuals) : VisualOK(n, t)
  BY <1>1, <1>7 DEF EditorialOK
<1>9. Unique(IdsOf(C)) /\ Unique(IdsOf(p.audio))
  BY DEF BaseOK, TimelineOK, TracksOK
<1>10. /\ DOMAIN D = DOMAIN C /\ DOMAIN T = DOMAIN C
       /\ \A i \in DOMAIN C : T[i].id = C[i].id
  BY <1>1 DEF ProfiledClips, ProfiledTransitions
<1>11. Unique(IdsOf(T))
  BY <1>9, <1>10, SameIds
<1>12. ASSUME NEW i \in DOMAIN C PROVE TransitionOK(n, T[i]) /\ D[i].id = C[i].id
  <2> PICK f : f = ProfiledFamily(p, i, profile)
    OBVIOUS
  <2> PICK d : d = ProfiledDuration(p, i, profile)
    OBVIOUS
  <2>1. d \in 0..LongestTransition /\ ((f = "cut") <=> (d = 0))
    BY FamilyAndDuration
  <2>2. T[i] = [id |-> C[i].id, family |-> f, duration |-> d]
    BY <1>1 DEF ProfiledTransitions
  <2>3. D[i] = [C[i] EXCEPT !.after = [kind |-> IF f = "cut" THEN "cut" ELSE "crossfade",
                                       duration |-> d]]
    BY <1>1 DEF ProfiledClips
  <2>4. C[i] \in ClipType
    BY <1>1
  <2>5. /\ D[i].id = C[i].id
        /\ D[i].after = [kind |-> IF f = "cut" THEN "cut" ELSE "crossfade", duration |-> d]
    BY <2>3, <2>4 DEF ClipType
  <2>6. \A k \in DOMAIN C : D[k].id = C[k].id
    <3> SUFFICES ASSUME NEW k \in DOMAIN C PROVE D[k].id = C[k].id
      OBVIOUS
    <3>1. C[k] \in ClipType
      BY <1>1
    <3> QED BY <1>1, <3>1 DEF ProfiledClips, ClipType
  <2>7. Unique(IdsOf(D))
    BY <1>9, <1>10, <2>6, SameIds
  <2>8. Knows(D, C[i].id) /\ Find(D, C[i].id) = D[i]
    BY <1>10, <2>5, <2>7, FoundById
  <2>9. T[i].id = C[i].id /\ T[i].family = f /\ T[i].duration = d
    BY <2>2
  <2> QED BY <2>1, <2>5, <2>8, <2>9 DEF TransitionOK
<1>13. \A t \in ToSet(T) : TransitionOK(n, t)
  BY <1>10, <1>12 DEF ToSet
<1>14. MixOK(n) <=> ~TooShortFor(p, profile)
  BY <1>9, ProfiledMixOK DEF EditorialOK
<1> QED BY <1>3, <1>6, <1>8, <1>11, <1>13, <1>14 DEF EditorialOK

(* What the second version of a project keeps of the first.                *)
LEMMA SecondVersion ==
  ASSUME NEW p \in ProjectType, Clean \in SnapshotType
  PROVE  LET q == AsVersion2(p)
         IN  q \in ProjectType /\ SameBase(p, q) /\ q.version = 2
<1>1. CASE p.version = 1
  BY <1>1, MigratedFields DEF AsVersion2
<1>2. CASE p.version # 1
  BY <1>2, PartsTyped DEF AsVersion2, SameBase
<1> QED BY <1>1, <1>2

(* When a profile can be applied to a valid project.                       *)
LEMMA Applies ==
  ASSUME NEW p \in ProjectType, ValidProject(p), Clean \in SnapshotType,
         NEW profile, SnapshotOK(profile), NEW mode \in {"manual", "automated"}
  PROVE  CanApply(p, profile, mode) <=>
           /\ p.version = 1 => ~CannotMigrate(p)
           /\ ~HasGifAudio(p, profile) /\ ~TooShortFor(p, profile)
           /\ mode = "automated" => p.policy.count < p.policy.limit
<1> PICK q : q = AsVersion2(p)
  OBVIOUS
<1> PICK n : n = Profiled(q, profile, mode)
  OBVIOUS
<1>1. q \in ProjectType /\ SameBase(p, q) /\ q.version = 2
  BY SecondVersion
<1>2. ValidProject(q) <=> (p.version = 1 => ~CannotMigrate(p))
  <2>1. CASE p.version = 1
    BY <2>1, Migrates DEF AsVersion2, ValidProject
  <2>2. CASE p.version # 1
    BY <2>2 DEF AsVersion2
  <2> QED BY <2>1, <2>2
<1>3. /\ n.version = q.version /\ n.sources = q.sources /\ n.revision = q.revision + 1
      /\ n.policy = [q.policy EXCEPT !.count = @ + Cost(mode)]
  <2>1. TakesProfile(q, n, profile, mode)
    BY <1>1, ProfiledFields
  <2> QED BY <2>1 DEF TakesProfile
<1>4. 2 >= 2
  OBVIOUS
<1>5. MayRevise(q, n, mode) <=> ValidProject(n)
  BY <1>1, <1>3, <1>4 DEF MayRevise
<1>6. TooShortFor(q, profile) <=> TooShortFor(p, profile)
  BY <1>1 DEF TooShortFor, SameBase
<1>7. q.policy = p.policy /\ BaseOK(q) /\ PolicyOK(q.policy)
  BY <1>1, BaseIsKept DEF SameBase, ValidProject, BaseOK
<1>8. BaseOK(n) <=> (mode = "automated" => p.policy.count < p.policy.limit)
  BY <1>1, <1>7, ProfiledBase, ProfiledPolicy
<1>9. ASSUME ValidProject(q) PROVE EditorialOK(n) <=> ~TooShortFor(p, profile)
  BY <1>1, <1>6, <1>7, <1>9, ProfiledEditorial DEF ValidProject
<1>10. ValidProject(n) <=> BaseOK(n) /\ EditorialOK(n)
  BY <1>1, <1>3 DEF ValidProject
<1> QED BY <1>2, <1>5, <1>8, <1>9, <1>10 DEF CanApply

(* A project with another preview is as valid as before.                   *)
LEMMA PreviewChanged ==
  ASSUME NEW p \in ProjectType, ValidProject(p), NEW x \in PreviewType,
         x.revision <= p.revision, NEW q, q = [p EXCEPT !.preview = x]
  PROVE  /\ q \in ProjectType /\ ValidProject(q)
         /\ q.revision = p.revision /\ q.sources = p.sources /\ q.policy = p.policy
<1>1. p = [y \in ProjectFields |-> p[y]]
  BY FieldsOfProject
<1>2. /\ q.preview = x /\ q.version = p.version /\ q.revision = p.revision
      /\ q.policy = p.policy /\ q.sources = p.sources /\ q.clips = p.clips
      /\ q.overlays = p.overlays /\ q.audio = p.audio /\ q.pips = p.pips
      /\ q.profile = p.profile /\ q.media = p.media /\ q.visuals = p.visuals
      /\ q.transitions = p.transitions /\ q.mix = p.mix
  BY <1>1 DEF ProjectFields
<1>3. q = [y \in ProjectFields |-> q[y]]
  BY <1>1
<1>4. q \in ProjectType
  BY <1>2, <1>3, PartsTyped, PartsMakeProject
<1>5. \A o : OnClip(q, o) <=> OnClip(p, o)
  BY <1>2 DEF OnClip, ClipLength
<1>6. BaseOK(q)
  <2>1. OverlaysOK(q) /\ TracksOK(q)
    BY <1>2, <1>5 DEF ValidProject, BaseOK, OverlaysOK, TracksOK
  <2>2. PreviewOK(q)
    BY <1>2 DEF PreviewOK
  <2> QED BY <1>2, <2>1, <2>2 DEF ValidProject, BaseOK, TimelineOK
<1>7. ASSUME EditorialOK(p) PROVE EditorialOK(q)
  <2>1. \A a, k : HasMedia(q, a, k) <=> HasMedia(p, a, k)
    BY <1>2 DEF HasMedia
  <2>2. \A a, k : AssetOK(q, a, k) <=> AssetOK(p, a, k)
    BY <1>2, <2>1 DEF AssetOK
  <2>3. \A t : VisualOK(q, t) <=> VisualOK(p, t)
    BY <1>2, <1>5, <2>1 DEF VisualOK
  <2>4. \A t : TransitionOK(q, t) <=> TransitionOK(p, t)
    BY <1>2 DEF TransitionOK
  <2>5. \A t : MixTrackOK(q, t) <=> MixTrackOK(p, t)
    BY <1>2, <2>1 DEF MixTrackOK
  <2>6. MixOK(q)
    BY <1>2, <1>7, <2>5 DEF EditorialOK, MixOK
  <2> QED BY <1>2, <1>7, <2>2, <2>3, <2>4, <2>6 DEF EditorialOK
<1> QED BY <1>2, <1>4, <1>6, <1>7 DEF ValidProject

(* What replaces a project is typed, valid, of the same captures, and has  *)
(* counted one more automated revision if it is one.                       *)
LEMMA Replaced ==
  ASSUME NEW p \in ProjectType, NEW n \in ProjectType, NEW mode, MayRevise(p, n, mode)
  PROVE  LET r == Revised(p, n)
         IN  /\ r \in ProjectType /\ ValidProject(r) /\ r.sources = p.sources
             /\ r.policy = [p.policy EXCEPT !.count = @ + Cost(mode)]
<1>1. /\ ValidProject(n) /\ n.sources = p.sources /\ n.revision = p.revision + 1
      /\ n.policy = [p.policy EXCEPT !.count = @ + Cost(mode)]
  BY DEF MayRevise
<1>2. p.revision \in Nat /\ n.revision \in Nat /\ n.preview \in PreviewType
  BY PartsTyped
<1> DEFINE x == IF n.preview = [status |-> "rendered", revision |-> n.revision] THEN n.preview
                ELSE [status |-> "stale", revision |-> p.revision]
<1>3. x \in PreviewType /\ x.revision <= n.revision
  <2>1. [status |-> "stale", revision |-> p.revision] \in PreviewType
    BY <1>2 DEF PreviewType
  <2> QED BY <1>1, <1>2, <2>1
<1>4. Revised(p, n) = [n EXCEPT !.preview = x]
  BY DEF Revised
<1> HIDE DEF x
<1> QED BY <1>1, <1>3, <1>4, PreviewChanged

(* What a client may change: the clips, the transitions, the audio, the    *)
(* mix and the preview.                                                    *)
EditedTo(p, c, d, a, e, x) ==
  [p EXCEPT !.clips = c, !.transitions = d, !.audio = a, !.mix = e, !.preview = x]

(* A project with typed parts in place of those is typed.                  *)
LEMMA EditedIsTyped ==
  ASSUME NEW p \in ProjectType, NEW c \in Seq(ClipType), NEW d \in Seq(TransitionType),
         NEW a \in Seq(TrackType), NEW e \in Seq(MixType), NEW x \in PreviewType
  PROVE  EditedTo(p, c, d, a, e, x) \in ProjectType
<1> DEFINE q == EditedTo(p, c, d, a, e, x)
<1>1. p = [y \in ProjectFields |-> p[y]]
  BY FieldsOfProject
<1>2. /\ q.clips = c /\ q.transitions = d /\ q.audio = a /\ q.mix = e /\ q.preview = x
      /\ q.version = p.version /\ q.revision = p.revision /\ q.policy = p.policy
      /\ q.sources = p.sources /\ q.overlays = p.overlays /\ q.pips = p.pips
      /\ q.profile = p.profile /\ q.media = p.media /\ q.visuals = p.visuals
  BY <1>1 DEF EditedTo, ProjectFields
<1>3. q = [y \in ProjectFields |-> q[y]]
  BY <1>1 DEF EditedTo
<1> HIDE DEF q
<1> QED BY <1>2, <1>3, PartsTyped, PartsMakeProject DEF q

(* Every edit of a typed project is typed.                                 *)
LEMMA EditIsTyped ==
  ASSUME NEW p \in ProjectType, NEW edit \in Edits(p), Trims \subseteq Nat
  PROVE  edit \in ProjectType
<1>1. /\ p.clips \in Seq(ClipType) /\ p.transitions \in Seq(TransitionType)
      /\ p.audio \in Seq(TrackType) /\ p.mix \in Seq(MixType) /\ p.preview \in PreviewType
      /\ p.revision \in Nat
  BY PartsTyped
<1>2. p = [y \in ProjectFields |-> p[y]]
  BY FieldsOfProject
<1>3. \A S : \A s \in Seq(S) : Front(s) \in Seq(S)
  <2> SUFFICES ASSUME NEW S, NEW s \in Seq(S) PROVE Front(s) \in Seq(S)
    OBVIOUS
  <2>1. Len(s) - 1 \in Int /\ \A i \in 1..(Len(s) - 1) : s[i] \in S
    OBVIOUS
  <2> QED BY <2>1, SubSeqProperties DEF Front
<1>4. CASE \E t \in Trims : edit = [p EXCEPT !.clips[Len(p.clips)].trim.end = t]
  <2>1. PICK t \in Trims : edit = [p EXCEPT !.clips[Len(p.clips)].trim.end = t]
    BY <1>4
  <2> DEFINE v == [p.clips[Len(p.clips)] EXCEPT !.trim.end = t]
             x == [p.clips EXCEPT ![Len(p.clips)] = v]
  <2>2. ASSUME Len(p.clips) \in DOMAIN p.clips PROVE v \in ClipType
    <3>1. p.clips[Len(p.clips)] \in ClipType /\ t \in Int
      BY <1>1, <2>2
    <3> QED BY <3>1 DEF ClipType, TimeRange
  <2>3. edit = [p EXCEPT !.clips = x]
    BY <2>1
  <2> HIDE DEF v
  <2>4. x \in Seq(ClipType)
    BY <1>1, <2>2, ReplacedInSequence
  <2> HIDE DEF x
  <2>5. edit = EditedTo(p, x, p.transitions, p.audio, p.mix, p.preview)
    BY <1>2, <2>3 DEF EditedTo, ProjectFields
  <2> QED BY <1>1, <2>4, <2>5, EditedIsTyped
<1>5. CASE edit = [p EXCEPT !.clips = Front(@),
                            !.transitions = IF p.version = 2 THEN Front(@) ELSE @]
  <2> DEFINE c == Front(p.clips)
             d == IF p.version = 2 THEN Front(p.transitions) ELSE p.transitions
  <2>1. c \in Seq(ClipType) /\ d \in Seq(TransitionType)
    BY <1>1, <1>3
  <2>2. edit = [p EXCEPT !.clips = c, !.transitions = d]
    BY <1>5
  <2> HIDE DEF c, d
  <2>3. edit = EditedTo(p, c, d, p.audio, p.mix, p.preview)
    BY <1>2, <2>2 DEF EditedTo, ProjectFields
  <2> QED BY <1>1, <2>1, <2>3, EditedIsTyped
<1>6. CASE p.audio # <<>> /\ \E t \in Trims : edit = [p EXCEPT !.audio[1].trim.end = t]
  <2>1. PICK t \in Trims : edit = [p EXCEPT !.audio[1].trim.end = t]
    BY <1>6
  <2> DEFINE v == [p.audio[1] EXCEPT !.trim.end = t]
             x == [p.audio EXCEPT ![1] = v]
  <2>2. ASSUME 1 \in DOMAIN p.audio PROVE v \in TrackType
    <3>1. p.audio[1] \in TrackType /\ t \in Int
      BY <1>1, <2>2
    <3> QED BY <3>1 DEF TrackType, TimeRange
  <2>3. edit = [p EXCEPT !.audio = x]
    BY <2>1
  <2> HIDE DEF v
  <2>4. x \in Seq(TrackType)
    BY <1>1, <2>2, ReplacedInSequence
  <2> HIDE DEF x
  <2>5. edit = EditedTo(p, p.clips, p.transitions, x, p.mix, p.preview)
    BY <1>2, <2>3 DEF EditedTo, ProjectFields
  <2> QED BY <1>1, <2>4, <2>5, EditedIsTyped
<1>7. CASE edit = [p EXCEPT !.audio = <<>>, !.mix = <<>>]
  <2>1. <<>> \in Seq(TrackType) /\ <<>> \in Seq(MixType)
    OBVIOUS
  <2>2. edit = EditedTo(p, p.clips, p.transitions, <<>>, <<>>, p.preview)
    BY <1>2, <1>7 DEF EditedTo, ProjectFields
  <2> QED BY <1>1, <2>1, <2>2, EditedIsTyped
<1>8. CASE edit = [p EXCEPT !.preview = [status |-> "rendered", revision |-> p.revision + 1]]
  <2> DEFINE x == [status |-> "rendered", revision |-> p.revision + 1]
  <2>1. x \in PreviewType
    BY <1>1 DEF PreviewType
  <2>2. edit = [p EXCEPT !.preview = x]
    BY <1>8
  <2> HIDE DEF x
  <2>3. edit = EditedTo(p, p.clips, p.transitions, p.audio, p.mix, x)
    BY <1>2, <2>2 DEF EditedTo, ProjectFields
  <2> QED BY <1>1, <2>1, <2>3, EditedIsTyped
<1> QED BY <1>4, <1>5, <1>6, <1>7, <1>8 DEF Edits

(* So is what is sent.                                                     *)
LEMMA SentIsTyped ==
  ASSUME NEW p \in ProjectType, NEW mode, NEW s,
         s = [p EXCEPT !.revision = @ + 1, !.policy.count = @ + Cost(mode)]
  PROVE  s \in ProjectType
<1> DEFINE r == p.revision + 1
           o == [p.policy EXCEPT !.count = @ + Cost(mode)]
<1>1. p = [y \in ProjectFields |-> p[y]]
  BY FieldsOfProject
<1>2. r \in Nat
  BY PartsTyped
<1>3. o \in [limit : Int, count : Int]
  <2> PICK x : x = p.policy
    OBVIOUS
  <2> PICK k : k = Cost(mode)
    OBVIOUS
  <2>1. x \in [limit : Int, count : Int] /\ k \in Int
    BY PartsTyped DEF Cost
  <2>2. o = [x EXCEPT !.count = x.count + k]
    OBVIOUS
  <2> HIDE DEF o
  <2> QED BY <2>1, <2>2
<1>4. s = [p EXCEPT !.revision = r, !.policy = o]
  OBVIOUS
<1> HIDE DEF r, o
<1>5. s = ChangedTo(p, r, o, p.clips, p.profile, p.transitions, p.mix)
  BY <1>1, <1>4 DEF ChangedTo, ProjectFields
<1>6. /\ p.clips \in Seq(ClipType) /\ p.profile \in Seq(SnapshotType)
      /\ p.transitions \in Seq(TransitionType) /\ p.mix \in Seq(MixType)
  BY PartsTyped
<1> QED BY <1>2, <1>3, <1>5, <1>6, ChangedFields

(* A sound project is in no dead end: it migrates unless its legacy assets *)
(* clash, and takes every profile but for the reasons NoDeadEnd names.     *)
LEMMA SoundIsNoDeadEnd ==
  ASSUME document \in ProjectType, StoredIsSound, \A x \in Profiles \cup {Clean} : SnapshotOK(x)
  PROVE  NoDeadEnd
<1>1. Clean \in SnapshotType
  BY DEF SnapshotOK
<1>2. ValidProject(document) /\ BaseOK(document)
  BY DEF StoredIsSound, ValidProject
<1>3. ValidProject(Migrated(document)) <=> ~CannotMigrate(document)
  BY <1>1, <1>2, Migrates
<1>4. ASSUME NEW profile \in Profiles, NEW mode \in {"manual", "automated"}
      PROVE  CanApply(document, profile, mode) <=>
               /\ document.version = 1 => ~CannotMigrate(document)
               /\ ~HasGifAudio(document, profile) /\ ~TooShortFor(document, profile)
               /\ mode = "automated" => document.policy.count < document.policy.limit
  BY <1>1, <1>2, Applies
<1> QED BY <1>3, <1>4 DEF NoDeadEnd

(* Before the project is created nothing is counted; from then on what is  *)
(* stored is a typed project, and sound.                                   *)
DocumentInvariant ==
  /\ automatic \in Nat
  /\ document = NoProject => automatic = 0
  /\ document # NoProject =>
       document \in ProjectType /\ opening \in ProjectType /\ StoredIsSound

(* A replacement of a sound project, or of its second version, is sound.   *)
LEMMA ReplacedIsSound ==
  ASSUME document \in ProjectType, opening \in ProjectType, automatic \in Nat, StoredIsSound,
         NEW p \in ProjectType, SameBase(document, p), NEW n \in ProjectType,
         NEW mode \in {"manual", "automated"}, MayRevise(p, n, mode),
         document' = Revised(p, n), automatic' = automatic + Cost(mode), opening' = opening
  PROVE  document' \in ProjectType /\ automatic' \in Nat /\ StoredIsSound'
<1>1. /\ document' \in ProjectType /\ ValidProject(document') /\ document'.sources = p.sources
      /\ document'.policy = [p.policy EXCEPT !.count = @ + Cost(mode)]
  BY Replaced
<1>2. p.policy = document.policy /\ p.sources = document.sources
  BY DEF SameBase
<1>3. document.policy \in [limit : Int, count : Int] /\ opening.policy \in [limit : Int, count : Int]
  BY PartsTyped
<1>4. Cost(mode) \in Nat
  BY DEF Cost
<1> PICK k \in Nat : k = Cost(mode)
  BY <1>4
<1>5. document'.policy.count = document.policy.count + k
  BY <1>1, <1>2, <1>3
<1>6. document.policy.count = opening.policy.count + automatic
  BY DEF StoredIsSound
<1>7. document.policy.count \in Int /\ opening.policy.count \in Int
  BY <1>3
<1>8. document'.policy.count = opening'.policy.count + automatic'
  BY <1>5, <1>6, <1>7
<1>9. automatic' \in Nat
  BY <1>4
<1> QED BY <1>1, <1>2, <1>8, <1>9 DEF StoredIsSound

(* createRecordingProject and its revisions store what is typed and sound. *)
LEMMA DocumentStep ==
  ASSUME DocumentInvariant, [DocumentNext]_documentVars,
         Openings \subseteq ProjectType, Trims \subseteq Nat, NoProject \notin ProjectType,
         \A x \in Profiles \cup {Clean} : SnapshotOK(x)
  PROVE  DocumentInvariant'
<1>1. Clean \in SnapshotType
  BY DEF SnapshotOK
<1>2. CASE CreateProject
  <2>1. /\ opening' \in ProjectType /\ document' = opening' /\ ValidProject(document')
        /\ automatic = 0 /\ automatic' = automatic
    BY <1>2 DEF CreateProject, DocumentInvariant
  <2>2. opening'.policy \in [limit : Int, count : Int]
    BY <2>1, PartsTyped
  <2>3. document'.policy.count = opening'.policy.count + automatic'
    BY <2>1, <2>2
  <2>4. StoredIsSound'
    BY <2>1, <2>3 DEF StoredIsSound
  <2> QED BY <2>1, <2>4 DEF DocumentInvariant
<1>3. ASSUME document \in ProjectType, automatic' \in Nat, document' \in ProjectType,
             opening' \in ProjectType, StoredIsSound'
      PROVE  DocumentInvariant'
  BY <1>3 DEF DocumentInvariant
<1>4. CASE ApplyProfile
  <2>1. document \in ProjectType /\ opening \in ProjectType /\ StoredIsSound /\ automatic \in Nat
    BY <1>4 DEF ApplyProfile, DocumentInvariant
  <2>2. PICK profile \in Profiles, mode \in {"manual", "automated"} :
          /\ CanApply(document, profile, mode)
          /\ document' = Revised(AsVersion2(document),
                                 Profiled(AsVersion2(document), profile, mode))
          /\ automatic' = automatic + Cost(mode)
    BY <1>4 DEF ApplyProfile
  <2>3. opening' = opening
    BY <1>4 DEF ApplyProfile
  <2> PICK p : p = AsVersion2(document)
    OBVIOUS
  <2> PICK n : n = Profiled(p, profile, mode)
    OBVIOUS
  <2>4. p \in ProjectType /\ SameBase(document, p)
    BY <1>1, <2>1, SecondVersion
  <2>5. n \in ProjectType
    BY <2>4, ProfiledFields DEF TakesProfile
  <2>6. MayRevise(p, n, mode)
    BY <2>2 DEF CanApply
  <2>7. document' \in ProjectType /\ automatic' \in Nat /\ StoredIsSound'
    BY <2>1, <2>2, <2>3, <2>4, <2>5, <2>6, ReplacedIsSound
  <2> QED BY <1>3, <2>1, <2>3, <2>7
<1>5. CASE Revise
  <2>1. document \in ProjectType /\ opening \in ProjectType /\ StoredIsSound /\ automatic \in Nat
    BY <1>5 DEF Revise, DocumentInvariant
  <2>2. PICK edit \in Edits(document), mode \in {"manual", "automated"} :
          LET sent == [edit EXCEPT !.revision = @ + 1, !.policy.count = @ + Cost(mode)]
          IN  /\ MayRevise(document, AsVersion2(sent), mode)
              /\ document' = Revised(document, AsVersion2(sent))
              /\ automatic' = automatic + Cost(mode)
    BY <1>5 DEF Revise
  <2>3. opening' = opening
    BY <1>5 DEF Revise
  <2> PICK sent : sent = [edit EXCEPT !.revision = @ + 1, !.policy.count = @ + Cost(mode)]
    OBVIOUS
  <2> PICK n : n = AsVersion2(sent)
    OBVIOUS
  <2>4. edit \in ProjectType
    BY <2>1, EditIsTyped
  <2>5. sent \in ProjectType
    BY <2>4, SentIsTyped
  <2>6. n \in ProjectType
    BY <1>1, <2>5, SecondVersion
  <2>7. SameBase(document, document)
    BY DEF SameBase
  <2>8. /\ MayRevise(document, n, mode) /\ document' = Revised(document, n)
        /\ automatic' = automatic + Cost(mode)
    BY <2>2
  <2>9. document' \in ProjectType /\ automatic' \in Nat /\ StoredIsSound'
    BY <2>1, <2>3, <2>6, <2>7, <2>8, ReplacedIsSound
  <2> QED BY <1>3, <2>1, <2>3, <2>9
<1>6. CASE UNCHANGED documentVars
  BY <1>6 DEF documentVars, DocumentInvariant, StoredIsSound
<1> QED BY <1>2, <1>4, <1>5, <1>6 DEF DocumentNext

(* What recording-project.ts and recording-profile.ts store is a valid     *)
(* project of the captures it began with, whose automated revisions are    *)
(* counted; migrateRecordingProject fails on it only when its assets clash *)
(* or are too long, and applyRecordingProfile only for GIF audio, fades    *)
(* longer than a trim or a spent budget of automated revisions.            *)
THEOREM DocumentsStaySound == DocumentSpec => []DocumentSound
<1>1. DocumentInit => DocumentInvariant
  BY DocumentConstants DEF DocumentInit, DocumentInvariant
<1>2. DocumentInvariant /\ [DocumentNext]_documentVars => DocumentInvariant'
  BY DocumentStep, DocumentConstants
<1>3. DocumentInvariant => DocumentSound
  BY SoundIsNoDeadEnd, DocumentConstants DEF DocumentInvariant, DocumentSound
<1> QED BY <1>1, <1>2, <1>3, PTL DEF DocumentSpec
=============================================================================
