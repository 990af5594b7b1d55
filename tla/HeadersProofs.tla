--------------------------- MODULE HeadersProofs ---------------------------
(***************************************************************************)
(* Proofs about the headers for every tree of counts and every value of    *)
(* the parameters: the median of the timestamps never goes back along a    *)
(* branch, and the target of the Bitcoin Cash rule stays within its        *)
(* factors.                                                                *)
(***************************************************************************)
EXTENDS Headers, FiniteSetTheorems, WellFoundedInduction, TLAPS

-----------------------------------------------------------------------------
(* Numbers *)

(* A set of numbers has a least one. *)
LEMMA LeastIn ==
    ASSUME NEW T \in SUBSET Nat, T # {}
    PROVE  \E i \in T : \A j \in T : i <= j
<1>1. PICK i \in T : \A j \in T : ~ (<<j, i>> \in OpToRel(<, Nat))
  BY NatLessThanWellFounded, WFMin
<1>2. \A j \in T : ~ (j < i)
  BY <1>1 DEF OpToRel
<1> QED
  BY <1>2

(* What holds at 1 and passes from each number to the next holds up to n.   *)
LEMMA UpTo ==
    ASSUME NEW n \in Nat \ {0}, NEW T \in SUBSET (1 .. n), 1 \in T,
           \A i \in 1 .. n - 1 : i \in T => i + 1 \in T
    PROVE  T = 1 .. n
<1> SUFFICES ASSUME (1 .. n) \ T # {} PROVE FALSE
  OBVIOUS
<1> DEFINE U == (1 .. n) \ T
<1>1. PICK i \in U : \A j \in U : i <= j
  <2>1. U \in SUBSET Nat /\ U # {}
    OBVIOUS
  <2> HIDE DEF U
  <2> QED
    BY <2>1, LeastIn
<1>2. i \in 2 .. n
  BY <1>1
<1>3. i - 1 \in 1 .. n - 1 /\ ~(i <= i - 1) /\ (i - 1) + 1 = i
  BY <1>2
<1>4. i - 1 \in T
  BY <1>1, <1>3
<1> QED
  BY <1>1, <1>3, <1>4

(* Integer division, by its bounds. *)
LEMMA DivFacts ==
    ASSUME NEW a \in Int, NEW d \in Nat \ {0}
    PROVE  a \div d \in Int /\ d * (a \div d) <= a /\ a < d * (a \div d) + d
  OBVIOUS

(* A quotient is the largest number that fits.                              *)
LEMMA DivLargest ==
    ASSUME NEW a \in Int, NEW d \in Nat \ {0}, NEW q \in Int
    PROVE  /\ d * q <= a => q <= a \div d
           /\ a < d * (q + 1) => a \div d <= q
<1> DEFINE r == a \div d
<1>1. r \in Int /\ d * r <= a /\ a < d * r + d
  BY DivFacts
<1> HIDE DEF r
<1>2. ASSUME d * q <= a, q > r PROVE FALSE
  <2>1. d * q >= d * (r + 1) /\ d * (r + 1) = d * r + d
    BY <1>1, <1>2
  <2> QED
    BY <1>1, <1>2, <2>1
<1>3. ASSUME a < d * (q + 1), r > q PROVE FALSE
  <2>1. d * r >= d * (q + 1)
    BY <1>1, <1>3
  <2> QED
    BY <1>1, <1>3, <2>1
<1> QED
  BY <1>1, <1>2, <1>3 DEF r

(* A multiple of d other than 0 is not below it.                            *)
LEMMA MultipleIsAtLeast ==
    ASSUME NEW a \in Nat \ {0}, NEW d \in Nat \ {0}, a % d = 0
    PROVE  a >= d
  OBVIOUS

-----------------------------------------------------------------------------
(* The median *)

(* The places computeMedianTimestamp looks at, how many they are, and the   *)
(* times that more than half of them do not exceed.                         *)
WindowSize(b) == Least(Len(b), NUM_COUNTS_FOR_MEDIAN_TMESTAMP)

Window(b) == Len(b) - WindowSize(b) + 1 .. Len(b)

AboveHalf(b, t) == Cardinality({i \in Window(b) : b[i].time <= t}) > WindowSize(b) \div 2

(* A branch of headers with times. *)
IsTimed(b) == /\ Len(b) \in Nat \ {0}
              /\ \A i \in 1 .. Len(b) : b[i].time \in Nat

(* The places are some of the branch, as many as the size says, the last    *)
(* one among them.                                                          *)
LEMMA WindowFacts ==
    ASSUME NEW b, IsTimed(b)
    PROVE  /\ WindowSize(b) \in Nat \ {0}
           /\ WindowSize(b) \div 2 \in Nat /\ WindowSize(b) \div 2 < WindowSize(b)
           /\ Window(b) \subseteq 1 .. Len(b) /\ Len(b) \in Window(b)
           /\ IsFiniteSet(Window(b)) /\ Cardinality(Window(b)) = WindowSize(b)
           /\ \A i \in Window(b) : b[i].time \in Nat
<1> DEFINE n == WindowSize(b)
<1>1. /\ Len(b) \in Nat \ {0} /\ n \in Nat \ {0} /\ n <= Len(b)
  BY HeadersAssumption DEF IsTimed, WindowSize, Least
<1> HIDE DEF n
<1>2. /\ n \div 2 \in Nat /\ n \div 2 < n
  BY <1>1
<1>3. Window(b) = Len(b) - n + 1 .. Len(b)
  BY DEF Window, n
<1>4. /\ Window(b) \subseteq 1 .. Len(b) /\ Len(b) \in Window(b)
  BY <1>1, <1>3
<1>5. IsFiniteSet(Window(b)) /\ Cardinality(Window(b)) = n
  <2>1. /\ Len(b) - n + 1 \in Int /\ Len(b) \in Int
        /\ ~(Len(b) - n + 1 > Len(b)) /\ Len(b) - (Len(b) - n + 1) + 1 = n
    BY <1>1
  <2> QED
    BY <1>3, <2>1, FS_Interval
<1> QED
  BY <1>1, <1>2, <1>4, <1>5 DEF n, IsTimed

(* The median is the least such time: there is one.                         *)
LEMMA MedianFacts ==
    ASSUME NEW b, IsTimed(b)
    PROVE  LET m == computeMedianTimestamp(b)
           IN  /\ m \in {b[i].time : i \in Window(b)}
               /\ m \in Nat
               /\ AboveHalf(b, m)
               /\ \A i \in Window(b) : AboveHalf(b, b[i].time) => m <= b[i].time
<1> DEFINE times == {b[i].time : i \in Window(b)}
           IsMedian(t) == /\ AboveHalf(b, t)
                          /\ \A i \in Window(b) : AboveHalf(b, b[i].time) => t <= b[i].time
           enough == {t \in times : AboveHalf(b, t)}
<1>1. times \in SUBSET Nat /\ times # {}
  BY WindowFacts
<1>2. enough # {}
  <2> DEFINE Covers(l, n) == \A i \in Window(b) : i > Len(b) - n => b[i].time <= b[l].time
             T == {n \in 1 .. Len(b) : \E l \in Window(b) : Covers(l, n)}
  <2>1. /\ Len(b) \in Nat \ {0} /\ Window(b) \subseteq 1 .. Len(b) /\ Len(b) \in Window(b)
        /\ \A i \in Window(b) : b[i].time \in Nat
    BY WindowFacts DEF IsTimed
  <2>2. 1 \in T
    <3>1. Covers(Len(b), 1)
      BY <2>1
    <3> HIDE DEF Covers
    <3> QED
      BY <2>1, <3>1
  <2>3. ASSUME NEW n \in 1 .. Len(b) - 1, n \in T PROVE n + 1 \in T
    <3>1. PICK l \in Window(b) : Covers(l, n)
      BY <2>3
    <3>2. n + 1 \in 1 .. Len(b) /\ Len(b) - n \in 1 .. Len(b)
      BY <2>1
    <3>3. ASSUME NEW i \in Window(b), i > Len(b) - (n + 1)
          PROVE  i = Len(b) - n \/ i > Len(b) - n
      BY <2>1, <3>3
    <3>4. CASE Len(b) - n \in Window(b) /\ b[Len(b) - n].time > b[l].time
      <4>1. ASSUME NEW i \in Window(b), i > Len(b) - (n + 1)
            PROVE  b[i].time <= b[Len(b) - n].time
        <5>1. /\ b[i].time \in Nat /\ b[l].time \in Nat /\ b[Len(b) - n].time \in Nat
              /\ b[Len(b) - n].time > b[l].time
          BY <2>1, <3>1, <3>4
        <5>2. CASE i = Len(b) - n
          BY <5>1, <5>2
        <5>3. CASE i > Len(b) - n
          <6>1. b[i].time <= b[l].time
            BY <3>1, <5>3
          <6> QED
            BY <5>1, <6>1
        <5> QED
          BY <3>3, <4>1, <5>2, <5>3
      <4>2. Covers(Len(b) - n, n + 1)
        BY <4>1
      <4> HIDE DEF Covers
      <4> QED
        BY <3>2, <3>4, <4>2
    <3>5. CASE ~(Len(b) - n \in Window(b) /\ b[Len(b) - n].time > b[l].time)
      <4>1. Covers(l, n + 1)
        BY <2>1, <3>1, <3>3, <3>5
      <4> HIDE DEF Covers
      <4> QED
        BY <3>1, <3>2, <4>1
    <3> QED
      BY <3>4, <3>5
  <2>4. Len(b) \in T
    <3>1. T \in SUBSET (1 .. Len(b))
      OBVIOUS
    <3> HIDE DEF T
    <3>2. T = 1 .. Len(b)
      BY <2>1, <2>2, <2>3, <3>1, UpTo
    <3> QED
      BY <2>1, <3>2
  <2>5. PICK l \in Window(b) : \A i \in Window(b) : b[i].time <= b[l].time
    <3>1. \A i \in Window(b) : i > Len(b) - Len(b)
      BY <2>1
    <3> QED
      BY <2>4, <3>1
  <2>6. {i \in Window(b) : b[i].time <= b[l].time} = Window(b)
    BY <2>5
  <2>7. AboveHalf(b, b[l].time)
    BY <2>6, WindowFacts DEF AboveHalf
  <2> QED
    BY <2>7
<1>3. PICK m \in enough : \A t \in enough : m <= t
  <2>1. enough \in SUBSET Nat
    BY <1>1
  <2> HIDE DEF enough
  <2> QED
    BY <1>2, <2>1, LeastIn
<1>4. m \in times /\ IsMedian(m)
  BY <1>3
<1>5. computeMedianTimestamp(b) = CHOOSE t \in times : IsMedian(t)
  BY DEF computeMedianTimestamp, Window, WindowSize, AboveHalf
<1> HIDE DEF IsMedian, times
<1>6. /\ computeMedianTimestamp(b) \in times
      /\ IsMedian(computeMedianTimestamp(b))
  BY <1>4, <1>5
<1> QED
  BY <1>1, <1>6 DEF IsMedian, times

(* A header whose time is past the median of the ones before it: the median *)
(* does not go back, whether the window grows or moves.                     *)
LEMMA MedianOfNext ==
    ASSUME NEW S, NEW b \in Seq(S), IsTimed(b), NEW e \in S,
           e.time \in Nat, e.time > computeMedianTimestamp(b)
    PROVE  /\ IsTimed(Append(b, e))
           /\ computeMedianTimestamp(b) <= computeMedianTimestamp(Append(b, e))
<1> DEFINE c == Append(b, e)
           m == computeMedianTimestamp(b)
           next == computeMedianTimestamp(c)
           before(d, t) == {i \in Window(d) : d[i].time <= t}
<1>1. /\ Len(b) \in Nat \ {0} /\ Len(c) = Len(b) + 1
      /\ \A i \in 1 .. Len(b) : c[i] = b[i]
      /\ c[Len(c)] = e
  BY DEF IsTimed
<1> HIDE DEF c
<1>2. IsTimed(c)
  <2>1. \A i \in 1 .. Len(c) : i \in 1 .. Len(b) \/ i = Len(c)
    BY <1>1
  <2> QED
    BY <1>1, <2>1 DEF IsTimed
<1>3. /\ m \in Nat /\ next \in Nat /\ AboveHalf(c, next)
      /\ next \in {c[i].time : i \in Window(c)}
      /\ \A i \in Window(b) : AboveHalf(b, b[i].time) => m <= b[i].time
  BY <1>2, MedianFacts
<1> HIDE DEF m, next
<1>4. ASSUME next >= e.time PROVE m <= next
  <2>1. e.time > m
    BY DEF m
  <2> QED
    BY <1>3, <1>4, <2>1
<1>5. ASSUME next < e.time PROVE m <= next
  <2>1. /\ WindowSize(c) \in Nat /\ WindowSize(b) \in Nat
        /\ WindowSize(b) <= WindowSize(c) /\ WindowSize(c) <= WindowSize(b) + 1
    BY <1>1, HeadersAssumption DEF WindowSize, Least
  <2>2. ASSUME NEW i \in Window(c), c[i].time <= next
        PROVE  i \in Window(b) /\ c[i] = b[i]
    <3>1. i # Len(c) /\ i \in 1 .. Len(c)
      BY <1>1, <1>2, <1>3, <1>5, <2>2, WindowFacts
    <3>2. i >= Len(c) - WindowSize(c) + 1 /\ i <= Len(b) /\ i >= 1 /\ i \in Int
      BY <1>1, <2>1, <3>1 DEF Window
    <3>3. i >= Len(b) - WindowSize(b) + 1
      BY <1>1, <2>1, <3>2
    <3> QED
      BY <1>1, <3>2, <3>3, <2>1 DEF Window
  <2>3. before(c, next) \subseteq before(b, next)
    BY <2>2
  <2>4. IsFiniteSet(before(b, next))
    BY WindowFacts, FS_Subset
  <2> HIDE DEF before
  <2>5. /\ Cardinality(before(c, next)) <= Cardinality(before(b, next))
        /\ Cardinality(before(c, next)) \in Nat /\ Cardinality(before(b, next)) \in Nat
    BY <2>3, <2>4, FS_Subset, FS_CardinalityType
  <2>6. WindowSize(b) \div 2 <= WindowSize(c) \div 2
        /\ WindowSize(b) \div 2 \in Nat /\ WindowSize(c) \div 2 \in Nat
    BY <2>1
  <2>7. Cardinality(before(c, next)) > WindowSize(c) \div 2
    BY <1>3 DEF AboveHalf, before
  <2>8. AboveHalf(b, next)
    BY <2>5, <2>6, <2>7 DEF AboveHalf, before
  <2>9. PICK i \in Window(c) : next = c[i].time
    BY <1>3
  <2>10. i \in Window(b) /\ next = b[i].time
    BY <1>3, <2>2, <2>9
  <2> QED
    BY <1>3, <2>8, <2>10
<1> QED
  BY <1>2, <1>3, <1>4, <1>5 DEF c, m, next

-----------------------------------------------------------------------------
(* The branches *)

Header == [time : Nat, target : Nat, work : Nat]

Branch == {b \in Seq(Header) : Len(b) > 0}

(* The branches are sequences of headers, and main is one of them.          *)
BranchesTyped ==
    /\ branches \subseteq Branch
    /\ main \in Stored
    /\ now \in Int

(* Branches are timed, and their ends are headers. *)
LEMMA BranchFacts ==
    ASSUME NEW b \in Branch
    PROVE  /\ IsTimed(b) /\ Len(b) \in Nat \ {0}
           /\ \A i \in 1 .. Len(b) : b[i] \in Header
           /\ Top(b) \in Header /\ Top(b) = b[Len(b)]
<1>1. b \in Seq(Header) /\ Len(b) > 0 /\ Len(b) \in Nat \ {0}
  BY DEF Branch
<1>2. \A i \in 1 .. Len(b) : b[i] \in Header
  BY <1>1
<1>3. Len(b) \in 1 .. Len(b)
  BY <1>1
<1> QED
  BY <1>1, <1>2, <1>3 DEF Top, IsTimed, Header

(* The ancestors of a branch: its starts.                                   *)
LEMMA AncestorFacts ==
    ASSUME NEW b \in Branch, NEW n \in 1 .. Len(b)
    PROVE  /\ SubSeq(b, 1, n) \in Branch /\ Len(SubSeq(b, 1, n)) = n
           /\ \A i \in 1 .. n : SubSeq(b, 1, n)[i] = b[i]
           /\ \A i \in 1 .. n : SubSeq(SubSeq(b, 1, n), 1, i) = SubSeq(b, 1, i)
           /\ SubSeq(b, 1, Len(b)) = b
<1>1. b \in Seq(Header) /\ Len(b) \in Nat \ {0} /\ n \in Nat
  BY BranchFacts DEF Branch
<1>2. /\ SubSeq(b, 1, n) \in Seq(Header) /\ Len(SubSeq(b, 1, n)) = n
      /\ \A i \in 1 .. n : SubSeq(b, 1, n)[i] = b[i]
  BY <1>1
<1>3. ASSUME NEW i \in 1 .. n
      PROVE  SubSeq(SubSeq(b, 1, n), 1, i) = SubSeq(b, 1, i)
  <2>1. i \in Nat /\ i \in 1 .. Len(b) /\ i \in 1 .. Len(SubSeq(b, 1, n))
    BY <1>1, <1>2
  <2> QED
    BY <1>1, <1>2, <2>1
<1>4. SubSeq(b, 1, Len(b)) = b
  BY <1>1
<1> QED
  BY <1>1, <1>2, <1>3, <1>4 DEF Branch

(* A branch with one more header: its ancestors are itself and those of the *)
(* branch.                                                                  *)
LEMMA NextBranch ==
    ASSUME NEW b \in Branch, NEW e \in Header
    PROVE  /\ Append(b, e) \in Branch
           /\ Len(Append(b, e)) = Len(b) + 1
           /\ Top(Append(b, e)) = e
           /\ \A i \in 1 .. Len(b) : Append(b, e)[i] = b[i]
           /\ Ancestors(Append(b, e)) = Ancestors(b) \cup {Append(b, e)}
<1> DEFINE c == Append(b, e)
<1>1. b \in Seq(Header) /\ Len(b) \in Nat \ {0}
  BY BranchFacts DEF Branch
<1>2. /\ c \in Seq(Header) /\ Len(c) = Len(b) + 1 /\ c[Len(b) + 1] = e
      /\ \A i \in 1 .. Len(b) : c[i] = b[i]
  BY <1>1
<1>3. ASSUME NEW n \in 1 .. Len(b)
      PROVE  SubSeq(c, 1, n) = SubSeq(b, 1, n)
  BY <1>1, <1>2
<1>4. c \in Branch
  BY <1>1, <1>2 DEF Branch
<1>5. Len(c) \in 1 .. Len(c) /\ SubSeq(c, 1, Len(c)) = c
  <2> HIDE DEF c
  <2>1. Len(c) \in 1 .. Len(c)
    BY <1>1, <1>2
  <2> QED
    BY <1>4, <2>1, AncestorFacts
<1> HIDE DEF c
<1>6. Ancestors(c) = Ancestors(b) \cup {c}
  <2>1. ASSUME NEW n \in 1 .. Len(c) PROVE n \in 1 .. Len(b) \/ n = Len(c)
    BY <1>1, <1>2
  <2>2. \A n \in 1 .. Len(b) : n \in 1 .. Len(c)
    BY <1>1, <1>2
  <2> QED
    BY <1>3, <1>5, <2>1, <2>2 DEF Ancestors
<1> QED
  BY <1>2, <1>4, <1>6 DEF c, Top

-----------------------------------------------------------------------------
(* The targets *)

(* The work of a count is a number, and no less for a lower target.         *)
LEMMA CountWork ==
    ASSUME NEW t \in Int
    PROVE  /\ computeCountWork(t) \in Nat
           /\ \A u \in Int : 0 < t /\ t <= u => computeCountWork(u) <= computeCountWork(t)
<1>1. MAX_INT \in Nat
  BY HeadersAssumption
<1>2. ASSUME NEW u \in Int, u > 0
      PROVE  /\ computeCountWork(u) = MAX_INT \div (u + 1) /\ computeCountWork(u) \in Nat
             /\ u + 1 \in Nat \ {0}
  <2>1. u + 1 \in Nat \ {0} /\ computeCountWork(u) = MAX_INT \div (u + 1)
    BY <1>2 DEF computeCountWork
  <2>2. (u + 1) * 0 <= MAX_INT
    BY <1>1, <2>1
  <2>3. 0 <= MAX_INT \div (u + 1) /\ MAX_INT \div (u + 1) \in Int
    BY <1>1, <2>1, <2>2, DivLargest, DivFacts
  <2> QED
    BY <2>1, <2>3
<1>3. computeCountWork(t) \in Nat
  BY <1>2 DEF computeCountWork
<1>4. ASSUME NEW u \in Int, 0 < t, t <= u PROVE computeCountWork(u) <= computeCountWork(t)
  <2> DEFINE q == MAX_INT \div (u + 1)
  <2>1. /\ q \in Nat /\ computeCountWork(u) = q /\ u + 1 \in Nat \ {0} /\ t + 1 \in Nat \ {0}
        /\ computeCountWork(t) = MAX_INT \div (t + 1)
    <3>1. t > 0 /\ u > 0 /\ t + 1 \in Nat \ {0}
      BY <1>4
    <3> QED
      BY <1>2, <3>1
  <2>2. (u + 1) * q <= MAX_INT
    BY <1>1, <2>1, DivFacts
  <2> HIDE DEF q
  <2>3. (t + 1) * q <= (u + 1) * q
    BY <1>4, <2>1
  <2>4. (t + 1) * q <= MAX_INT
    BY <1>1, <2>1, <2>2, <2>3
  <2>5. q <= MAX_INT \div (t + 1)
    <3>1. MAX_INT \in Int /\ q \in Int /\ t + 1 \in Nat \ {0}
      BY <1>1, <2>1
    <3> QED
      BY <2>4, <3>1, DivLargest
  <2> QED
    BY <2>1, <2>5
<1> QED
  BY <1>3, <1>4

(* The bounds of the time a window took.                                    *)
LEMMA TimespanFacts ==
    ASSUME NEW prev \in Header, NEW first \in Header
    PROVE  LET half == RETARGET_SMA_WINDOW \div 2
           IN  /\ half \in Nat \ {0} /\ TARGET_SPACING \in Nat \ {0}
               /\ RETARGET_SMA_WINDOW = 2 * half
               /\ half * TARGET_SPACING \in Nat \ {0}
               /\ Timespan(prev, first) \in Nat \ {0}
               /\ half * TARGET_SPACING <= Timespan(prev, first)
               /\ Timespan(prev, first) <= 2 * RETARGET_SMA_WINDOW * TARGET_SPACING
<1> DEFINE half == RETARGET_SMA_WINDOW \div 2
           low == half * TARGET_SPACING
           high == 2 * RETARGET_SMA_WINDOW * TARGET_SPACING
<1>1. /\ half \in Nat \ {0} /\ TARGET_SPACING \in Nat \ {0} /\ RETARGET_SMA_WINDOW = 2 * half
      /\ prev.time \in Nat /\ first.time \in Nat
  BY HeadersAssumption, WindowAssumption DEF Header
<1> HIDE DEF half
<1>2. low \in Nat \ {0} /\ high = 4 * low
  BY <1>1
<1>3. Timespan(prev, first) = Clamp(prev.time - first.time, low, high)
  BY DEF Timespan, half
<1> HIDE DEF low, high
<1>4. /\ Timespan(prev, first) \in Nat \ {0}
      /\ low <= Timespan(prev, first) /\ Timespan(prev, first) <= high
  BY <1>1, <1>2, <1>3 DEF Clamp, Least
<1> QED
  BY <1>1, <1>2, <1>4 DEF half, low, high

(* Where the program does not end, the target of the next count is a number *)
(* of the width of an ID.                                                   *)
LEMMA TargetType ==
    ASSUME NEW b \in Branch, main \in Branch, ~Panics(b)
    PROVE  computeTarget(b) \in Nat
<1>1. /\ INITIAL_TARGET \in Nat \ {0} /\ MAX_INT \in Nat
      /\ RETARGET_INTERVAL \in Nat \ {0} /\ TARGET_SPACING \in Nat \ {0}
      /\ BITCOIN_CASH_RETARGET_ALGORITHM_HEIGHT \in Nat
      /\ BITCOIN_CASH_RETARGET_ALGORITHM_HEIGHT >= RETARGET_SMA_WINDOW
      /\ RETARGET_SMA_WINDOW \in Nat
      /\ RETARGET_TIME \in Nat \ {0}
  BY HeadersAssumption DEF RETARGET_TIME
<1>2. /\ Len(b) \in Nat \ {0} /\ Top(b) \in Header
      /\ \A i \in 1 .. Len(b) : b[i] \in Header
      /\ Len(main) \in Nat \ {0}
      /\ \A i \in 1 .. Len(main) : main[i] \in Header
  BY BranchFacts
<1>3. CASE Height(b) >= BITCOIN_CASH_RETARGET_ALGORITHM_HEIGHT
  <2> DEFINE h == Height(b) - RETARGET_SMA_WINDOW
             first == HeaderAt(main, h)
             units == (Top(b).work - first.work) * TARGET_SPACING
             span == Timespan(Top(b), first)
             work == WorkExpected(b)
  <2>1. ~(h > Height(main)) /\ work # 0
    BY <1>3 DEF Panics
  <2>2. h + 1 \in 1 .. Len(main)
    BY <1>1, <1>2, <1>3, <2>1 DEF Height
  <2>3. first \in Header
    BY <1>2, <2>2 DEF HeaderAt
  <2>4. work = units \div span
    BY DEF WorkExpected
  <2> HIDE DEF first, work
  <2>5. units \in Int /\ span \in Nat \ {0}
    <3>1. first.work \in Nat /\ Top(b).work \in Nat
      BY <1>2, <2>3 DEF Header
    <3>2. span \in Nat \ {0} /\ TARGET_SPACING \in Nat
      BY <1>2, <2>3, TimespanFacts
    <3>3. units \in Int
      BY <3>1, <3>2
    <3> QED
      BY <3>2, <3>3
  <2> HIDE DEF units, span
  <2>6. work \in Int
    BY <2>4, <2>5, DivFacts
  <2>7. computeTarget(b) = SetBigInt(Least(Quotient(work) - 1, INITIAL_TARGET))
    BY <1>3 DEF computeTarget, computeTargetBitcoinCash, work
  <2>8. Quotient(work) \in Int
    <3>1. CASE work > 0
      <4>1. work \in Nat \ {0}
        BY <2>6, <3>1
      <4> QED
        BY <1>1, <3>1, <4>1, DivFacts DEF Quotient
    <3>2. CASE ~(work > 0)
      <4>1. -work \in Nat \ {0}
        BY <2>1, <2>6, <3>2
      <4>2. MAX_INT \div (-work) \in Int
        BY <1>1, <4>1, DivFacts
      <4> QED
        BY <3>2, <4>2 DEF Quotient
    <3> QED
      BY <3>1, <3>2
  <2>9. Least(Quotient(work) - 1, INITIAL_TARGET) \in Int
    BY <1>1, <2>8 DEF Least
  <2> QED
    BY <2>7, <2>9 DEF SetBigInt
<1>4. CASE ~(Height(b) >= BITCOIN_CASH_RETARGET_ALGORITHM_HEIGHT)
  <2> DEFINE back == IF Len(b) # RETARGET_INTERVAL THEN RETARGET_INTERVAL
                     ELSE RETARGET_INTERVAL - 1
             quarter == RETARGET_TIME \div 4
             span == Clamp(Top(b).time - b[Len(b) - back].time, quarter, RETARGET_TIME * 4)
             product == Top(b).target * span
  <2>1. computeTarget(b) = computeTargetBitcoin(b)
    BY <1>4 DEF computeTarget
  <2>2. CASE Len(b) % RETARGET_INTERVAL # 0
    BY <1>2, <2>1, <2>2 DEF computeTargetBitcoin, Header
  <2>3. CASE Len(b) % RETARGET_INTERVAL = 0
    <3>1. Len(b) >= RETARGET_INTERVAL
      BY <1>1, <1>2, <2>3, MultipleIsAtLeast
    <3>2. Len(b) - back \in 1 .. Len(b)
      BY <1>1, <1>2, <3>1
    <3>3. Top(b).time \in Nat /\ b[Len(b) - back].time \in Nat /\ Top(b).target \in Nat
      BY <1>2, <3>2 DEF Header
    <3>4. quarter \in Nat
      BY <1>1
    <3> HIDE DEF back
    <3>5. computeTarget(b) = Least(product \div RETARGET_TIME, INITIAL_TARGET)
      BY <2>1, <2>3 DEF computeTargetBitcoin, back
    <3> HIDE DEF quarter
    <3>6. span \in Nat
      BY <1>1, <3>3, <3>4 DEF Clamp, Least
    <3> HIDE DEF span
    <3>7. product \in Nat
      BY <3>3, <3>6
    <3> HIDE DEF product
    <3>8. product \div RETARGET_TIME \in Int /\ 0 <= product \div RETARGET_TIME
      <4>1. RETARGET_TIME * 0 <= product
        BY <1>1, <3>7
      <4> QED
        BY <1>1, <3>7, <4>1, DivFacts, DivLargest
    <3> QED
      BY <1>1, <3>5, <3>8 DEF Least
  <2> QED
    BY <2>2, <2>3
<1> QED
  BY <1>3, <1>4

-----------------------------------------------------------------------------
(* The invariant *)

(* The work of a header is the sum up to it.                                *)
WorkIsSummed(b) ==
    \A i \in 1 .. Len(b) - 1 : b[i + 1].work = b[i].work + computeCountWork(b[i + 1].target)

(* What holds of the branches in every state. *)
HeadersIInv ==
    /\ BranchesTyped
    /\ \A b \in Stored : WorkIsSummed(b)
    /\ MedianGrows

(* A branch that is stored is a sequence of headers, and so are its         *)
(* ancestors, which are stored too.                                         *)
LEMMA StoredFacts ==
    ASSUME BranchesTyped, NEW b \in Stored
    PROVE  /\ b \in Branch /\ Ancestors(b) \subseteq Stored /\ b \in Ancestors(b)
           /\ main \in Branch
<1>1. ASSUME NEW d \in Stored PROVE d \in Branch /\ Ancestors(d) \subseteq Stored
  <2>1. PICK e \in branches : d \in Ancestors(e)
    BY DEF Stored
  <2>2. PICK n \in 1 .. Len(e) : d = SubSeq(e, 1, n)
    BY <2>1 DEF Ancestors
  <2>3. e \in Branch
    BY <2>1 DEF BranchesTyped
  <2>4. /\ d \in Branch /\ Len(d) = n
        /\ \A i \in 1 .. n : SubSeq(d, 1, i) = SubSeq(e, 1, i)
    BY <2>2, <2>3, AncestorFacts
  <2>5. ASSUME NEW i \in 1 .. Len(d) PROVE SubSeq(d, 1, i) \in Ancestors(e)
    <3>1. i \in 1 .. Len(e)
      BY <2>2, <2>3, <2>4, BranchFacts
    <3> QED
      BY <2>4, <3>1 DEF Ancestors
  <2>6. Ancestors(d) \subseteq Ancestors(e)
    BY <2>5 DEF Ancestors
  <2> QED
    BY <2>1, <2>4, <2>6 DEF Stored
<1>2. b \in Ancestors(b)
  <2>1. Len(b) \in 1 .. Len(b)
    BY <1>1, BranchFacts
  <2>2. SubSeq(b, 1, Len(b)) = b
    BY <1>1, <2>1, AncestorFacts
  <2> QED
    BY <2>1, <2>2 DEF Ancestors
<1> QED
  BY <1>1, <1>2 DEF BranchesTyped

(* What a step with a new header does.                                      *)
Accepted(b, e) ==
    /\ e.time > computeMedianTimestamp(b)
    /\ e.work = Top(b).work + computeCountWork(e.target)
    /\ branches' = (branches \ {b}) \cup {Append(b, e)}
    /\ Stored' = Stored \cup {Append(b, e)}
    /\ main' \in {main, Append(b, e)}
    /\ now' = now

(* An accepted count puts a header on a stored branch: its time is past the *)
(* median, its work is added, and the branches below it stay.               *)
LEMMA AcceptFacts ==
    ASSUME HeadersIInv, NEW b \in Stored, NEW s \in Steps,
           AcceptCount(b, computeMedianTimestamp(b) + s)
    PROVE  \E e \in Header : Accepted(b, e)
<1> DEFINE time == computeMedianTimestamp(b) + s
           target == computeTarget(b)
           e == [time |-> time, target |-> target,
                 work |-> Top(b).work + computeCountWork(target)]
<1>1. /\ b \in Branch /\ main \in Branch
      /\ Ancestors(b) \subseteq Stored /\ b \in Ancestors(b)
  BY StoredFacts DEF HeadersIInv
<1>2. /\ computeMedianTimestamp(b) \in Nat /\ Top(b) \in Header
  BY <1>1, BranchFacts, MedianFacts
<1>3. time \in Nat /\ time > computeMedianTimestamp(b)
  <2>1. s \in Int
    BY HeadersAssumption
  <2>2. time \in Int
    BY <1>2, <2>1
  <2> HIDE DEF time
  <2>3. time >= 0 /\ time > computeMedianTimestamp(b)
    BY DEF AcceptCount, TimeIsRight, time
  <2> QED
    BY <2>2, <2>3
<1>4. target \in Nat
  BY <1>1, TargetType DEF AcceptCount
<1>5. computeCountWork(target) \in Nat
  BY <1>4, CountWork
<1>6. /\ branches' = (branches \ {b}) \cup {Append(b, e)}
      /\ main' \in {main, Append(b, e)}
      /\ now' = now
  BY DEF AcceptCount
<1> HIDE DEF time, target
<1>7. e \in Header
  BY <1>2, <1>3, <1>4, <1>5 DEF Header
<1>8. e.time = time /\ e.work = Top(b).work + computeCountWork(e.target)
  OBVIOUS
<1> HIDE DEF e
<1>9. Stored' = Stored \cup {Append(b, e)}
  <2>1. Ancestors(Append(b, e)) = Ancestors(b) \cup {Append(b, e)}
    BY <1>1, <1>7, NextBranch
  <2>2. Stored' = UNION {Ancestors(d) : d \in branches'}
    BY DEF Stored, Ancestors
  <2> DEFINE c == Append(b, e)
  <2> HIDE DEF c
  <2>3. ASSUME NEW x \in Stored' PROVE x \in Stored \cup {c}
    <3>1. PICK d \in branches' : x \in Ancestors(d)
      BY <2>2, <2>3
    <3>2. CASE d \in branches
      BY <3>1, <3>2 DEF Stored
    <3>3. CASE d = c
      BY <1>1, <2>1, <3>1, <3>3 DEF c
    <3> QED
      BY <1>6, <3>1, <3>2, <3>3 DEF c
  <2>4. ASSUME NEW x \in Stored \cup {c} PROVE x \in Stored'
    <3>1. c \in branches' /\ Ancestors(c) = Ancestors(b) \cup {c}
      BY <1>6, <2>1 DEF c
    <3>2. CASE x \in Ancestors(b) \cup {c}
      BY <2>2, <3>1, <3>2
    <3>3. CASE x \in Stored /\ x \notin Ancestors(b)
      <4>1. PICK d \in branches : x \in Ancestors(d)
        BY <3>3 DEF Stored
      <4>2. d \in branches'
        BY <1>6, <3>3, <4>1
      <4> QED
        BY <2>2, <4>1, <4>2
    <3> QED
      BY <2>4, <3>2, <3>3
  <2>5. Stored' = Stored \cup {c}
    BY <2>3, <2>4
  <2> QED
    BY <2>5 DEF c
<1> QED
  BY <1>3, <1>6, <1>7, <1>8, <1>9 DEF Accepted

(* The genesis count alone.                                                 *)
LEMMA HeadersInit == Init => HeadersIInv
<1> SUFFICES ASSUME Init PROVE HeadersIInv
  OBVIOUS
<1>1. Genesis \in Branch /\ Len(Genesis) = 1
  <2>1. INITIAL_TARGET \in Nat /\ computeCountWork(INITIAL_TARGET) \in Nat
    BY HeadersAssumption, CountWork
  <2> DEFINE e == [time |-> 0, target |-> INITIAL_TARGET, work |-> computeCountWork(INITIAL_TARGET)]
  <2>2. e \in Header
    BY <2>1 DEF Header
  <2> HIDE DEF e
  <2>3. <<e>> \in Seq(Header) /\ Len(<<e>>) = 1
    BY <2>2
  <2> QED
    BY <2>3 DEF Branch, Genesis, e
<1>2. Ancestors(Genesis) = {Genesis}
  <2>1. 1 .. Len(Genesis) = {1} /\ Len(Genesis) \in 1 .. Len(Genesis)
    BY <1>1
  <2>2. SubSeq(Genesis, 1, 1) = Genesis
    BY <1>1, <2>1, AncestorFacts
  <2> QED
    BY <2>1, <2>2 DEF Ancestors
<1>3. branches = {Genesis} /\ main = Genesis /\ now = 0
  BY DEF Init
<1>4. Stored = {Genesis}
  BY <1>2, <1>3 DEF Stored
<1>5. WorkIsSummed(Genesis)
  BY <1>1 DEF WorkIsSummed
<1>6. MedianGrows
  <2>1. computeMedianTimestamp(Genesis) \in Nat
    BY <1>1, BranchFacts, MedianFacts
  <2> QED
    BY <1>2, <1>4, <2>1 DEF MedianGrows
<1> QED
  BY <1>1, <1>3, <1>4, <1>5, <1>6 DEF HeadersIInv, BranchesTyped

(* A new header keeps it. *)
LEMMA HeadersAccept ==
    ASSUME HeadersIInv, NEW b \in Stored, NEW e \in Header, Accepted(b, e)
    PROVE  HeadersIInv'
<1> DEFINE c == Append(b, e)
<1>1. b \in Branch /\ Ancestors(b) \subseteq Stored /\ b \in Ancestors(b)
  BY StoredFacts DEF HeadersIInv
<1>2. /\ c \in Branch /\ Len(c) = Len(b) + 1 /\ Top(c) = e
      /\ \A i \in 1 .. Len(b) : c[i] = b[i]
      /\ Ancestors(c) = Ancestors(b) \cup {c}
  BY <1>1, NextBranch
<1>3. /\ computeMedianTimestamp(b) <= computeMedianTimestamp(c)
      /\ computeMedianTimestamp(b) \in Nat /\ computeMedianTimestamp(c) \in Nat
  <2>1. b \in Seq(Header) /\ IsTimed(b) /\ e.time \in Nat
    BY <1>1, BranchFacts DEF Branch, Header
  <2>2. e.time > computeMedianTimestamp(b)
    BY DEF Accepted
  <2>3. computeMedianTimestamp(b) <= computeMedianTimestamp(c)
    BY <2>1, <2>2, MedianOfNext
  <2> HIDE DEF c
  <2> QED
    BY <1>2, <2>1, <2>3, BranchFacts, MedianFacts
<1> HIDE DEF c
<1>4. /\ branches' = (branches \ {b}) \cup {c} /\ Stored' = Stored \cup {c}
      /\ main' \in {main, c} /\ now' = now
      /\ e.work = Top(b).work + computeCountWork(e.target)
  BY DEF Accepted, c
<1>5. BranchesTyped'
  BY <1>2, <1>4 DEF HeadersIInv, BranchesTyped
<1>6. WorkIsSummed(c)
  <2>1. WorkIsSummed(b) /\ Len(b) \in Nat \ {0} /\ Top(b) = b[Len(b)]
    BY <1>1, BranchFacts DEF HeadersIInv
  <2>2. ASSUME NEW i \in 1 .. Len(c) - 1
        PROVE  c[i + 1].work = c[i].work + computeCountWork(c[i + 1].target)
    <3>1. CASE i = Len(b)
      <4>1. c[i + 1] = e /\ c[i] = Top(b)
        BY <1>2, <2>1, <3>1 DEF Top
      <4> QED
        BY <1>4, <4>1
    <3>2. CASE i # Len(b)
      <4>1. i \in 1 .. Len(b) - 1 /\ i \in 1 .. Len(b) /\ i + 1 \in 1 .. Len(b)
        BY <1>2, <2>1, <3>2
      <4>2. c[i] = b[i] /\ c[i + 1] = b[i + 1]
        BY <1>2, <4>1
      <4> QED
        BY <2>1, <4>1, <4>2 DEF WorkIsSummed
    <3> QED
      BY <3>1, <3>2
  <2> QED
    BY <2>2 DEF WorkIsSummed
<1>7. \A d \in Stored' : WorkIsSummed(d)
  BY <1>4, <1>6 DEF HeadersIInv
<1>8. ASSUME NEW d \in Stored', NEW p \in Ancestors(d)
      PROVE  computeMedianTimestamp(p) <= computeMedianTimestamp(d)
  <2>1. CASE d \in Stored
    BY <2>1 DEF HeadersIInv, MedianGrows
  <2>2. CASE d = c /\ p = c
    BY <1>3, <2>2
  <2>3. CASE d = c /\ p \in Ancestors(b)
    <3>1. p \in Stored
      BY <1>1, <2>3
    <3>2. p \in Branch
      BY <3>1, StoredFacts DEF HeadersIInv
    <3>3. computeMedianTimestamp(p) \in Nat
      BY <3>2, BranchFacts, MedianFacts
    <3>4. computeMedianTimestamp(p) <= computeMedianTimestamp(b)
      BY <2>3 DEF HeadersIInv, MedianGrows
    <3> QED
      BY <1>3, <2>3, <3>3, <3>4
  <2> QED
    BY <1>2, <1>4, <1>8, <2>1, <2>2, <2>3
<1>9. MedianGrows'
  <2>1. MedianGrows' <=> \A d \in Stored' : \A p \in Ancestors(d) :
                            computeMedianTimestamp(p) <= computeMedianTimestamp(d)
    BY DEF MedianGrows, Ancestors, computeMedianTimestamp
  <2> QED
    BY <1>8, <2>1
<1>10. (\A d \in Stored : WorkIsSummed(d))' <=> \A d \in Stored' : WorkIsSummed(d)
  BY DEF WorkIsSummed
<1> QED
  BY <1>5, <1>7, <1>9, <1>10 DEF HeadersIInv

(* Every step does. *)
LEMMA HeadersStep == HeadersIInv /\ [Next]_vars => HeadersIInv'
<1> SUFFICES ASSUME HeadersIInv, [Next]_vars PROVE HeadersIInv'
  OBVIOUS
<1>1. ASSUME NEW b \in Stored, NEW s \in Steps,
             AcceptCount(b, computeMedianTimestamp(b) + s)
      PROVE  HeadersIInv'
  <2>1. PICK e \in Header : Accepted(b, e)
    BY <1>1, AcceptFacts
  <2> QED
    BY <2>1, HeadersAccept
<1>2. ASSUME UNCHANGED <<branches, main>>, now' \in Int
      PROVE  HeadersIInv'
  <2>1. Stored' = Stored
    BY <1>2 DEF Stored, Ancestors
  <2>2. (MedianGrows' <=> MedianGrows) /\ (BranchesTyped => BranchesTyped')
        /\ ((\A d \in Stored : WorkIsSummed(d))' <=> \A d \in Stored : WorkIsSummed(d))
    BY <1>2, <2>1 DEF MedianGrows, BranchesTyped, Ancestors, computeMedianTimestamp, WorkIsSummed
  <2> QED
    BY <2>2 DEF HeadersIInv
<1>3. now \in Int
  BY DEF HeadersIInv, BranchesTyped
<1>4. CASE Tick
  BY <1>2, <1>3, <1>4 DEF Tick
<1>5. CASE UNCHANGED vars
  BY <1>2, <1>3, <1>5 DEF vars
<1> QED
  BY <1>1, <1>4, <1>5 DEF Next

(* The invariant holds in every state. *)
LEMMA HeadersAlways == Spec => []HeadersIInv
  BY HeadersInit, HeadersStep, PTL DEF Spec

(* The median of the last timestamps never goes back along a branch, as     *)
(* acceptCount demands a time past it, whatever the times are and whether   *)
(* or not the window of the median is full.                                 *)
THEOREM MediansGrow == Spec => []MedianGrows
<1>1. HeadersIInv => MedianGrows
  BY DEF HeadersIInv
<1> QED
  BY <1>1, HeadersAlways, PTL

-----------------------------------------------------------------------------
(* The adjustment *)

(* On a branch that left the main one at most a window ago, the header a    *)
(* window below is the branch's own.                                        *)
LEMMA FirstIsOwn ==
    ASSUME NEW b \in Branch, main \in Branch,
           Height(b) >= BITCOIN_CASH_RETARGET_ALGORITHM_HEIGHT,
           Past(b) <= RETARGET_SMA_WINDOW
    PROVE  LET h == Height(b) - RETARGET_SMA_WINDOW
           IN  /\ h + 1 \in 1 .. Len(b) - 1 /\ h + 1 \in 1 .. Len(main)
               /\ ~(h > Height(main))
               /\ HeaderAt(main, h) = HeaderAt(b, h)
<1> DEFINE n == Height(b) - RETARGET_SMA_WINDOW + 1
           common == {i \in DOMAIN b \cap DOMAIN main : SubSeq(b, 1, i) = SubSeq(main, 1, i)}
<1>1. /\ RETARGET_SMA_WINDOW \in Nat \ {0}
      /\ BITCOIN_CASH_RETARGET_ALGORITHM_HEIGHT \in Nat
      /\ BITCOIN_CASH_RETARGET_ALGORITHM_HEIGHT >= RETARGET_SMA_WINDOW
  BY HeadersAssumption
<1>2. /\ Len(b) \in Nat \ {0} /\ Len(main) \in Nat \ {0}
      /\ DOMAIN b = 1 .. Len(b) /\ DOMAIN main = 1 .. Len(main)
  <2>1. b \in Seq(Header) /\ main \in Seq(Header)
    BY DEF Branch
  <2> QED
    BY <2>1, BranchFacts
<1>3. /\ Height(b) = Len(b) - 1 /\ Height(main) = Len(main) - 1
      /\ n = Len(b) - RETARGET_SMA_WINDOW
      /\ n \in 1 .. Len(b) - 1 /\ n \in 1 .. Len(b)
  BY <1>1, <1>2 DEF Height
<1>4. common \subseteq 1 .. Len(b) /\ common \subseteq 1 .. Len(main)
  BY <1>2
<1>5. IsFiniteSet(common) /\ Cardinality(common) \in Nat
  <2>1. IsFiniteSet(1 .. Len(b))
    BY <1>2, FS_Interval
  <2> HIDE DEF common
  <2> QED
    BY <1>4, <2>1, FS_Subset, FS_CardinalityType
<1>6. Len(b) - Cardinality(common) <= RETARGET_SMA_WINDOW
  BY DEF Past
<1>7. PICK i \in common : i >= n
  <2> SUFFICES ASSUME \A i \in common : ~(i >= n) PROVE FALSE
    OBVIOUS
  <2> HIDE DEF common, n
  <2>1. common \subseteq 1 .. n - 1
    BY <1>3, <1>4
  <2>2. IsFiniteSet(1 .. n - 1) /\ Cardinality(1 .. n - 1) = n - 1
    <3>1. 1 \in Int /\ n - 1 \in Int /\ n - 1 >= 0
      BY <1>3
    <3> QED
      BY <3>1, FS_Interval
  <2>3. Cardinality(common) <= n - 1
    <3>1. common \in SUBSET (1 .. n - 1)
      BY <2>1
    <3>2. Cardinality(common) <= Cardinality(1 .. n - 1)
      BY <2>2, <3>1, FS_Subset
    <3> QED
      BY <2>2, <3>2
  <2> QED
    BY <1>1, <1>2, <1>3, <1>5, <1>6, <2>3
<1>8. /\ SubSeq(b, 1, i) = SubSeq(main, 1, i)
      /\ i \in 1 .. Len(b) /\ i \in 1 .. Len(main)
  BY <1>2, <1>7
<1>9. n \in 1 .. i /\ n \in 1 .. Len(main)
  <2> HIDE DEF n, common
  <2> QED
    BY <1>2, <1>3, <1>7, <1>8
<1>10. SubSeq(b, 1, i)[n] = b[n] /\ SubSeq(main, 1, i)[n] = main[n]
  <2> HIDE DEF n
  <2> QED
    BY <1>8, <1>9, AncestorFacts
<1>11. ~(Height(b) - RETARGET_SMA_WINDOW > Height(main))
  <2> HIDE DEF n
  <2>1. Height(b) - RETARGET_SMA_WINDOW = n - 1
    BY <1>1, <1>3 DEF n
  <2> QED
    BY <1>2, <1>3, <1>9, <2>1
<1> QED
  BY <1>3, <1>8, <1>9, <1>10, <1>11 DEF HeaderAt

(* In range, each count of a branch adds at least the initial work if none  *)
(* is easier.                                                               *)
LEMMA WorkOfWindow ==
    ASSUME HeadersIInv, InRange, NEW b \in Stored, NoneIsEasier(b), NEW j \in 1 .. Len(b)
    PROVE  /\ b[j].work \in Nat /\ Top(b).work \in Nat
           /\ Top(b).work >= b[j].work + (Len(b) - j) * computeCountWork(INITIAL_TARGET)
<1> DEFINE initial == computeCountWork(INITIAL_TARGET)
           T == {k \in 1 .. Len(b) : k >= j => b[k].work >= b[j].work + (k - j) * initial}
<1>1. /\ b \in Branch /\ Ancestors(b) \subseteq Stored /\ WorkIsSummed(b)
  BY StoredFacts DEF HeadersIInv
<1>2. /\ Len(b) \in Nat \ {0} /\ \A i \in 1 .. Len(b) : b[i] \in Header
      /\ Top(b) = b[Len(b)]
  BY <1>1, BranchFacts
<1>3. INITIAL_TARGET \in Nat \ {0} /\ initial \in Nat
  BY HeadersAssumption, CountWork
<1>4. ASSUME NEW i \in 1 .. Len(b)
      PROVE  /\ b[i].work \in Nat /\ b[i].target \in Int
             /\ 0 < b[i].target /\ b[i].target <= INITIAL_TARGET
             /\ computeCountWork(b[i].target) \in Nat
             /\ computeCountWork(b[i].target) >= initial
  <2>1. b[i].work \in Nat /\ b[i].target \in Int /\ b[i].target <= INITIAL_TARGET
    <3> HIDE DEF initial, T
    <3>1. i \in DOMAIN b
      BY <1>1 DEF Branch
    <3>2. b[i].target <= INITIAL_TARGET
      BY <3>1, Zenon DEF NoneIsEasier
    <3>3. b[i] \in Header
      BY <1>2
    <3>4. b[i].work \in Nat /\ b[i].target \in Nat
      BY <3>3 DEF Header
    <3> QED
      BY <3>2, <3>4
  <2>2. 0 < b[i].target
    <3>1. SubSeq(b, 1, i) \in Stored
      BY <1>1 DEF Ancestors
    <3>2. Len(SubSeq(b, 1, i)) = i /\ SubSeq(b, 1, i)[i] = b[i]
      <4>1. i \in 1 .. i
        BY <1>2
      <4> QED
        BY <1>1, <4>1, AncestorFacts
    <3>3. Top(SubSeq(b, 1, i)) = b[i]
      BY <3>2 DEF Top
    <3>4. Top(SubSeq(b, 1, i)).target > 0
      BY <3>1 DEF InRange
    <3> QED
      BY <2>1, <3>3, <3>4
  <2>3. INITIAL_TARGET \in Int
    BY <1>3
  <2> QED
    BY <1>3, <2>1, <2>2, <2>3, CountWork
<1> HIDE DEF initial
<1>5. ASSUME NEW k \in 1 .. Len(b) - 1, k \in T PROVE k + 1 \in T
  <2>1. k \in 1 .. Len(b) /\ k + 1 \in 1 .. Len(b)
    BY <1>2
  <2>2. CASE k + 1 = j
    <3>1. (k + 1 - j) * initial = 0
      BY <1>3, <2>2
    <3>2. b[k + 1].work \in Nat
      BY <1>4, <2>1
    <3> QED
      BY <2>1, <2>2, <3>1, <3>2
  <2>3. CASE k + 1 < j
    BY <1>2, <2>1, <2>3
  <2>4. CASE k >= j
    <3>1. b[k + 1].work = b[k].work + computeCountWork(b[k + 1].target)
      BY <1>1 DEF WorkIsSummed
    <3>2. /\ computeCountWork(b[k + 1].target) >= initial
          /\ computeCountWork(b[k + 1].target) \in Nat
          /\ b[k].work \in Nat /\ b[j].work \in Nat
      BY <1>4, <2>1
    <3>3. b[k].work >= b[j].work + (k - j) * initial
      BY <1>5, <2>4
    <3>4. (k + 1 - j) * initial = (k - j) * initial + initial /\ (k - j) * initial \in Int
      BY <1>2, <1>3
    <3>5. b[k + 1].work >= b[j].work + (k + 1 - j) * initial
      BY <1>3, <3>1, <3>2, <3>3, <3>4
    <3> QED
      BY <2>1, <3>5
  <2> QED
    BY <1>2, <2>2, <2>3, <2>4
<1>6. 1 \in T
  <2>1. 1 \in 1 .. Len(b) /\ (1 >= j => j = 1)
    BY <1>2
  <2>2. b[1].work \in Nat /\ (1 - 1) * initial = 0
    BY <1>3, <1>4, <2>1
  <2> QED
    BY <2>1, <2>2
<1>7. T = 1 .. Len(b)
  <2>1. T \in SUBSET (1 .. Len(b))
    OBVIOUS
  <2> HIDE DEF T
  <2> QED
    BY <1>2, <1>5, <1>6, <2>1, UpTo
<1>8. Len(b) \in T /\ Len(b) >= j /\ Len(b) \in 1 .. Len(b)
  <2> HIDE DEF T
  <2> QED
    BY <1>2, <1>7
<1> QED
  BY <1>2, <1>4, <1>8 DEF initial

(* The numbers of the rule: with the work of a window of W = 2 n counts,    *)
(* bounded in time by n p and 4 n p, the work of the next count is that of  *)
(* a count of the window within a factor of 2 either way.                   *)
LEMMA WorkIsBounded ==
    ASSUME NEW n \in Nat \ {0}, NEW p \in Nat \ {0}, NEW delta \in Nat, NEW span \in Nat \ {0},
           n * p <= span, span <= 4 * (n * p), delta >= 4 * n
    PROVE  LET work == (delta * p) \div span
           IN  /\ work \in Nat \ {0} /\ ~(delta * p < span)
               /\ delta \div (4 * n) <= work
               /\ work <= delta \div n /\ work <= delta
<1> DEFINE work == (delta * p) \div span
<1>1. /\ delta * p \in Nat /\ n * p \in Nat \ {0} /\ 4 * n \in Nat \ {0}
      /\ work \in Int /\ span * work <= delta * p
  <2>1. delta * p \in Nat /\ n * p \in Nat \ {0} /\ 4 * n \in Nat \ {0}
    OBVIOUS
  <2> QED
    BY <2>1, DivFacts
<1>2. ASSUME NEW q \in Nat, (4 * n) * q <= delta PROVE q <= work
  <2>1. span * q <= (4 * (n * p)) * q
    BY <1>1
  <2>2. (4 * (n * p)) * q = ((4 * n) * q) * p
    OBVIOUS
  <2>3. (4 * n) * q \in Nat
    OBVIOUS
  <2>4. ((4 * n) * q) * p <= delta * p
    BY <1>2, <2>3
  <2>5. span * q \in Int /\ ((4 * n) * q) * p \in Int
    OBVIOUS
  <2>6. span * q <= delta * p
    BY <1>1, <2>1, <2>2, <2>4, <2>5
  <2> QED
    BY <1>1, <2>6, DivLargest
<1>3. 1 <= work
  BY <1>2
<1>4. delta \div (4 * n) <= work
  <2>1. /\ delta \div (4 * n) \in Int /\ (4 * n) * (delta \div (4 * n)) <= delta
    BY <1>1, DivFacts
  <2>2. 0 <= delta \div (4 * n)
    <3>1. (4 * n) * 0 <= delta
      OBVIOUS
    <3> QED
      BY <1>1, <3>1, DivLargest
  <2> QED
    BY <1>2, <2>1, <2>2
<1>5. ~(delta * p < span)
  <2>1. span * 1 <= span * work
    BY <1>1, <1>3
  <2> HIDE DEF work
  <2>2. span * work \in Int
    BY <1>1
  <2> QED
    BY <1>1, <2>1, <2>2
<1> HIDE DEF work
<1>6. n * work <= delta
  <2>1. (n * p) * work <= span * work
    BY <1>1, <1>3
  <2>2. (n * p) * work = (n * work) * p /\ n * work \in Nat
    BY <1>1, <1>3
  <2>3. (n * work) * p <= delta * p
    BY <1>1, <2>1, <2>2
  <2>4. ASSUME n * work > delta PROVE FALSE
    <3>1. (n * work) * p >= (delta + 1) * p /\ (delta + 1) * p = delta * p + p
      BY <2>2, <2>4
    <3> QED
      BY <1>1, <2>2, <2>3, <3>1
  <2> QED
    BY <2>2, <2>4
<1>7. work <= delta \div n
  BY <1>1, <1>6, DivLargest
<1>8. work <= delta
  <2>1. 1 * work <= n * work
    BY <1>1, <1>3
  <2> QED
    BY <1>1, <1>3, <1>6, <2>1
<1> QED
  BY <1>1, <1>3, <1>4, <1>5, <1>7, <1>8 DEF work

(* The target for a work, and the work of that target: the same, unless the *)
(* target is the initial one.                                               *)
LEMMA WorkOfTarget ==
    ASSUME NEW work \in Nat \ {0}, work * work <= MAX_INT
    PROVE  LET target == Least(MAX_INT \div work - 1, INITIAL_TARGET)
               initial == computeCountWork(INITIAL_TARGET)
           IN  /\ target \in Int /\ 0 < target /\ target <= INITIAL_TARGET
               /\ computeCountWork(target) >= initial
               /\ computeCountWork(target) >= work
               /\ computeCountWork(target) = initial \/ computeCountWork(target) <= work
<1> DEFINE q == MAX_INT \div work
           target == Least(q - 1, INITIAL_TARGET)
<1>1. /\ MAX_INT \in Nat /\ INITIAL_TARGET \in Nat \ {0} /\ MAX_INT >= 2 * (INITIAL_TARGET + 1)
  BY HeadersAssumption, WindowAssumption
<1>2. q \in Int /\ work * q <= MAX_INT /\ MAX_INT < work * q + work
  BY <1>1, DivFacts
<1>3. q >= work
  BY <1>1, DivLargest
<1>4. q >= 2
  <2>1. CASE work = 1
    <3>1. work * 2 <= MAX_INT
      BY <1>1, <2>1
    <3> QED
      BY <1>1, <3>1, DivLargest
  <2>2. CASE work # 1
    <3> HIDE DEF q
    <3> QED
      BY <1>2, <1>3, <2>2
  <2> QED
    BY <2>1, <2>2
<1> HIDE DEF q
<1>5. target \in Int /\ 0 < target /\ target <= INITIAL_TARGET
  BY <1>1, <1>2, <1>4 DEF Least
<1>6. computeCountWork(target) >= computeCountWork(INITIAL_TARGET)
  BY <1>1, <1>5, CountWork
<1>7. CASE q - 1 < INITIAL_TARGET
  <2>1. target = q - 1 /\ target + 1 = q
    BY <1>2, <1>7 DEF Least
  <2> HIDE DEF target
  <2>2. computeCountWork(target) = MAX_INT \div q
    BY <1>5, <2>1 DEF computeCountWork
  <2>3. q * work <= MAX_INT
    BY <1>2
  <2>4. MAX_INT < q * (work + 1)
    <3>1. work * q + work <= q * (work + 1)
      BY <1>2, <1>3
    <3>2. work * q + work \in Int /\ q * (work + 1) \in Int
      BY <1>2
    <3> QED
      BY <1>1, <1>2, <3>1, <3>2
  <2>5. q \in Nat \ {0}
    BY <1>2, <1>4
  <2>6. work <= MAX_INT \div q /\ MAX_INT \div q <= work
    BY <1>1, <2>3, <2>4, <2>5, DivLargest
  <2> QED
    BY <1>5, <1>6, <2>2, <2>6 DEF target, q
<1>8. CASE ~(q - 1 < INITIAL_TARGET)
  <2>1. target = INITIAL_TARGET
    BY <1>1, <1>2, <1>8 DEF Least
  <2>2. (INITIAL_TARGET + 1) * work <= MAX_INT
    <3>1. INITIAL_TARGET + 1 <= q
      BY <1>1, <1>2, <1>8
    <3>2. work * (INITIAL_TARGET + 1) <= work * q
      BY <1>1, <1>2, <3>1
    <3>3. work * (INITIAL_TARGET + 1) \in Int /\ work * q \in Int
          /\ work * (INITIAL_TARGET + 1) = (INITIAL_TARGET + 1) * work
      BY <1>1, <1>2
    <3> QED
      BY <1>1, <1>2, <3>2, <3>3
  <2>3. computeCountWork(INITIAL_TARGET) = MAX_INT \div (INITIAL_TARGET + 1)
        /\ INITIAL_TARGET + 1 \in Nat \ {0}
    BY <1>1 DEF computeCountWork
  <2>4. work <= computeCountWork(INITIAL_TARGET)
    BY <1>1, <2>2, <2>3, DivLargest
  <2> QED
    BY <1>5, <1>6, <2>1, <2>4 DEF target, q
<1> QED
  BY <1>7, <1>8

(* In range, on a branch that left the main one at most a window ago, the   *)
(* program does not end and the work of the next count is within its bounds.*)
LEMMA AdjustmentOfBranch ==
    ASSUME HeadersIInv, InRange, NEW b \in Stored,
           Height(b) >= BITCOIN_CASH_RETARGET_ALGORITHM_HEIGHT,
           Past(b) <= RETARGET_SMA_WINDOW, NoneIsEasier(b)
    PROVE  ~Panics(b) /\ Bounded(b)
<1> DEFINE n == RETARGET_SMA_WINDOW \div 2
           h == Height(b) - RETARGET_SMA_WINDOW
           first == HeaderAt(b, h)
           delta == Top(b).work - first.work
           span == Timespan(Top(b), first)
           work == (delta * TARGET_SPACING) \div span
           initial == computeCountWork(INITIAL_TARGET)
<1>1. b \in Branch /\ main \in Branch
  BY StoredFacts DEF HeadersIInv
<1>2. /\ h + 1 \in 1 .. Len(b) - 1 /\ ~(h > Height(main))
      /\ HeaderAt(main, h) = first /\ first = b[h + 1]
  BY <1>1, FirstIsOwn DEF HeaderAt
<1>3. /\ Len(b) \in Nat \ {0} /\ Top(b) \in Header
      /\ \A i \in 1 .. Len(b) : b[i] \in Header
      /\ h + 1 \in 1 .. Len(b) /\ RETARGET_SMA_WINDOW \in Nat \ {0}
      /\ Len(b) - (h + 1) = RETARGET_SMA_WINDOW
  <2>1. Len(b) \in Nat \ {0} /\ RETARGET_SMA_WINDOW \in Nat \ {0} /\ Height(b) = Len(b) - 1
    BY <1>1, BranchFacts, HeadersAssumption DEF Height
  <2>2. Top(b) \in Header /\ \A i \in 1 .. Len(b) : b[i] \in Header
    BY <1>1, BranchFacts
  <2>3. h + 1 \in 1 .. Len(b) /\ Len(b) - (h + 1) = RETARGET_SMA_WINDOW
    BY <1>2, <2>1
  <2> QED
    BY <2>1, <2>2, <2>3
<1>4. first \in Header
  BY <1>2, <1>3
<1> HIDE DEF h
<1>5. /\ first.work \in Nat /\ Top(b).work \in Nat
      /\ Top(b).work >= first.work + RETARGET_SMA_WINDOW * initial
  BY <1>2, <1>3, WorkOfWindow
<1> HIDE DEF first
<1>6. /\ n \in Nat \ {0} /\ TARGET_SPACING \in Nat \ {0} /\ RETARGET_SMA_WINDOW = 2 * n
      /\ span \in Nat \ {0} /\ n * TARGET_SPACING <= span
      /\ span <= 2 * RETARGET_SMA_WINDOW * TARGET_SPACING
  BY <1>3, <1>4, TimespanFacts
<1> HIDE DEF span, n
<1>7. span <= 4 * (n * TARGET_SPACING)
  <2>1. 2 * RETARGET_SMA_WINDOW * TARGET_SPACING = 4 * (n * TARGET_SPACING)
    BY <1>6
  <2> QED
    BY <1>6, <2>1
<1>8. initial \in Nat /\ initial >= 2
  <2>1. /\ MAX_INT \in Nat /\ INITIAL_TARGET \in Nat \ {0}
        /\ (INITIAL_TARGET + 1) * 2 <= MAX_INT
    BY HeadersAssumption, WindowAssumption
  <2>2. initial = MAX_INT \div (INITIAL_TARGET + 1) /\ INITIAL_TARGET + 1 \in Nat \ {0}
    BY <2>1 DEF computeCountWork
  <2>3. 2 <= MAX_INT \div (INITIAL_TARGET + 1)
    BY <2>1, <2>2, DivLargest
  <2>4. initial \in Nat
    BY <2>1, CountWork
  <2> QED
    BY <2>2, <2>3, <2>4
<1> HIDE DEF initial
<1>9. delta \in Nat /\ delta >= 4 * n /\ delta <= Top(b).work
  <2>1. RETARGET_SMA_WINDOW * initial >= RETARGET_SMA_WINDOW * 2
        /\ RETARGET_SMA_WINDOW * initial \in Nat
    BY <1>3, <1>8
  <2> QED
    BY <1>5, <1>6, <2>1
<1> HIDE DEF delta
<1>10. /\ work \in Nat \ {0} /\ ~(delta * TARGET_SPACING < span)
       /\ delta \div (4 * n) <= work
       /\ work <= delta \div n /\ work <= delta
  BY <1>6, <1>7, <1>9, WorkIsBounded
<1>11. WorkExpected(b) = work
  BY <1>2 DEF WorkExpected, h, delta, span
<1> HIDE DEF work
<1>12. work * work <= MAX_INT
  <2>1. work <= Top(b).work
    BY <1>5, <1>9, <1>10
  <2>2. work * work <= Top(b).work * Top(b).work
    BY <1>5, <1>10, <2>1
  <2>3. Top(b).work * Top(b).work <= MAX_INT
    BY DEF InRange
  <2>4. MAX_INT \in Nat /\ work * work \in Int /\ Top(b).work * Top(b).work \in Int
    BY <1>5, <1>10, HeadersAssumption
  <2> QED
    BY <2>2, <2>3, <2>4
<1> DEFINE target == Least(MAX_INT \div work - 1, INITIAL_TARGET)
<1>13. target \in Int /\ 0 < target /\ target <= INITIAL_TARGET
  BY <1>10, <1>12, WorkOfTarget
<1>14. computeTargetBitcoinCash(b) = target
  <2>1. Quotient(work) = MAX_INT \div work
    BY <1>10 DEF Quotient
  <2>2. computeTargetBitcoinCash(b) = SetBigInt(target)
    BY <1>11, <2>1 DEF computeTargetBitcoinCash
  <2> HIDE DEF target
  <2> QED
    BY <1>13, <2>2 DEF SetBigInt
<1>15. computeTarget(b) = target
  BY <1>14 DEF computeTarget
<1>16. ~Panics(b)
  <2>1. target < MAX_INT
    <3> HIDE DEF target
    <3> QED
      BY <1>13, HeadersAssumption
  <2>2. MAX_INT \in Int
    BY HeadersAssumption
  <2> HIDE DEF target
  <2> QED
    BY <1>2, <1>10, <1>11, <1>13, <1>14, <2>1, <2>2 DEF Panics, h
<1> DEFINE next == computeCountWork(computeTarget(b))
<1>17. /\ next \in Nat /\ next >= initial /\ next >= work
       /\ next = initial \/ next <= work
  BY <1>10, <1>12, <1>13, <1>15, WorkOfTarget, CountWork DEF initial
<1> HIDE DEF next
<1>18. /\ delta \div (2 * RETARGET_SMA_WINDOW) = delta \div (4 * n)
       /\ delta \div (4 * n) \in Int
  <2>1. 2 * RETARGET_SMA_WINDOW = 4 * n /\ 4 * n \in Nat \ {0}
    BY <1>6
  <2> QED
    BY <1>9, <2>1, DivFacts
<1>19. /\ delta \div n <= (2 * delta) \div RETARGET_SMA_WINDOW
       /\ delta \div n \in Int /\ (2 * delta) \div RETARGET_SMA_WINDOW \in Int
  <2> DEFINE q == delta \div n
  <2>1. q \in Int /\ n * q <= delta
    BY <1>6, <1>9, DivFacts
  <2> HIDE DEF q
  <2>2. RETARGET_SMA_WINDOW * q = 2 * (n * q) /\ n * q \in Int
    BY <1>6, <2>1
  <2>3. RETARGET_SMA_WINDOW * q <= 2 * delta
    BY <1>9, <2>1, <2>2
  <2>4. 2 * delta \in Int /\ RETARGET_SMA_WINDOW \in Nat \ {0}
    BY <1>3, <1>9
  <2>5. q <= (2 * delta) \div RETARGET_SMA_WINDOW
    BY <2>1, <2>3, <2>4, DivLargest
  <2> QED
    BY <2>1, <2>4, <2>5, DivFacts DEF q
<1>20. /\ next >= initial
       /\ next >= delta \div (2 * RETARGET_SMA_WINDOW)
       /\ next <= initial \/ next <= (2 * delta) \div RETARGET_SMA_WINDOW + 1
  BY <1>8, <1>10, <1>17, <1>18, <1>19
<1>21. Bounded(b)
  BY <1>20 DEF Bounded, next, initial, delta, first, h
<1> QED
  BY <1>16, <1>21

(* computeTargetBitcoinCash keeps its promise (the work of the next count   *)
(* is that of a count of the window within a factor of 2, and the program   *)
(* does not end over a count) on every branch that left the main one at     *)
(* most a window ago and has no count easier than the genesis count, as     *)
(* long as no target has come down to 0 and no work is above the square     *)
(* root of MAX_INT: beyond it the division by the work of the next count is *)
(* too coarse to give that work back.                                       *)
THEOREM AdjustmentsAreBounded == Spec => [](InRange => AdjustmentIsBounded)
<1>1. HeadersIInv => (InRange => AdjustmentIsBounded)
  BY AdjustmentOfBranch DEF AdjustmentIsBounded
<1> QED
  BY <1>1, HeadersAlways, PTL
=============================================================================
