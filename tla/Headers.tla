------------------------------- MODULE Headers -------------------------------
(***************************************************************************)
(* Time, target and work of the counts: what acceptCount demands of a      *)
(* header, on the main branch and on side branches.  A branch is the       *)
(* sequence of its headers from the genesis count, at height 0; a header   *)
(* is [time, target, work], where work is the sum up to it (PointWork).    *)
(* Every branch that is better than the tip is valid here.                 *)
(***************************************************************************)
EXTENDS Integers, Sequences, FiniteSets

CONSTANTS
    MAX_INT,                                \* 2^256
    INITIAL_TARGET,
    MAX_FUTURE_SECONDS,
    RETARGET_INTERVAL, TARGET_SPACING,
    BITCOIN_CASH_RETARGET_ALGORITHM_HEIGHT,
    RETARGET_SMA_WINDOW,
    NUM_COUNTS_FOR_MEDIAN_TMESTAMP,
    Steps,                                  \* times of counts, against the median
    MaxHeight, MaxBranches, MaxTime         \* bounds

RETARGET_TIME == RETARGET_INTERVAL * TARGET_SPACING

ASSUME HeadersAssumption ==
    /\ INITIAL_TARGET \in Nat \ {0} /\ MAX_INT \in Nat /\ MAX_INT > INITIAL_TARGET
    /\ TARGET_SPACING \in Nat \ {0}
    /\ RETARGET_INTERVAL \in Nat \ {0}
    /\ RETARGET_SMA_WINDOW \in Nat \ {0, 1}
    /\ BITCOIN_CASH_RETARGET_ALGORITHM_HEIGHT \in Nat
    /\ BITCOIN_CASH_RETARGET_ALGORITHM_HEIGHT >= RETARGET_SMA_WINDOW
    /\ NUM_COUNTS_FOR_MEDIAN_TMESTAMP \in Nat \ {0}
    /\ MAX_FUTURE_SECONDS \in Nat
    /\ Steps \subseteq Int

(* constants.go: the easiest target lets a hash through in 2^32, the window *)
(* is of 144 counts.                                                        *)
ASSUME WindowAssumption ==
    /\ MAX_INT >= 2 * (INITIAL_TARGET + 1)
    /\ RETARGET_SMA_WINDOW % 2 = 0

VARIABLES
    branches,       \* those that end in a count without a next one
    main,           \* the branch of the tip
    now             \* the clock

vars == <<branches, main, now>>

Height(b) == Len(b) - 1
HeaderAt(b, h) == b[h + 1]
Top(b) == b[Len(b)]
Ancestors(b) == {SubSeq(b, 1, n) : n \in 1 .. Len(b)}
Stored == UNION {Ancestors(b) : b \in branches}

Least(a, b) == IF a < b THEN a ELSE b
Clamp(n, low, high) == IF n < low THEN low ELSE Least(n, high)

-----------------------------------------------------------------------------
(* The rules *)

(* Of the last counts: the time in the middle of the sorted list, the later *)
(* of two.  It is the least one that more than half of them do not exceed.  *)
computeMedianTimestamp(b) ==
    LET n == Least(Len(b), NUM_COUNTS_FOR_MEDIAN_TMESTAMP)
        window == Len(b) - n + 1 .. Len(b)
        AboveHalf(t) == Cardinality({i \in window : b[i].time <= t}) > n \div 2
    IN  CHOOSE t \in {b[i].time : i \in window} :
            AboveHalf(t) /\ \A i \in window : AboveHalf(b[i].time) => t <= b[i].time

computeCountWork(target) == IF target <= 0 THEN 0 ELSE MAX_INT \div (target + 1)

(* Once in an interval, by the time the interval took. *)
computeTargetBitcoin(b) ==
    LET countsToGoBack == IF Len(b) # RETARGET_INTERVAL THEN RETARGET_INTERVAL
                          ELSE RETARGET_INTERVAL - 1
        actualTimespan == Clamp(Top(b).time - b[Len(b) - countsToGoBack].time,
                                RETARGET_TIME \div 4, RETARGET_TIME * 4)
    IN  IF Len(b) % RETARGET_INTERVAL # 0 THEN Top(b).target
        ELSE Least((Top(b).target * actualTimespan) \div RETARGET_TIME, INITIAL_TARGET)

(* Mutant: adjusts without bounds on the time.                              *)
Timespan_Any(prev, first) == IF prev.time > first.time THEN prev.time - first.time ELSE 1

(* "a factor in [0.5, 2]" *)
Timespan(prev, first) ==
    Clamp(prev.time - first.time,
          (RETARGET_SMA_WINDOW \div 2) * TARGET_SPACING,
          2 * RETARGET_SMA_WINDOW * TARGET_SPACING)

(* The work expected of the next count: the work since the count of the     *)
(* MAIN branch that is RETARGET_SMA_WINDOW below, which may have more work  *)
(* than a branch that left the main one before.                             *)
WorkExpected(b) ==
    LET first == HeaderAt(main, Height(b) - RETARGET_SMA_WINDOW)
    IN  ((Top(b).work - first.work) * TARGET_SPACING) \div Timespan(Top(b), first)

(* big.Int: Div rounds up for a divisor below 0, and the bytes SetBigInt    *)
(* stores are those of the absolute value.                                  *)
Quotient(n) == IF n > 0 THEN MAX_INT \div n ELSE -(MAX_INT \div (-n))
SetBigInt(n) == IF n < 0 THEN -n ELSE n

computeTargetBitcoinCash(b) ==
    SetBigInt(Least(Quotient(WorkExpected(b)) - 1, INITIAL_TARGET))

computeTarget(b) ==
    IF Height(b) >= BITCOIN_CASH_RETARGET_ALGORITHM_HEIGHT
      THEN computeTargetBitcoinCash(b)
      ELSE computeTargetBitcoin(b)

(* The program ends: the main branch has no count at that height, there is  *)
(* no work to divide by, or the target is not of 32 bytes.                  *)
Panics(b) ==
    /\ Height(b) >= BITCOIN_CASH_RETARGET_ALGORITHM_HEIGHT
    /\ \/ Height(b) - RETARGET_SMA_WINDOW > Height(main)
       \/ WorkExpected(b) = 0
       \/ computeTargetBitcoinCash(b) >= MAX_INT

-----------------------------------------------------------------------------

Genesis == <<[time |-> 0, target |-> INITIAL_TARGET, work |-> computeCountWork(INITIAL_TARGET)]>>

Init ==
    /\ branches = {Genesis}
    /\ main = Genesis
    /\ now = 0

(* Mutant: any time that is not in the future. *                            *)
TimeIsRight_NotFuture(b, time) == time <= now + MAX_FUTURE_SECONDS

TimeIsRight(b, time) ==
    /\ time <= now + MAX_FUTURE_SECONDS
    /\ time > computeMedianTimestamp(b)

(* A count on top of b: its target and work are the ones computed here, and *)
(* it is the new tip if it has more work.  The program ends as well over a  *)
(* work that is not of 32 bytes.                                            *)
AcceptCount(b, time) ==
    /\ Height(b) < MaxHeight
    /\ time >= 0 /\ TimeIsRight(b, time)
    /\ ~Panics(b)
    /\ LET target == computeTarget(b)
           c == Append(b, [time |-> time, target |-> target,
                           work |-> Top(b).work + computeCountWork(target)])
       IN  /\ Top(c).work < MAX_INT
           /\ c \notin Stored
           /\ branches' = (branches \ {b}) \cup {c}
           /\ Cardinality(branches') <= MaxBranches
           /\ main' = IF Top(c).work > Top(main).work THEN c ELSE main
    /\ UNCHANGED now

Tick == now < MaxTime /\ now' = now + 1 /\ UNCHANGED <<branches, main>>

Next ==
    \/ Tick
    \/ \E b \in Stored, s \in Steps : AcceptCount(b, computeMedianTimestamp(b) + s)

Spec == Init /\ [][Next]_vars

-----------------------------------------------------------------------------
(* Properties *)

(* How far a branch is past the main branch. *)
Past(b) ==
    Len(b) - Cardinality({n \in DOMAIN b \cap DOMAIN main : SubSeq(b, 1, n) = SubSeq(main, 1, n)})

(* No target has come down to 0, and no work is above the square root of    *)
(* MAX_INT: 2^128, of which a point never comes near.                       *)
InRange ==
    \A b \in Stored : Top(b).target > 0 /\ Top(b).work * Top(b).work <= MAX_INT

(* The work of the next count, against the work of the window before it.    *)
Bounded(b) ==
    LET work == Top(b).work - HeaderAt(b, Height(b) - RETARGET_SMA_WINDOW).work
        initial == computeCountWork(INITIAL_TARGET)
        next == computeCountWork(computeTarget(b))
    IN  /\ next >= initial
        /\ next >= work \div (2 * RETARGET_SMA_WINDOW)
        /\ next <= initial \/ next <= (2 * work) \div RETARGET_SMA_WINDOW + 1

(* "In order to avoid difficulty cliffs, we bound the amplitude of the      *)
(* adjustment we are going to do to a factor in [0.5, 2]" (processor.go:711)*)
(* on every branch, and the program does not end over a count.  This is     *)
(* false in the code: see AdjustmentIsBounded.                              *)
AdjustmentIsBoundedAnywhere ==
    \A b \in Stored :
        Height(b) >= BITCOIN_CASH_RETARGET_ALGORITHM_HEIGHT => ~Panics(b) /\ Bounded(b)

(* "don't go above the initial target" (processor.go:727).  This is false   *)
(* in the code: on a branch that left the main one more than a window ago   *)
(* the work expected may be below 0, and the target is then below 0 when it *)
(* is compared with the initial one and above it when it is stored.         *)
NoneIsEasier(b) == \A n \in DOMAIN b : b[n].target <= INITIAL_TARGET

TargetsAreCapped == \A b \in Stored : NoneIsEasier(b)

(* The bounds hold on branches that left the main branch at most a window   *)
(* ago, whichever branch the main one is by now, unless one of their counts *)
(* is easier than the genesis count: on a longer one the header a window    *)
(* below is another branch's (processor.go:699).                            *)
AdjustmentIsBounded ==
    \A b \in Stored :
        /\ Height(b) >= BITCOIN_CASH_RETARGET_ALGORITHM_HEIGHT
        /\ Past(b) <= RETARGET_SMA_WINDOW
        /\ NoneIsEasier(b)
        => ~Panics(b) /\ Bounded(b)

(* The median of the timestamps never goes back along a branch, although    *)
(* times may: what was too early for a count is too early for those after   *)
(* it.                                                                      *)
MedianGrows ==
    \A b \in Stored : \A p \in Ancestors(b) :
        computeMedianTimestamp(p) <= computeMedianTimestamp(b)
=============================================================================
