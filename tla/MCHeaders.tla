----------------------------- MODULE MCHeaders ------------------------------
(* Two branches, the window and the interval two counts long.               *)
EXTENDS Headers, TLC

MCSteps == {-3, 1, 4}

(* The code's way to the median: sorts the times of the last counts and     *)
(* takes the one in the middle.                                             *)
SortedMedian(times) ==
    LET n == Least(Len(times), NUM_COUNTS_FOR_MEDIAN_TMESTAMP)
        sorted == SortSeq(SubSeq(times, Len(times) - n + 1, Len(times)), <)
    IN  sorted[n \div 2 + 1]

(* computeMedianTimestamp tells the same of every list of up to five times. *)
ASSUME MedianIsSorted ==
    \A n \in 1 .. 5 : \A times \in [1 .. n -> 0 .. 3] :
        computeMedianTimestamp([i \in 1 .. n |-> [time |-> times[i]]]) = SortedMedian(times)
=============================================================================
