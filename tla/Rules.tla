------------------------------- MODULE Rules --------------------------------
(***************************************************************************)
(* The context-dependent rules the processor, the queue and the ledger     *)
(* share: which heights a consideration may be confirmed at, and which of  *)
(* two counts is the better tip.  Pure operators, no state.                *)
(***************************************************************************)
EXTENDS Integers

CONSTANT COUNTS_UNTIL_NEW_SERIES     \* 1008 in constants.go

ASSUME SeriesLengthAssumption == COUNTS_UNTIL_NEW_SERIES \in Nat \ {0}

(* Heights a series number may be used at.  A counterpoint switches on      *)
(* time; a user consideration has one full series of grace.                 *)
SeriesAt(height) == height \div COUNTS_UNTIL_NEW_SERIES + 1

LowestSeries(height) == IF SeriesAt(height) = 1 THEN 1 ELSE SeriesAt(height) - 1

CheckConsiderationSeries(isCounterPoint, series, height) ==
    IF isCounterPoint
      THEN series = SeriesAt(height)
      ELSE LowestSeries(height) <= series /\ series <= SeriesAt(height)

(* Zero means the field is absent. *)
IsMature(matures, height) == matures = 0 \/ matures >= height

IsExpired(expires, height) == expires # 0 /\ expires < height

(* The better of two headers: more cumulative work, then stored earlier,    *)
(* then the lesser ID.  A header is [work, when, id] here.                  *)
Compare(this, their) ==
    \/ this.work > their.work
    \/ this.work = their.work /\ this.when < their.when
    \/ this.work = their.work /\ this.when = their.when /\ this.id < their.id
=============================================================================
