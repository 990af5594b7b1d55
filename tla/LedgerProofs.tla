---------------------------- MODULE LedgerProofs ----------------------------
(***************************************************************************)
(* Proofs about the ledger for every tree of counts, every set of keys and *)
(* every value of the parameters: the indices are exact, the imbalances    *)
(* are those of the branch of the tip and none is negative, the tip can be *)
(* taken back, and no unit is lost or made but by a counterpoint.          *)
(***************************************************************************)
EXTENDS Ledger, FiniteSetTheorems, FunctionTheorems, WellFoundedInduction, TLAPS

(* A difference of two cardinalities: how many units a list of              *)
(* considerations brings a key is a whole number.                           *)
LEMMA NetType ==
    ASSUME NEW s, NEW k, NEW lo \in Int, NEW hi \in Int
    PROVE  Net(s, k, lo, hi) \in Int
<1>1. IsFiniteSet(lo .. hi)
  BY FS_Interval
<1>2. /\ IsFiniteSet({i \in lo .. hi : For[s[i]] = k})
      /\ IsFiniteSet({i \in lo .. hi : By[s[i]] = k})
  BY <1>1, FS_Subset
<1>3. /\ Cardinality({i \in lo .. hi : For[s[i]] = k}) \in Nat
      /\ Cardinality({i \in lo .. hi : By[s[i]] = k}) \in Nat
  BY <1>2, FS_CardinalityType
<1> QED
  BY <1>3 DEF Net

(* What Header.Previous gives a count above the genesis count: a branch     *)
(* that is the one of its previous count, with the count itself on top.     *)
LEMMA BranchOfCount ==
    ASSUME NEW c \in Counts
    PROVE  /\ Height(c) \in Heights /\ Height(c) \in Nat
           /\ Len(Path[c]) \in Nat /\ Len(Path[c]) = Height(c) + 1
           /\ CountAt(c, Height(c)) = c
           /\ CountAt(c, 0) = Genesis
           /\ \A h \in 0 .. Height(c) : CountAt(c, h) \in Counts
           /\ c = Genesis <=> Height(c) = 0
<1>1. /\ Path[c] \in Seq(Counts) /\ Path[Genesis] \in Seq(Counts)
      /\ Height(c) \in Heights
      /\ Path[c][1] = Genesis /\ Path[c][Len(Path[c])] = c
      /\ Path[Genesis][Len(Path[Genesis])] = Genesis
  BY PathAssumption
<1>2. Len(Path[c]) \in Nat /\ Height(c) \in Nat /\ Len(Path[c]) = Height(c) + 1
  BY <1>1, PathAssumption DEF Height, Heights
<1>3. \A i \in 1 .. Len(Path[c]) : Path[c][i] \in Counts
  BY <1>1
<1>4. Path[Genesis] = SubSeq(Path[c], 1, 1)
  <2>1. 1 \in 1 .. Len(Path[c])
    BY <1>2
  <2>2. Path[Path[c][1]] = SubSeq(Path[c], 1, 1)
    BY <2>1, PathAssumption
  <2> QED
    BY <2>2, <1>1
<1>5. Len(Path[Genesis]) = 1
  BY <1>1, <1>2, <1>4
<1>6. c = Genesis <=> Height(c) = 0
  <2>1. ASSUME c = Genesis PROVE Height(c) = 0
    BY <2>1, <1>5 DEF Height
  <2>2. ASSUME Height(c) = 0 PROVE c = Genesis
    BY <2>2, <1>1, <1>2
  <2> QED
    BY <2>1, <2>2
<1> QED
  BY <1>1, <1>2, <1>3, <1>6 DEF CountAt

(* A count stands on the branch of the previous one. *)
LEMMA PreviousOfCount ==
    ASSUME NEW c \in Counts, c # Genesis
    PROVE  /\ Previous(c) \in Counts
           /\ Height(c) = Height(Previous(c)) + 1
           /\ \A h \in 0 .. Height(Previous(c)) : CountAt(c, h) = CountAt(Previous(c), h)
<1>1. /\ Path[c] \in Seq(Counts)
      /\ Len(Path[c]) \in Nat /\ Len(Path[c]) = Height(c) + 1 /\ Len(Path[c]) > 1
  BY BranchOfCount, PathAssumption
<1>2. Len(Path[c]) - 1 \in 1 .. Len(Path[c])
  BY <1>1
<1>3. /\ Previous(c) \in Counts
      /\ Path[Previous(c)] = SubSeq(Path[c], 1, Len(Path[c]) - 1)
  <2>1. Path[c][Len(Path[c]) - 1] \in Counts
    BY <1>1, <1>2
  <2>2. \A i \in 1 .. Len(Path[c]) : Path[Path[c][i]] = SubSeq(Path[c], 1, i)
    BY PathAssumption
  <2>3. Path[Path[c][Len(Path[c]) - 1]] = SubSeq(Path[c], 1, Len(Path[c]) - 1)
    BY <1>2, <2>2
  <2> QED
    BY <2>1, <2>3 DEF Previous
<1>4. /\ Len(Path[Previous(c)]) = Len(Path[c]) - 1
      /\ \A i \in 1 .. Len(Path[c]) - 1 : Path[Previous(c)][i] = Path[c][i]
  BY <1>1, <1>2, <1>3
<1>5. Height(c) = Height(Previous(c)) + 1
  BY <1>1, <1>3, <1>4, BranchOfCount
<1>6. \A h \in 0 .. Height(Previous(c)) : h + 1 \in 1 .. Len(Path[c]) - 1
  BY <1>1, <1>3, <1>4, <1>5, BranchOfCount
<1> QED
  BY <1>3, <1>4, <1>5, <1>6 DEF CountAt

(* A consideration of a count has a place in it. *)
LEMMA IndexEntryType ==
    ASSUME NEW c \in Counts, NEW x \in Confirms(c)
    PROVE  IndexEntry(c, x) \in [height : Heights, index : Nat]
<1>1. Height(c) \in Heights
  BY BranchOfCount
<1>2. Positions(c) \subseteq Nat
  BY BodyAssumption DEF CheckCount, Positions
<1>3. \E i \in Positions(c) : Body[c][i] = x
  BY DEF Confirms
<1>4. (CHOOSE i \in Positions(c) : Body[c][i] = x) \in Positions(c)
  BY <1>3
<1> QED
  BY <1>1, <1>2, <1>4 DEF IndexEntry

(* The rows of a count are of the key index's kind. *)
LEMMA PartyRowsType ==
    ASSUME NEW c \in Counts
    PROVE  PartyRows(c) \subseteq Keys \X Heights \X Nat
<1>1. Height(c) \in Heights
  BY BranchOfCount
<1>2. Positions(c) \subseteq Nat
  BY BodyAssumption DEF CheckCount, Positions
<1> QED
  BY <1>1, <1>2 DEF PartyRows

(* The list of effects of a count is finite. *)
LEMMA EffectsLength ==
    ASSUME NEW c \in Counts
    PROVE  Len(Effects(c)) \in Int
<1>1. Body[c] \in Seq(Considerations) /\ Body[c] # <<>>
  BY BodyAssumption DEF CheckCount
<1>2. Tail(Body[c]) \in Seq(Considerations)
  BY <1>1
<1> DEFINE old == Body[heightIndex[Height(c) - COUNTERPOINT_MATURITY]][1]
<1>3. Len(Tail(Body[c])) \in Int /\ Len(<<old>> \o Tail(Body[c])) \in Int
  <2>1. <<old>> \in Seq({old} \cup Considerations)
    OBVIOUS
  <2>2. Tail(Body[c]) \in Seq({old} \cup Considerations)
    BY <1>2
  <2> QED
    BY <1>2, <2>1, <2>2
<1> QED
  BY <1>3 DEF Effects

(* What leaves the index window is a count of the branch of the tip.        *)
LEMMA ExpiringType ==
    ASSUME TypeOK, ChainIndexed, NEW c \in Counts \ {Genesis},
           tip = c \/ tip = Previous(c)
    PROVE  Expiring(c) \subseteq Counts
<1>1. /\ Height(c) \in Nat /\ Height(c) \in Heights /\ MaxHeight \in Nat
      /\ Height(c) = Height(Previous(c)) + 1
      /\ Previous(c) \in Counts /\ Height(Previous(c)) \in Nat
  BY BranchOfCount, PreviousOfCount, PathAssumption
<1>2. COUNTS_UNTIL_NEW_SERIES \in Nat \ {0}
  BY SeriesLengthAssumption
<1>3. ASSUME Height(c) >= 2 * COUNTS_UNTIL_NEW_SERIES
      PROVE  heightIndex[Height(c) - 2 * COUNTS_UNTIL_NEW_SERIES] \in Counts
  <2> DEFINE h == Height(c) - 2 * COUNTS_UNTIL_NEW_SERIES
  <2>1. h \in Heights /\ h \in 0 .. Height(Previous(c)) /\ h \in 0 .. Height(c)
    BY <1>1, <1>2, <1>3 DEF Heights
  <2>2. heightIndex[h] = CountAt(tip, h)
    BY <1>1, <2>1 DEF ChainIndexed
  <2> QED
    BY <1>1, <2>1, <2>2, BranchOfCount
<1> QED
  BY <1>3 DEF Expiring

-----------------------------------------------------------------------------
(* The tables are well typed and the height index is the branch of the tip. *)
(* The two are proved together: a reorg writes the indices of the count it  *)
(* finds at a height, which is a count only if the height index is right.   *)

(* The first inductive invariant. *)
TypedChain == TypeOK /\ ChainIndexed

(* The database after the genesis count. *)
LEMMA TypedChainInit == LedgerInit => TypedChain
<1> SUFFICES ASSUME LedgerInit PROVE TypedChain
  OBVIOUS
<1>1. /\ Genesis \in Counts /\ Height(Genesis) = 0 /\ 0 \in Heights
      /\ CountAt(Genesis, 0) = Genesis /\ Heights \subseteq Nat
  BY BranchOfCount, PathAssumption DEF Heights
<1>2. TypeOK
  <2>1. cnIndex \in [Considerations -> [height : Heights, index : Nat] \cup {NoEntry}]
    BY <1>1, IndexEntryType DEF LedgerInit
  <2>2. pkIndex \subseteq Keys \X Heights \X Nat
    BY <1>1, PartyRowsType DEF LedgerInit
  <2>3. imbalance \in [Keys -> Int]
    <3>1. Len(Body[Genesis]) \in Nat
      BY <1>1, BodyAssumption DEF CheckCount, CheckConsideration
    <3>2. \A k \in Keys : Net(Tail(Body[Genesis]), k, 1, Len(Body[Genesis]) - 1) \in Int
      BY <3>1, NetType
    <3> QED
      BY <3>2 DEF LedgerInit
  <2> QED
    BY <1>1, <2>1, <2>2, <2>3 DEF LedgerInit, TypeOK
<1>3. ChainIndexed
  BY <1>1 DEF LedgerInit, ChainIndexed
<1> QED
  BY <1>2, <1>3 DEF TypedChain

(* Connecting adds the count at its height. *)
LEMMA TypedChainConnect ==
    ASSUME TypedChain, NEW c \in Counts \ {Genesis}, ConnectCount(c)
    PROVE  TypedChain'
<1>1. /\ Height(c) \in Nat /\ Height(c) \in Heights /\ Heights \subseteq Nat
      /\ Previous(c) \in Counts /\ Height(c) = Height(Previous(c)) + 1
      /\ Height(Previous(c)) \in Nat
      /\ CountAt(c, Height(c)) = c
      /\ \A h \in 0 .. Height(Previous(c)) : CountAt(c, h) = CountAt(Previous(c), h)
  BY BranchOfCount, PreviousOfCount DEF Heights
<1>2. tip = Previous(c) /\ tip' = c
  BY DEF ConnectCount
<1>3. TypeOK'
  <2>1. Expiring(c) \subseteq Counts
    BY <1>2, ExpiringType DEF TypedChain
  <2>2. cnIndex' \in [Considerations -> [height : Heights, index : Nat] \cup {NoEntry}]
    BY IndexEntryType DEF ConnectCount, TypedChain, TypeOK
  <2>3. pkIndex' \subseteq Keys \X Heights \X Nat
    BY PartyRowsType DEF ConnectCount, TypedChain, TypeOK
  <2>4. imbalance' \in [Keys -> Int]
    <3>1. Len(Effects(c)) \in Int
      BY EffectsLength
    <3>2. \A k \in Keys : Net(Effects(c), k, 1, Len(Effects(c))) \in Int
      BY <3>1, NetType
    <3> QED
      BY <3>2 DEF ConnectCount, TypedChain, TypeOK
  <2>5. heightIndex' \in [Heights -> Counts \cup {NoCount}]
    BY <1>1 DEF ConnectCount, TypedChain, TypeOK
  <2>6. branchType' \in [Counts -> {"MAIN", "SIDE", "UNKNOWN"}]
    BY DEF ConnectCount, TypedChain, TypeOK
  <2> QED
    BY <1>2, <2>2, <2>3, <2>4, <2>5, <2>6 DEF TypeOK
<1>4. ChainIndexed'
  <2> SUFFICES ASSUME NEW h \in Heights
               PROVE  heightIndex'[h] = IF h <= Height(c) THEN CountAt(c, h) ELSE NoCount
    BY <1>2 DEF ChainIndexed
  <2>1. heightIndex'[h] = IF h = Height(c) THEN c ELSE heightIndex[h]
    BY <1>1 DEF ConnectCount, TypedChain, TypeOK
  <2>2. heightIndex[h] = IF h <= Height(Previous(c)) THEN CountAt(Previous(c), h) ELSE NoCount
    BY <1>2 DEF TypedChain, ChainIndexed
  <2>3. CASE h = Height(c)
    BY <1>1, <2>1, <2>3
  <2>4. CASE h # Height(c)
    <3>1. h <= Height(Previous(c)) <=> h <= Height(c)
      BY <1>1, <2>4
    <3>2. ASSUME h <= Height(c) PROVE CountAt(c, h) = CountAt(Previous(c), h)
      BY <1>1, <3>1, <3>2
    <3> QED
      BY <2>1, <2>2, <2>4, <3>1, <3>2
  <2> QED
    BY <2>3, <2>4
<1> QED
  BY <1>3, <1>4 DEF TypedChain

(* Disconnecting clears its height again. *)
LEMMA TypedChainDisconnect ==
    ASSUME TypedChain, NEW c \in Counts \ {Genesis}, DisconnectCount(c)
    PROVE  TypedChain'
<1>1. /\ Height(c) \in Nat /\ Height(c) \in Heights /\ Heights \subseteq Nat
      /\ Previous(c) \in Counts /\ Height(c) = Height(Previous(c)) + 1
      /\ Height(Previous(c)) \in Nat
      /\ \A h \in 0 .. Height(Previous(c)) : CountAt(c, h) = CountAt(Previous(c), h)
  BY BranchOfCount, PreviousOfCount DEF Heights
<1>2. tip = c /\ tip' = Previous(c)
  BY DEF DisconnectCount
<1>3. TypeOK'
  <2>1. Expiring(c) \subseteq Counts
    BY <1>2, ExpiringType DEF TypedChain
  <2>2. cnIndex' \in [Considerations -> [height : Heights, index : Nat] \cup {NoEntry}]
    <3>1. ASSUME NEW x \in Considerations, IndexedIn(Expiring(c), x)
          PROVE  IndexEntry(CHOOSE d \in Expiring(c) : TRUE, x)
                    \in [height : Heights, index : Nat]
      <4>1. PICK d \in Expiring(c) : x \in Confirms(d)
        BY <3>1 DEF IndexedIn
      <4>2. Expiring(c) = {d}
        BY <4>1 DEF Expiring
      <4>3. (CHOOSE e \in Expiring(c) : TRUE) = d
        BY <4>2
      <4> QED
        BY <2>1, <4>1, <4>3, IndexEntryType
    <3> QED
      BY <3>1 DEF DisconnectCount, TypedChain, TypeOK
  <2>3. pkIndex' \subseteq Keys \X Heights \X Nat
    BY <2>1, PartyRowsType DEF DisconnectCount, TypedChain, TypeOK
  <2>4. imbalance' \in [Keys -> Int]
    <3>1. Len(Effects(c)) \in Int
      BY EffectsLength
    <3>2. \A k \in Keys : Net(Effects(c), k, 1, Len(Effects(c))) \in Int
      BY <3>1, NetType
    <3> QED
      BY <3>2 DEF DisconnectCount, TypedChain, TypeOK
  <2>5. heightIndex' \in [Heights -> Counts \cup {NoCount}]
    BY <1>1 DEF DisconnectCount, TypedChain, TypeOK
  <2>6. branchType' \in [Counts -> {"MAIN", "SIDE", "UNKNOWN"}]
    BY DEF DisconnectCount, TypedChain, TypeOK
  <2> QED
    BY <1>1, <1>2, <2>2, <2>3, <2>4, <2>5, <2>6 DEF TypeOK
<1>4. ChainIndexed'
  <2> SUFFICES ASSUME NEW h \in Heights
               PROVE  heightIndex'[h] = IF h <= Height(Previous(c))
                                          THEN CountAt(Previous(c), h) ELSE NoCount
    BY <1>2 DEF ChainIndexed
  <2>1. heightIndex'[h] = IF h = Height(c) THEN NoCount ELSE heightIndex[h]
    BY <1>1 DEF DisconnectCount, TypedChain, TypeOK
  <2>2. heightIndex[h] = IF h <= Height(c) THEN CountAt(c, h) ELSE NoCount
    BY <1>2 DEF TypedChain, ChainIndexed
  <2>3. CASE h = Height(c)
    BY <1>1, <2>1, <2>3
  <2>4. CASE h # Height(c)
    <3>1. h <= Height(Previous(c)) <=> h <= Height(c)
      BY <1>1, <2>4
    <3>2. ASSUME h <= Height(c) PROVE CountAt(c, h) = CountAt(Previous(c), h)
      BY <1>1, <3>1, <3>2
    <3> QED
      BY <2>1, <2>2, <2>4, <3>1, <3>2
  <2> QED
    BY <2>3, <2>4
<1> QED
  BY <1>3, <1>4 DEF TypedChain

(* Every operation keeps types and chain. *)
LEMMA TypedChainStep == TypedChain /\ [LedgerNext]_ledgerVars => TypedChain'
<1> SUFFICES ASSUME TypedChain, [LedgerNext]_ledgerVars PROVE TypedChain'
  OBVIOUS
<1>1. ASSUME NEW c \in Counts \ {Genesis}, ConnectCount(c) PROVE TypedChain'
  BY <1>1, TypedChainConnect
<1>2. ASSUME NEW c \in Counts \ {Genesis}, DisconnectCount(c) PROVE TypedChain'
  BY <1>2, TypedChainDisconnect
<1>3. ASSUME NEW c \in Counts, SetBranchType(c) PROVE TypedChain'
  BY <1>3 DEF SetBranchType, TypedChain, TypeOK, ChainIndexed
<1>4. ASSUME UNCHANGED ledgerVars PROVE TypedChain'
  BY <1>4 DEF ledgerVars, TypedChain, TypeOK, ChainIndexed
<1> QED
  BY <1>1, <1>2, <1>3, <1>4 DEF LedgerNext

(* The tables are well typed and the height index lists the branch of the   *)
(* tip after any sequence of ConnectCount, DisconnectCount, SetBranchType.  *)
THEOREM ChainIsIndexed == LedgerSpec => [](TypeOK /\ ChainIndexed)
<1>1. LedgerSpec => []TypedChain
  BY TypedChainInit, TypedChainStep, PTL DEF LedgerSpec
<1>2. TypedChain <=> TypeOK /\ ChainIndexed
  BY DEF TypedChain
<1> QED
  BY <1>1, <1>2, PTL

-----------------------------------------------------------------------------
(* The index window is long enough. *)

(* The count at a height of a branch has that height. *)
LEMMA HeightOfCountAt ==
    ASSUME NEW c \in Counts, NEW h \in 0 .. Height(c)
    PROVE  CountAt(c, h) \in Counts /\ Height(CountAt(c, h)) = h
<1>1. /\ Path[c] \in Seq(Counts)
      /\ Len(Path[c]) \in Nat /\ Len(Path[c]) = Height(c) + 1 /\ Height(c) \in Nat
      /\ CountAt(c, h) \in Counts
  BY BranchOfCount, PathAssumption
<1>2. h + 1 \in 1 .. Len(Path[c])
  BY <1>1
<1>3. Path[CountAt(c, h)] = SubSeq(Path[c], 1, h + 1)
  BY <1>2, PathAssumption DEF CountAt
<1>4. Len(Path[CountAt(c, h)]) = h + 1
  BY <1>1, <1>2, <1>3
<1> QED
  BY <1>1, <1>4 DEF Height

(* Quotient and rest, for the series of a height. *)
LEMMA Division ==
    ASSUME NEW h \in Nat, NEW s \in Nat \ {0}
    PROVE  h \div s \in Nat /\ s * (h \div s) <= h /\ h < s * (h \div s) + s
  OBVIOUS

(* A consideration is not acceptable at two heights that are two series or  *)
(* more apart: its series is the one of the height or the one before.       *)
LEMMA SeriesWindow ==
    ASSUME NEW c \in Counts, NEW d \in Counts, NEW x,
           x \in Confirms(c), x \in Confirms(d)
    PROVE  Height(c) < Height(d) + 2 * COUNTS_UNTIL_NEW_SERIES
<1> DEFINE s == COUNTS_UNTIL_NEW_SERIES
           p == Height(c) \div s
           q == Height(d) \div s
<1>1. s \in Nat \ {0} /\ Height(c) \in Nat /\ Height(d) \in Nat
  BY SeriesLengthAssumption, BranchOfCount
<1>2. x \in Considerations /\ Series[x] \in Nat
  BY BodyAssumption, SeriesAssumption DEF CheckCount, Confirms, Positions
<1>3. /\ CheckConsiderationSeries(IsCounterPoint(x), Series[x], Height(c))
      /\ CheckConsiderationSeries(IsCounterPoint(x), Series[x], Height(d))
  BY SeriesAssumption
<1>4. p \in Nat /\ q \in Nat
  BY <1>1, Division
<1>5. p <= q + 1
  BY <1>2, <1>3, <1>4 DEF CheckConsiderationSeries, LowestSeries, SeriesAt
<1>6. Height(c) < s * p + s /\ s * q <= Height(d)
  BY <1>1, Division
<1> HIDE DEF s, p, q
<1>7. s * p <= s * (q + 1)
  BY <1>1, <1>4, <1>5
<1>8. s * (q + 1) = s * q + s
  BY <1>1, <1>4
<1>9. s * p \in Nat /\ s * q \in Nat /\ s * (q + 1) \in Nat
  BY <1>1, <1>4
<1> QED
  BY <1>1, <1>6, <1>7, <1>8, <1>9 DEF s

-----------------------------------------------------------------------------
(* The consideration index is exact and no consideration is confirmed       *)
(* twice.  Neither is inductive alone: the exact index makes the check of   *)
(* ConnectCount complete inside the window, the series make it complete     *)
(* outside, and pruning deletes the right rows only because a consideration *)
(* is at one place of the branch.                                           *)

(* The second one: the index is exact, and so its look-up finds what is     *)
(* confirmed already.                                                       *)
ExactIndex == TypedChain /\ ConsiderationsIndexed /\ NoDoubleConfirmation

(* The facts about a count on top of another that the steps below share.    *)
LEMMA StepFacts ==
    ASSUME NEW c \in Counts, c # Genesis
    PROVE  /\ Height(c) \in Nat /\ Height(Previous(c)) \in Nat
           /\ Height(c) = Height(Previous(c)) + 1
           /\ Previous(c) \in Counts
           /\ CountAt(c, Height(c)) = c
           /\ \A h \in 0 .. Height(Previous(c)) :
                 CountAt(c, h) = CountAt(Previous(c), h)
           /\ COUNTS_UNTIL_NEW_SERIES \in Nat \ {0}
           /\ 2 * COUNTS_UNTIL_NEW_SERIES \in Nat \ {0}
           /\ Prune \in BOOLEAN
  BY BranchOfCount, PreviousOfCount, SeriesLengthAssumption, ParameterAssumption

(* What leaves the window is the count two series below, if there is one.   *)
LEMMA ExpiringIs ==
    ASSUME ChainIndexed, NEW c \in Counts, c # Genesis,
           tip = c \/ tip = Previous(c)
    PROVE  LET e == Height(c) - 2 * COUNTS_UNTIL_NEW_SERIES IN
           Expiring(c) = IF Prune /\ e >= 0 THEN {CountAt(c, e)} ELSE {}
<1> DEFINE e == Height(c) - 2 * COUNTS_UNTIL_NEW_SERIES
<1>1. ASSUME e >= 0
      PROVE  heightIndex[e] = CountAt(c, e)
  <2>1. e \in 0 .. Height(Previous(c)) /\ e <= Height(c)
    BY <1>1, StepFacts
  <2>2. e \in Heights
    <3>1. Height(c) \in 0 .. MaxHeight /\ MaxHeight \in Nat
      BY BranchOfCount, PathAssumption DEF Heights
    <3>2. e \in Nat
      BY <1>1, StepFacts
    <3> QED
      BY <2>1, <3>1, <3>2 DEF Heights
  <2>3. heightIndex[e] = CountAt(tip, e)
    BY <2>1, <2>2, StepFacts DEF ChainIndexed
  <2> QED
    BY <2>1, <2>3, StepFacts
<1>2. Height(c) >= 2 * COUNTS_UNTIL_NEW_SERIES <=> e >= 0
  <2>1. Height(c) \in Nat /\ 2 * COUNTS_UNTIL_NEW_SERIES \in Nat
    BY StepFacts
  <2> QED
    BY <2>1
<1> QED
  BY <1>1, <1>2 DEF Expiring

(* The index after the genesis count. *)
LEMMA ExactIndexInit == LedgerInit => ExactIndex
<1> SUFFICES ASSUME LedgerInit PROVE ExactIndex
  OBVIOUS
<1>1. /\ tip = Genesis /\ Genesis \in Counts /\ Height(Genesis) = 0
      /\ CountAt(Genesis, 0) = Genesis
  BY BranchOfCount, PathAssumption DEF LedgerInit
<1>2. IndexedHeights = {0}
  <2>1. 0 > 0 - 2 * COUNTS_UNTIL_NEW_SERIES
    BY SeriesLengthAssumption
  <2> QED
    BY <1>1, <2>1 DEF IndexedHeights
<1>3. ConsiderationsIndexed
  BY <1>1, <1>2 DEF ConsiderationsIndexed, LedgerInit
<1>4. NoDoubleConfirmation
  BY <1>1 DEF NoDoubleConfirmation
<1> QED
  BY <1>3, <1>4, TypedChainInit DEF ExactIndex

(* Connecting prunes what leaves the window, and nothing the count confirms *)
(* was confirmed before.                                                    *)
LEMMA ExactIndexConnect ==
    ASSUME ExactIndex, NEW c \in Counts \ {Genesis}, ConnectCount(c)
    PROVE  ExactIndex'
<1> DEFINE W == 2 * COUNTS_UNTIL_NEW_SERIES
           e == Height(c) - W
<1>1. TypedChain /\ ConsiderationsIndexed /\ NoDoubleConfirmation /\ ChainIndexed
  BY DEF ExactIndex, TypedChain
<1>2. tip = Previous(c) /\ tip' = c /\ Unprocessed(c)
  BY DEF ConnectCount
<1>3. NoDoubleConfirmation'
  <2>1. ASSUME NEW g \in 0 .. Height(Previous(c)), NEW x,
               x \in Confirms(CountAt(c, g)), x \in Confirms(c)
        PROVE  FALSE
    <3>1. CountAt(c, g) \in Counts /\ Height(CountAt(c, g)) = g
      BY StepFacts, HeightOfCountAt
    <3>2. Height(c) < g + W
      BY <2>1, <3>1, SeriesWindow
    <3>3. g \in IndexedHeights
      BY <1>2, <3>2, StepFacts DEF IndexedHeights
    <3>4. x \in Considerations
      BY <2>1, BodyAssumption DEF CheckCount, Confirms, Positions
    <3>5. x \in Confirms(CountAt(tip, g))
      BY <1>2, <2>1, StepFacts
    <3>6. PICK h \in IndexedHeights : /\ x \in Confirms(CountAt(tip, h))
                                     /\ cnIndex[x] = IndexEntry(CountAt(tip, h), x)
      BY <1>1, <3>3, <3>4, <3>5 DEF ConsiderationsIndexed
    <3>7. CountAt(tip, h) \in Counts
      BY <1>2, StepFacts, BranchOfCount DEF IndexedHeights
    <3>8. cnIndex[x] # NoEntry
      BY <3>6, <3>7, IndexEntryType, ParameterAssumption
    <3> QED
      BY <1>2, <2>1, <3>8 DEF Unprocessed
  <2>2. ASSUME NEW g \in 0 .. Height(c), NEW h \in 0 .. Height(c), g # h
        PROVE  Confirms(CountAt(c, g)) \cap Confirms(CountAt(c, h)) = {}
    <3>1. CASE g # Height(c) /\ h # Height(c)
      <4>1. g \in 0 .. Height(Previous(c)) /\ h \in 0 .. Height(Previous(c))
        BY <3>1, StepFacts
      <4> QED
        BY <1>1, <1>2, <2>2, <4>1, StepFacts DEF NoDoubleConfirmation
    <3>2. CASE h = Height(c)
      <4>1. g \in 0 .. Height(Previous(c)) /\ CountAt(c, h) = c
        BY <2>2, <3>2, StepFacts
      <4> QED
        BY <2>1, <4>1
    <3>3. CASE g = Height(c)
      <4>1. h \in 0 .. Height(Previous(c)) /\ CountAt(c, g) = c
        BY <2>2, <3>3, StepFacts
      <4> QED
        BY <2>1, <4>1
    <3> QED
      BY <3>1, <3>2, <3>3
  <2> QED
    BY <1>2, <2>2 DEF NoDoubleConfirmation
<1>4. ConsiderationsIndexed'
  <2> DEFINE S == {h \in 0 .. Height(c) : Prune => h > Height(c) - W}
  <2> SUFFICES ASSUME NEW x \in Considerations
               PROVE  IF \E h \in S : x \in Confirms(CountAt(c, h))
                        THEN \E h \in S : /\ x \in Confirms(CountAt(c, h))
                                          /\ cnIndex'[x] = IndexEntry(CountAt(c, h), x)
                        ELSE cnIndex'[x] = NoEntry
    BY <1>2 DEF ConsiderationsIndexed, IndexedHeights
  <2>1. cnIndex'[x] = IF IndexedIn(Expiring(c), x) THEN NoEntry
                      ELSE IF x \in Confirms(c) THEN IndexEntry(c, x)
                      ELSE cnIndex[x]
    BY DEF ConnectCount
  <2>2. Expiring(c) = IF Prune /\ e >= 0 THEN {CountAt(c, e)} ELSE {}
    BY <1>1, <1>2, ExpiringIs
  <2>3. \A g, h \in 0 .. Height(c) :
           g # h => Confirms(CountAt(c, g)) \cap Confirms(CountAt(c, h)) = {}
    BY <1>2, <1>3 DEF NoDoubleConfirmation
  <2>4. CASE IndexedIn(Expiring(c), x)
    <3>1. Prune /\ e >= 0 /\ x \in Confirms(CountAt(c, e))
      BY <2>2, <2>4 DEF IndexedIn
    <3>2. e \in 0 .. Height(c) /\ \A h \in S : h \in 0 .. Height(c) /\ h # e
      <4>1. Height(c) \in Nat /\ W \in Nat
        BY StepFacts
      <4> QED
        BY <3>1, <4>1
    <3>3. ~ \E h \in S : x \in Confirms(CountAt(c, h))
      BY <2>3, <3>1, <3>2
    <3> QED
      BY <2>1, <2>4, <3>3
  <2>5. CASE ~IndexedIn(Expiring(c), x) /\ x \in Confirms(c)
    <3>1. Height(c) \in S /\ CountAt(c, Height(c)) = c
      BY StepFacts
    <3> QED
      BY <2>1, <2>5, <3>1
  <2>6. CASE ~IndexedIn(Expiring(c), x) /\ x \notin Confirms(c)
    <3>1. \A h \in S : x \in Confirms(CountAt(c, h)) =>
             h \in IndexedHeights /\ CountAt(c, h) = CountAt(tip, h)
      BY <1>2, <2>6, StepFacts DEF IndexedHeights
    <3>2. \A h \in IndexedHeights : x \in Confirms(CountAt(tip, h)) =>
             h \in S /\ CountAt(c, h) = CountAt(tip, h)
      <4> SUFFICES ASSUME NEW h \in IndexedHeights, x \in Confirms(CountAt(tip, h))
                   PROVE  h \in S /\ CountAt(c, h) = CountAt(tip, h)
        OBVIOUS
      <4>1. h \in 0 .. Height(Previous(c)) /\ (Prune => h >= e)
        BY <1>2, StepFacts DEF IndexedHeights
      <4>2. CountAt(c, h) = CountAt(tip, h)
        BY <1>2, <4>1, StepFacts
      <4>3. ~(Prune /\ h = e)
        BY <2>2, <2>6, <4>1, <4>2, StepFacts DEF IndexedIn
      <4> QED
        BY <4>1, <4>2, <4>3, StepFacts
    <3>3. cnIndex'[x] = cnIndex[x]
      BY <2>1, <2>6
    <3> QED
      BY <1>1, <3>1, <3>2, <3>3 DEF ConsiderationsIndexed
  <2> QED
    BY <2>4, <2>5, <2>6
<1> QED
  BY <1>1, <1>3, <1>4, TypedChainConnect DEF ExactIndex

(* Disconnecting restores what returns to the window. *)
LEMMA ExactIndexDisconnect ==
    ASSUME ExactIndex, NEW c \in Counts \ {Genesis}, DisconnectCount(c)
    PROVE  ExactIndex'
<1> DEFINE W == 2 * COUNTS_UNTIL_NEW_SERIES
           e == Height(c) - W
           p == Previous(c)
<1>1. TypedChain /\ ConsiderationsIndexed /\ NoDoubleConfirmation /\ ChainIndexed
  BY DEF ExactIndex, TypedChain
<1>2. tip = c /\ tip' = p
  BY DEF DisconnectCount
<1>3. /\ \A h \in 0 .. Height(p) : h \in 0 .. Height(c) /\ CountAt(p, h) = CountAt(c, h)
      /\ Height(c) \in Nat /\ Height(p) \in Nat /\ Height(c) = Height(p) + 1 /\ W \in Nat \ {0}
      /\ CountAt(c, Height(c)) = c
  BY StepFacts
<1>4. \A g, h \in 0 .. Height(c) :
         g # h => Confirms(CountAt(c, g)) \cap Confirms(CountAt(c, h)) = {}
  BY <1>1, <1>2 DEF NoDoubleConfirmation
<1>5. NoDoubleConfirmation'
  BY <1>2, <1>3, <1>4 DEF NoDoubleConfirmation
<1>6. ConsiderationsIndexed'
  <2> DEFINE S == {h \in 0 .. Height(p) : Prune => h > Height(p) - W}
  <2> SUFFICES ASSUME NEW x \in Considerations
               PROVE  IF \E h \in S : x \in Confirms(CountAt(p, h))
                        THEN \E h \in S : /\ x \in Confirms(CountAt(p, h))
                                          /\ cnIndex'[x] = IndexEntry(CountAt(p, h), x)
                        ELSE cnIndex'[x] = NoEntry
    BY <1>2 DEF ConsiderationsIndexed, IndexedHeights
  <2>1. cnIndex'[x] = IF IndexedIn(Expiring(c), x)
                        THEN IndexEntry(CHOOSE d \in Expiring(c) : TRUE, x)
                      ELSE IF x \in Confirms(c) THEN NoEntry
                      ELSE cnIndex[x]
    BY DEF DisconnectCount
  <2>2. Expiring(c) = IF Prune /\ e >= 0 THEN {CountAt(c, e)} ELSE {}
    BY <1>1, <1>2, ExpiringIs
  <2>3. CASE IndexedIn(Expiring(c), x)
    <3>1. Prune /\ e >= 0 /\ x \in Confirms(CountAt(c, e)) /\ Expiring(c) = {CountAt(c, e)}
      BY <2>2, <2>3 DEF IndexedIn
    <3>2. e \in S /\ CountAt(p, e) = CountAt(c, e)
      BY <1>3, <3>1
    <3>3. cnIndex'[x] = IndexEntry(CountAt(p, e), x)
      BY <2>1, <2>3, <3>1, <3>2
    <3> QED
      BY <3>1, <3>2, <3>3
  <2>4. CASE ~IndexedIn(Expiring(c), x) /\ x \in Confirms(c)
    <3>1. \A h \in S : x \notin Confirms(CountAt(p, h))
      <4>1. \A h \in 0 .. Height(p) : h # Height(c)
        BY <1>3
      <4> QED
        BY <1>3, <1>4, <2>4, <4>1
    <3> QED
      BY <2>1, <2>4, <3>1
  <2>5. CASE ~IndexedIn(Expiring(c), x) /\ x \notin Confirms(c)
    <3>1. \A h \in S : x \in Confirms(CountAt(p, h)) =>
             h \in IndexedHeights /\ CountAt(p, h) = CountAt(tip, h)
      <4> SUFFICES ASSUME NEW h \in S, x \in Confirms(CountAt(p, h))
                   PROVE  h \in IndexedHeights /\ CountAt(p, h) = CountAt(tip, h)
        OBVIOUS
      <4>1. h \in 0 .. Height(c) /\ CountAt(p, h) = CountAt(c, h) /\ (Prune => h >= e)
        BY <1>3
      <4>2. ~(Prune /\ h = e)
        BY <2>2, <2>5, <4>1, <1>3 DEF IndexedIn
      <4> QED
        BY <1>2, <1>3, <4>1, <4>2, StepFacts DEF IndexedHeights
    <3>2. \A h \in IndexedHeights : x \in Confirms(CountAt(tip, h)) =>
             h \in S /\ CountAt(p, h) = CountAt(tip, h)
      <4> SUFFICES ASSUME NEW h \in IndexedHeights, x \in Confirms(CountAt(tip, h))
                   PROVE  h \in S /\ CountAt(p, h) = CountAt(tip, h)
        OBVIOUS
      <4>1. h \in 0 .. Height(c) /\ (Prune => h > e)
        BY <1>2 DEF IndexedHeights
      <4>2. h # Height(c)
        BY <1>2, <1>3, <2>5
      <4> QED
        BY <1>2, <1>3, <4>1, <4>2
    <3>3. cnIndex'[x] = cnIndex[x]
      BY <2>1, <2>5
    <3> QED
      BY <1>1, <3>1, <3>2, <3>3 DEF ConsiderationsIndexed
  <2> QED
    BY <2>3, <2>4, <2>5
<1> QED
  BY <1>1, <1>5, <1>6, TypedChainDisconnect DEF ExactIndex

(* Every operation keeps the index exact. *)
LEMMA ExactIndexStep == ExactIndex /\ [LedgerNext]_ledgerVars => ExactIndex'
<1> SUFFICES ASSUME ExactIndex, [LedgerNext]_ledgerVars PROVE ExactIndex'
  OBVIOUS
<1>1. ASSUME NEW c \in Counts \ {Genesis}, ConnectCount(c) PROVE ExactIndex'
  BY <1>1, ExactIndexConnect
<1>2. ASSUME NEW c \in Counts \ {Genesis}, DisconnectCount(c) PROVE ExactIndex'
  BY <1>2, ExactIndexDisconnect
<1>3. ASSUME UNCHANGED <<tip, cnIndex>> PROVE ExactIndex'
  <2>1. ConsiderationsIndexed' /\ NoDoubleConfirmation'
    BY <1>3 DEF ExactIndex, ConsiderationsIndexed, IndexedHeights, NoDoubleConfirmation
  <2> QED
    BY <2>1, TypedChainStep DEF ExactIndex
<1>4. ASSUME NEW c \in Counts, SetBranchType(c) PROVE ExactIndex'
  BY <1>3, <1>4 DEF SetBranchType
<1>5. ASSUME UNCHANGED ledgerVars PROVE ExactIndex'
  BY <1>3, <1>5 DEF ledgerVars
<1> QED
  BY <1>1, <1>2, <1>4, <1>5 DEF LedgerNext

(* ConnectCount's comment says that indices older than the previous series  *)
(* can safely be pruned: with or without -prune, for every series length,   *)
(* no consideration is ever confirmed twice on the branch of the tip.       *)
THEOREM ConfirmedOnce == LedgerSpec => []NoDoubleConfirmation
<1>1. LedgerSpec => []ExactIndex
  BY ExactIndexInit, ExactIndexStep, PTL DEF LedgerSpec
<1>2. ExactIndex => NoDoubleConfirmation
  BY DEF ExactIndex
<1> QED
  BY <1>1, <1>2, PTL

(* The consideration index holds the considerations of the branch inside    *)
(* the pruning window and nothing else, through any number of reorgs.       *)
THEOREM IndexIsExact == LedgerSpec => []ConsiderationsIndexed
<1>1. LedgerSpec => []ExactIndex
  BY ExactIndexInit, ExactIndexStep, PTL DEF LedgerSpec
<1>2. ExactIndex => ConsiderationsIndexed
  BY DEF ExactIndex
<1> QED
  BY <1>1, <1>2, PTL

(* The tables hold rows of their kinds: what encodeNumber, the keys and the *)
(* branch types are read back as.  It rests on the height index, which the  *)
(* pruning and the maturing read counts from.                               *)
THEOREM TablesTyped == LedgerSpec => []TypeOK
<1>1. TypeOK /\ ChainIndexed => TypeOK
  OBVIOUS
<1> QED
  BY <1>1, ChainIsIndexed, PTL

-----------------------------------------------------------------------------
(* The key index *)

(* The third one: the rows of the parties are exact. *)
IndexedParties == TypedChain /\ PartiesIndexed

(* The heights the indices are kept for, when the tip is c. *)
WindowOf(c) == {h \in 0 .. Height(c) : Prune => h > Height(c) - 2 * COUNTS_UNTIL_NEW_SERIES}

(* The rows of those heights. *)
RowsIn(c) == UNION {PartyRows(CountAt(c, h)) : h \in WindowOf(c)}

(* A row tells the height of its count. *)
LEMMA HeightOfRow ==
    ASSUME NEW c \in Counts, NEW h \in 0 .. Height(c), NEW r \in PartyRows(CountAt(c, h))
    PROVE  r[2] = h
BY HeightOfCountAt DEF PartyRows

(* What the window of a count adds to the one of its previous count, and    *)
(* what leaves it.                                                          *)
LEMMA RowsOfCount ==
    ASSUME ChainIndexed, NEW c \in Counts, c # Genesis, tip = c \/ tip = Previous(c)
    PROVE  LET expiring == UNION {PartyRows(d) : d \in Expiring(c)} IN
           /\ RowsIn(c) = (RowsIn(Previous(c)) \cup PartyRows(c)) \ expiring
           /\ RowsIn(Previous(c)) = (RowsIn(c) \ PartyRows(c)) \cup expiring
<1> DEFINE p == Previous(c)
           W == 2 * COUNTS_UNTIL_NEW_SERIES
           e == Height(c) - W
           expiring == UNION {PartyRows(d) : d \in Expiring(c)}
           row(h) == PartyRows(CountAt(c, h))
<1>1. /\ \A h \in 0 .. Height(p) : CountAt(p, h) = CountAt(c, h)
      /\ Height(c) \in Nat /\ Height(p) \in Nat /\ Height(c) = Height(p) + 1 /\ W \in Nat \ {0}
      /\ CountAt(c, Height(c)) = c /\ Prune \in BOOLEAN
  BY StepFacts
<1>2. Expiring(c) = IF Prune /\ e >= 0 THEN {CountAt(c, e)} ELSE {}
  BY ExpiringIs
<1>3. expiring = UNION {row(h) : h \in {g \in {e} : Prune /\ e >= 0}}
  BY <1>2
<1>4. RowsIn(p) = UNION {row(h) : h \in WindowOf(p)}
  BY <1>1 DEF RowsIn, WindowOf
<1>5. RowsIn(c) = UNION {row(h) : h \in WindowOf(c)} /\ PartyRows(c) = row(Height(c))
  BY <1>1 DEF RowsIn
<1>6. \A h \in 0 .. Height(c) : \A r \in row(h) : r[2] = h
  BY HeightOfRow
<1>7. /\ WindowOf(p) \subseteq 0 .. Height(p) /\ WindowOf(c) \subseteq 0 .. Height(c)
      /\ \A h \in 0 .. Height(c) :
            /\ h \in WindowOf(c) <=> (h \in WindowOf(p) \/ h = Height(c)) /\ ~(Prune /\ h = e)
            /\ h \in WindowOf(p) <=> (h \in WindowOf(c) /\ h # Height(c)) \/ (Prune /\ h = e)
      /\ e >= 0 => e \in 0 .. Height(p)
      /\ 0 .. Height(p) \subseteq 0 .. Height(c) /\ Height(c) \in 0 .. Height(c)
  BY <1>1 DEF WindowOf
<1> HIDE DEF row, expiring, p, e
<1>8. RowsIn(c) = (RowsIn(p) \cup PartyRows(c)) \ expiring
  BY <1>3, <1>4, <1>5, <1>6, <1>7 DEF e
<1>9. RowsIn(p) = (RowsIn(c) \ PartyRows(c)) \cup expiring
  BY <1>3, <1>4, <1>5, <1>6, <1>7 DEF e
<1> QED
  BY <1>8, <1>9 DEF p, expiring

(* The rows after the genesis count. *)
LEMMA IndexedPartiesInit == LedgerInit => IndexedParties
<1> SUFFICES ASSUME LedgerInit PROVE IndexedParties
  OBVIOUS
<1>1. /\ tip = Genesis /\ Genesis \in Counts /\ Height(Genesis) = 0
      /\ CountAt(Genesis, 0) = Genesis
  BY BranchOfCount, PathAssumption DEF LedgerInit
<1>2. IndexedHeights = {0}
  <2>1. 0 > 0 - 2 * COUNTS_UNTIL_NEW_SERIES
    BY SeriesLengthAssumption
  <2> QED
    BY <1>1, <2>1 DEF IndexedHeights
<1> QED
  BY <1>1, <1>2, TypedChainInit DEF IndexedParties, PartiesIndexed, LedgerInit

(* Every operation keeps the rows exact. *)
LEMMA IndexedPartiesStep == IndexedParties /\ [LedgerNext]_ledgerVars => IndexedParties'
<1> SUFFICES ASSUME IndexedParties, [LedgerNext]_ledgerVars PROVE IndexedParties'
  OBVIOUS
<1>1. TypedChain /\ TypedChain' /\ ChainIndexed
  BY TypedChainStep DEF IndexedParties, TypedChain
<1>2. PartiesIndexed <=> pkIndex = RowsIn(tip)
  BY DEF PartiesIndexed, IndexedHeights, RowsIn, WindowOf
<1>3. PartiesIndexed' <=> pkIndex' = RowsIn(tip')
  BY DEF PartiesIndexed, IndexedHeights, RowsIn, WindowOf
<1>4. pkIndex = RowsIn(tip)
  BY <1>2 DEF IndexedParties
<1>5. ASSUME NEW c \in Counts \ {Genesis}, ConnectCount(c) PROVE pkIndex' = RowsIn(tip')
  BY <1>1, <1>4, <1>5, RowsOfCount DEF ConnectCount
<1>6. ASSUME NEW c \in Counts \ {Genesis}, DisconnectCount(c) PROVE pkIndex' = RowsIn(tip')
  BY <1>1, <1>4, <1>6, RowsOfCount DEF DisconnectCount
<1>7. ASSUME NEW c \in Counts, SetBranchType(c) PROVE pkIndex' = RowsIn(tip')
  BY <1>4, <1>7 DEF SetBranchType
<1>8. ASSUME UNCHANGED ledgerVars PROVE pkIndex' = RowsIn(tip')
  BY <1>4, <1>8 DEF ledgerVars
<1> QED
  BY <1>1, <1>3, <1>5, <1>6, <1>7, <1>8 DEF LedgerNext, IndexedParties

(* The rows k of the keys are those of the branch inside the window, and no *)
(* others: pruneIndices and restoreIndices undo each other for the key rows *)
(* as for the considerations, through every reorg.                          *)
THEOREM PartiesAreExact == LedgerSpec => []PartiesIndexed
<1>1. LedgerSpec => []IndexedParties
  BY IndexedPartiesInit, IndexedPartiesStep, PTL DEF LedgerSpec
<1>2. IndexedParties => PartiesIndexed
  BY DEF IndexedParties
<1> QED
  BY <1>1, <1>2, PTL


-----------------------------------------------------------------------------
(* Finite sets of naturals, and what a stretch of a list brings a key       *)

(* The last place of a list that has some property. *)
LEMMA LastIn ==
    ASSUME NEW n \in Nat, NEW T \in SUBSET (1 .. n), T # {}
    PROVE  \E m \in T : \A i \in T : i <= m
<1> DEFINE above == {j \in Nat : n - j \in T}
<1>1. above # {}
  <2>1. PICK i \in T : TRUE
    OBVIOUS
  <2>2. n - i \in above /\ n - (n - i) = i
    BY <2>1
  <2> QED
    BY <2>2
<1>2. PICK j \in above : \A i \in above : ~ (<<i, j>> \in OpToRel(<, Nat))
  BY <1>1, NatLessThanWellFounded, WFMin
<1>3. \A i \in above : ~ (i < j)
  BY <1>2 DEF OpToRel
<1>4. ASSUME NEW i \in T PROVE i <= n - j
  <2>1. n - i \in above
    BY <1>4
  <2>2. ~ (n - i < j)
    BY <1>3, <2>1
  <2> QED
    BY <2>2, <1>4
<1> QED
  BY <1>4

(* A set of numbers has a least one. *)
LEMMA LeastIn ==
    ASSUME NEW T \in SUBSET Nat, T # {}
    PROVE  \E i \in T : \A j \in T : i <= j
<1>1. PICK t \in T : TRUE
  OBVIOUS
<1> DEFINE S == {i \in 1 .. t + 1 : t + 1 - i \in T}
<1>2. t \in Nat /\ t + 1 \in Nat /\ 1 \in S
  OBVIOUS
<1>3. PICK m \in S : \A i \in S : i <= m
  <2>1. S \in SUBSET (1 .. t + 1) /\ S # {}
    BY <1>2
  <2> QED
    BY <1>2, <2>1, LastIn
<1>4. t + 1 - m \in T /\ m \in 1 .. t + 1
  BY <1>3
<1>5. ASSUME NEW j \in T PROVE t + 1 - m <= j
  <2>1. CASE j > t
    BY <1>2, <1>4, <2>1
  <2>2. CASE j <= t
    <3>1. t + 1 - j \in 1 .. t + 1 /\ t + 1 - (t + 1 - j) = j
      BY <1>2, <2>2
    <3>2. t + 1 - j \in S
      BY <3>1
    <3>3. t + 1 - j <= m
      BY <1>3, <3>2
    <3> QED
      BY <1>2, <1>4, <3>3
  <2> QED
    BY <1>2, <2>1, <2>2
<1> QED
  BY <1>4, <1>5

(* What holds at 0 and passes from each number to the next holds up to n.   *)
LEMMA UpTo ==
    ASSUME NEW n \in Nat, NEW T \in SUBSET (0 .. n), 0 \in T,
           \A i \in 1 .. n : i - 1 \in T => i \in T
    PROVE  T = 0 .. n
<1> SUFFICES ASSUME (0 .. n) \ T # {} PROVE FALSE
  OBVIOUS
<1> DEFINE U == (0 .. n) \ T
<1>1. PICK i \in U : \A j \in U : i <= j
  <2>1. U \in SUBSET Nat /\ U # {}
    OBVIOUS
  <2> HIDE DEF U
  <2> QED
    BY <2>1, LeastIn
<1>2. i \in 1 .. n
  BY <1>1
<1>3. i - 1 \in 0 .. n /\ ~(i <= i - 1)
  BY <1>2
<1>4. i - 1 \in T
  BY <1>1, <1>3
<1> QED
  BY <1>1, <1>2, <1>4

(* The size of two sets without a common element. *)
LEMMA SizeOfParts ==
    ASSUME NEW S, NEW T, IsFiniteSet(S), IsFiniteSet(T), S \cap T = {}
    PROVE  /\ IsFiniteSet(S \cup T)
           /\ Cardinality(S \cup T) = Cardinality(S) + Cardinality(T)
           /\ Cardinality(S) \in Nat /\ Cardinality(T) \in Nat
<1>1. Cardinality(S) \in Nat /\ Cardinality(T) \in Nat /\ Cardinality(S \cap T) = 0
  BY FS_EmptySet, FS_CardinalityType
<1>2. IsFiniteSet(S \cup T)
      /\ Cardinality(S \cup T) = Cardinality(S) + Cardinality(T) - Cardinality(S \cap T)
  BY FS_Union
<1> QED
  BY <1>1, <1>2

(* The units of a list are those of its first part and of its second. *)
LEMMA NetOfParts ==
    ASSUME NEW s, NEW k, NEW n \in Nat, NEW i \in 0 .. n
    PROVE  Net(s, k, 1, n) = Net(s, k, 1, i) + Net(s, k, i + 1, n)
<1> DEFINE to(lo, hi) == {j \in lo .. hi : For[s[j]] = k}
           of(lo, hi) == {j \in lo .. hi : By[s[j]] = k}
<1>1. IsFiniteSet(1 .. i) /\ IsFiniteSet(i + 1 .. n)
  BY FS_Interval
<1>2. /\ IsFiniteSet(to(1, i)) /\ IsFiniteSet(to(i + 1, n))
      /\ IsFiniteSet(of(1, i)) /\ IsFiniteSet(of(i + 1, n))
  BY <1>1, FS_Subset
<1>3. 1 .. n = (1 .. i) \cup (i + 1 .. n) /\ (1 .. i) \cap (i + 1 .. n) = {}
  OBVIOUS
<1>4. /\ to(1, n) = to(1, i) \cup to(i + 1, n) /\ to(1, i) \cap to(i + 1, n) = {}
      /\ of(1, n) = of(1, i) \cup of(i + 1, n) /\ of(1, i) \cap of(i + 1, n) = {}
  BY <1>3
<1> HIDE DEF to, of
<1>5. /\ Cardinality(to(1, n)) = Cardinality(to(1, i)) + Cardinality(to(i + 1, n))
      /\ Cardinality(of(1, n)) = Cardinality(of(1, i)) + Cardinality(of(i + 1, n))
      /\ Cardinality(to(1, i)) \in Nat /\ Cardinality(to(i + 1, n)) \in Nat
      /\ Cardinality(of(1, i)) \in Nat /\ Cardinality(of(i + 1, n)) \in Nat
  BY <1>2, <1>4, SizeOfParts
<1> QED
  BY <1>5 DEF Net, to, of

(* A consideration moves one unit. *)
LEMMA NetOfOne ==
    ASSUME NEW s, NEW k, NEW i \in Int
    PROVE  Net(s, k, i, i) = (IF For[s[i]] = k THEN 1 ELSE 0) - (IF By[s[i]] = k THEN 1 ELSE 0)
<1>1. i .. i = {i}
  OBVIOUS
<1>2. /\ {j \in i .. i : For[s[j]] = k} = IF For[s[i]] = k THEN {i} ELSE {}
      /\ {j \in i .. i : By[s[j]] = k} = IF By[s[i]] = k THEN {i} ELSE {}
  BY <1>1
<1> QED
  BY <1>2, FS_EmptySet, FS_Singleton DEF Net

(* Without a consideration from or for it, a key gains nothing.            *)
LEMMA NetOfNobody ==
    ASSUME NEW s, NEW k, NEW lo \in Int, NEW hi \in Int,
           \A j \in lo .. hi : By[s[j]] # k /\ For[s[j]] # k
    PROVE  Net(s, k, lo, hi) = 0
<1>1. {j \in lo .. hi : For[s[j]] = k} = {} /\ {j \in lo .. hi : By[s[j]] = k} = {}
  OBVIOUS
<1>2. Cardinality({}) = 0
  BY FS_EmptySet
<1> QED
  BY <1>1, <1>2 DEF Net

(* Where a key sends nothing it loses nothing. *)
LEMMA NetOfNoSender ==
    ASSUME NEW s, NEW k, NEW lo \in Int, NEW hi \in Int,
           \A j \in lo .. hi : By[s[j]] # k
    PROVE  Net(s, k, lo, hi) >= 0
<1>1. IsFiniteSet({j \in lo .. hi : For[s[j]] = k})
  BY FS_Interval, FS_Subset
<1>2. {j \in lo .. hi : By[s[j]] = k} = {}
  OBVIOUS
<1>3. Cardinality({j \in lo .. hi : For[s[j]] = k}) \in Nat
  BY <1>1, FS_CardinalityType
<1> QED
  BY <1>2, <1>3, FS_EmptySet DEF Net

-----------------------------------------------------------------------------
(* The balances of a branch *)

(* The considerations ConnectCount applies, told by the branch of the count *)
(* alone.                                                                   *)
EffectsOf(c) ==
    IF Height(c) >= COUNTERPOINT_MATURITY
      THEN <<Body[CountAt(c, Height(c) - COUNTERPOINT_MATURITY)][1]>> \o Tail(Body[c])
      ELSE Tail(Body[c])

(* Where each of them stands on the branch. *)
PlaceOf(c, i) ==
    IF Height(c) >= COUNTERPOINT_MATURITY
      THEN IF i = 1 THEN <<Height(c) - COUNTERPOINT_MATURITY, 1>> ELSE <<Height(c), i>>
      ELSE <<Height(c), i + 1>>

(* The consideration at a place of a branch. *)
At(c, p) == Body[CountAt(c, p[1])][p[2]]

(* The places whose units move when the count is connected. *)
NewlySettled(c) == {PlaceOf(c, i) : i \in 1 .. Len(EffectsOf(c))}

(* Every sender of the count has a unit when its turn comes, and no key is  *)
(* below zero in between.                                                   *)
Valid(c) ==
    \A k \in Keys, i \in 0 .. Len(EffectsOf(c)) :
        Balance(Previous(c), k) + Net(EffectsOf(c), k, 1, i) >= 0

(* The lengths and the heights of a count on top of another.                *)
LEMMA CountFacts ==
    ASSUME NEW c \in Counts
    PROVE  /\ Body[c] \in Seq(Considerations) /\ Len(Body[c]) \in Nat \ {0}
           /\ COUNTERPOINT_MATURITY \in Nat \ {0} /\ Height(c) \in Nat
           /\ \A h \in 0 .. Height(c) :
                 /\ CountAt(c, h) \in Counts
                 /\ Len(Body[CountAt(c, h)]) \in Nat \ {0}
                 /\ Body[CountAt(c, h)][1] \in Considerations
<1>1. ASSUME NEW d \in Counts
      PROVE  /\ Body[d] \in Seq(Considerations) /\ Len(Body[d]) \in Nat \ {0}
             /\ Body[d][1] \in Considerations
  <2>1. Body[d] \in Seq(Considerations) /\ Len(Body[d]) > 0
    BY BodyAssumption DEF CheckCount
  <2> QED
    BY <2>1
<1> QED
  BY <1>1, BranchOfCount, ParameterAssumption

(* What the code applies is what the branch says, as the height index is    *)
(* the branch of the tip.                                                   *)
LEMMA EffectsAre ==
    ASSUME ChainIndexed, NEW c \in Counts, c # Genesis, tip = c \/ tip = Previous(c)
    PROVE  Effects(c) = EffectsOf(c)
<1> DEFINE h == Height(c) - COUNTERPOINT_MATURITY
<1>1. ASSUME Height(c) >= COUNTERPOINT_MATURITY
      PROVE  heightIndex[h] = CountAt(c, h)
  <2>1. h \in 0 .. Height(Previous(c)) /\ h <= Height(c)
    BY <1>1, StepFacts, CountFacts
  <2>2. h \in Heights
    BY <2>1, StepFacts, BranchOfCount, PathAssumption DEF Heights
  <2>3. heightIndex[h] = CountAt(tip, h)
    BY <2>1, <2>2, StepFacts DEF ChainIndexed
  <2> QED
    BY <2>1, <2>3, StepFacts
<1> QED
  BY <1>1 DEF Effects, EffectsOf

(* Every consideration that is applied stands at its place of the branch. *)
LEMMA EffectsPlaces ==
    ASSUME NEW c \in Counts
    PROVE  /\ Len(EffectsOf(c)) \in Nat
           /\ Len(EffectsOf(c)) = IF Height(c) >= COUNTERPOINT_MATURITY
                                    THEN Len(Body[c]) ELSE Len(Body[c]) - 1
           /\ \A i \in 1 .. Len(EffectsOf(c)) :
                 /\ EffectsOf(c)[i] \in Considerations
                 /\ EffectsOf(c)[i] = At(c, PlaceOf(c, i))
<1> DEFINE h == Height(c) - COUNTERPOINT_MATURITY
           old == Body[CountAt(c, h)][1]
           rest == Tail(Body[c])
<1>1. /\ Body[c] \in Seq(Considerations) /\ Len(Body[c]) \in Nat \ {0} /\ Height(c) \in Nat
      /\ COUNTERPOINT_MATURITY \in Nat \ {0} /\ CountAt(c, Height(c)) = c
  BY CountFacts, BranchOfCount
<1>2. /\ rest \in Seq(Considerations) /\ Len(rest) = Len(Body[c]) - 1
      /\ \A i \in 1 .. Len(Body[c]) - 1 :
            rest[i] = Body[c][i + 1] /\ rest[i] \in Considerations
  BY <1>1
<1>3. CASE Height(c) >= COUNTERPOINT_MATURITY
  <2>1. old \in Considerations
    BY <1>1, <1>3, CountFacts
  <2> HIDE DEF old, rest
  <2>2. <<old>> \in Seq(Considerations) /\ Len(<<old>>) = 1 /\ <<old>>[1] = old
    BY <2>1
  <2>3. EffectsOf(c) = <<old>> \o rest
    BY <1>3 DEF EffectsOf, old, rest
  <2>4. /\ Len(<<old>> \o rest) = Len(Body[c])
        /\ (<<old>> \o rest)[1] = old
        /\ \A i \in 2 .. Len(Body[c]) : (<<old>> \o rest)[i] = rest[i - 1]
    BY <1>1, <1>2, <2>2
  <2>5. \A i \in 2 .. Len(Body[c]) :
           i - 1 \in 1 .. Len(Body[c]) - 1 /\ (i - 1) + 1 = i
    BY <1>1
  <2>6. \A i \in 2 .. Len(Body[c]) :
           EffectsOf(c)[i] = Body[c][i] /\ EffectsOf(c)[i] \in Considerations
    BY <1>2, <2>3, <2>4, <2>5
  <2>7. ASSUME NEW i \in 1 .. Len(Body[c])
        PROVE  EffectsOf(c)[i] \in Considerations /\ EffectsOf(c)[i] = At(c, PlaceOf(c, i))
    <3>1. CASE i = 1
      <4>1. PlaceOf(c, i) = <<h, 1>>
        BY <1>3, <3>1 DEF PlaceOf
      <4> QED
        BY <2>1, <2>3, <2>4, <3>1, <4>1 DEF At, old
    <3>2. CASE i # 1
      <4>1. PlaceOf(c, i) = <<Height(c), i>> /\ i \in 2 .. Len(Body[c])
        BY <1>3, <3>2 DEF PlaceOf
      <4> QED
        BY <1>1, <2>6, <4>1 DEF At
    <3> QED
      BY <3>1, <3>2
  <2> QED
    BY <1>1, <1>3, <2>3, <2>4, <2>7
<1>4. CASE ~ Height(c) >= COUNTERPOINT_MATURITY
  <2>1. EffectsOf(c) = rest
    BY <1>4 DEF EffectsOf
  <2>2. \A i \in 1 .. Len(rest) : PlaceOf(c, i) = <<Height(c), i + 1>>
    BY <1>4 DEF PlaceOf
  <2> QED
    BY <1>1, <1>2, <1>4, <2>1, <2>2 DEF At
<1> QED
  BY <1>3, <1>4

(* What has settled when c is the tip is what had settled below it, and its *)
(* effects.                                                                 *)
LEMMA SettledOfCount ==
    ASSUME NEW c \in Counts, c # Genesis
    PROVE  /\ Settled(c) = Settled(Previous(c)) \cup NewlySettled(c)
           /\ Settled(Previous(c)) \cap NewlySettled(c) = {}
           /\ \A p \in Settled(Previous(c)) : At(c, p) = At(Previous(c), p)
<1> DEFINE b == Previous(c)
           H == Height(c)
           M == COUNTERPOINT_MATURITY
           n(h) == Len(Body[CountAt(c, h)])
<1>1. /\ b \in Counts /\ H = Height(b) + 1 /\ H \in Nat /\ Height(b) \in Nat
      /\ \A h \in 0 .. Height(b) : CountAt(c, h) = CountAt(b, h)
      /\ CountAt(c, H) = c
  BY StepFacts
<1>2. M \in Nat \ {0} /\ \A h \in 0 .. H : n(h) \in Nat \ {0}
  BY CountFacts
<1>3. \A p : p \in Settled(c) <=>
               \E h \in 0 .. H : \E i \in 1 .. n(h) : p = <<h, i>> /\ (i = 1 => h + M <= H)
  BY DEF Settled, Positions
<1>4. \A p : p \in Settled(b) <=>
               \E h \in 0 .. Height(b) : \E i \in 1 .. n(h) :
                  p = <<h, i>> /\ (i = 1 => h + M <= Height(b))
  BY <1>1 DEF Settled, Positions
<1>5. \A p : p \in NewlySettled(c) <=>
               \/ H >= M /\ p = <<H - M, 1>>
               \/ \E i \in 2 .. n(H) : p = <<H, i>>
  <2>1. Len(EffectsOf(c)) = IF H >= M THEN n(H) ELSE n(H) - 1
    BY <1>1, EffectsPlaces
  <2>2. n(H) \in Nat \ {0}
    BY <1>1, <1>2
  <2> HIDE DEF n, H, M
  <2>3. CASE H >= M
    <3>1. \A p : p \in NewlySettled(c) <=>
                   \E i \in 1 .. n(H) : p = IF i = 1 THEN <<H - M, 1>> ELSE <<H, i>>
      BY <2>1, <2>3 DEF NewlySettled, PlaceOf, H, M
    <3>2. 1 .. n(H) = {1} \cup 2 .. n(H) /\ 1 \notin 2 .. n(H)
      BY <2>2
    <3> QED
      BY <2>3, <3>1, <3>2
  <2>4. CASE ~ H >= M
    <3>1. \A p : p \in NewlySettled(c) <=> \E i \in 1 .. n(H) - 1 : p = <<H, i + 1>>
      BY <2>1, <2>4 DEF NewlySettled, PlaceOf, H, M
    <3>2. /\ \A i \in 1 .. n(H) - 1 : i + 1 \in 2 .. n(H)
          /\ \A i \in 2 .. n(H) : i - 1 \in 1 .. n(H) - 1 /\ (i - 1) + 1 = i
      BY <2>2
    <3> QED
      BY <2>4, <3>1, <3>2
  <2> QED
    BY <2>3, <2>4
<1> HIDE DEF n, H, M, b
<1>6. ASSUME NEW p \in Settled(c) PROVE p \in Settled(b) \cup NewlySettled(c)
  <2>0. PICK h \in 0 .. H : \E i \in 1 .. n(h) : p = <<h, i>> /\ (i = 1 => h + M <= H)
    BY <1>3, <1>6
  <2>1. PICK i \in 1 .. n(h) : p = <<h, i>> /\ (i = 1 => h + M <= H)
    BY <2>0
  <2>2. CASE h = H
    BY <1>1, <1>2, <1>5, <2>1, <2>2
  <2>3. CASE h # H /\ (i = 1 => h + M <= Height(b))
    BY <1>1, <1>4, <2>1, <2>3
  <2>4. CASE h # H /\ i = 1 /\ ~ h + M <= Height(b)
    <3>1. h = H - M /\ H >= M
      BY <1>1, <1>2, <2>1, <2>4
    <3> QED
      BY <1>5, <2>1, <2>4, <3>1
  <2> QED
    BY <2>2, <2>3, <2>4
<1>7. ASSUME NEW p \in Settled(b) PROVE p \in Settled(c) /\ p \notin NewlySettled(c)
  <2>0. PICK h \in 0 .. Height(b) :
           \E i \in 1 .. n(h) : p = <<h, i>> /\ (i = 1 => h + M <= Height(b))
    BY <1>4, <1>7
  <2>1. PICK i \in 1 .. n(h) : p = <<h, i>> /\ (i = 1 => h + M <= Height(b))
    BY <2>0
  <2>2. h \in 0 .. H /\ (i = 1 => h + M <= H) /\ h # H /\ (i = 1 => h # H - M)
    BY <1>1, <1>2, <2>1
  <2> QED
    BY <1>3, <1>5, <2>1, <2>2
<1>8. ASSUME NEW p \in NewlySettled(c) PROVE p \in Settled(c)
  <2>1. CASE H >= M /\ p = <<H - M, 1>>
    <3>1. H - M \in 0 .. H /\ 1 \in 1 .. n(H - M) /\ (H - M) + M <= H
      BY <1>1, <1>2, <2>1
    <3> QED
      BY <1>3, <2>1, <3>1
  <2>2. ASSUME NEW i \in 2 .. n(H), p = <<H, i>> PROVE p \in Settled(c)
    <3>1. H \in 0 .. H /\ i \in 1 .. n(H) /\ i # 1
      BY <1>1, <1>2, <2>2
    <3> QED
      BY <1>3, <2>2, <3>1
  <2> QED
    BY <1>5, <1>8, <2>1, <2>2
<1>9. ASSUME NEW p \in Settled(b) PROVE At(c, p) = At(b, p)
  <2>1. p[1] \in 0 .. Height(b)
    BY <1>4, <1>9
  <2> QED
    BY <1>1, <2>1 DEF At
<1> QED
  BY <1>6, <1>7, <1>8, <1>9 DEF b

(* Nothing has settled at the start. *)
LEMMA SettledAtGenesis == Settled(Genesis) = {}
<1>1. /\ Genesis \in Counts /\ Height(Genesis) = 0 /\ CountAt(Genesis, 0) = Genesis
      /\ Len(Body[Genesis]) = 1 /\ COUNTERPOINT_MATURITY \in Nat \ {0}
  BY BranchOfCount, CountFacts, PathAssumption, GenesisAssumption
<1> SUFFICES ASSUME NEW p \in Settled(Genesis) PROVE FALSE
  OBVIOUS
<1>2. PICK h \in 0 .. 0 : p \in {h} \X Positions(CountAt(Genesis, h))
  BY <1>1 DEF Settled
<1>3. p[1] = 0 /\ p[2] \in 1 .. 1
  <2>1. h = 0
    OBVIOUS
  <2>2. p \in {0} \X (1 .. 1)
    BY <1>1, <1>2, <2>1 DEF Positions
  <2> QED
    BY <2>2
<1> QED
  BY <1>1, <1>3 DEF Settled

(* A branch is finite. *)
LEMMA SettledFinite ==
    ASSUME NEW c \in Counts
    PROVE  IsFiniteSet(Settled(c))
<1> DEFINE at(h) == {h} \X Positions(CountAt(c, h))
           all == {at(h) : h \in 0 .. Height(c)}
           f == [h \in 0 .. Height(c) |-> at(h)]
<1>1. IsFiniteSet(0 .. Height(c))
  BY CountFacts, FS_Interval
<1>2. f \in Surjection(0 .. Height(c), all)
  BY Fun_IsSurj
<1>3. IsFiniteSet(all)
  BY <1>1, <1>2, FS_Surjection
<1>4. ASSUME NEW h \in 0 .. Height(c) PROVE IsFiniteSet(at(h))
  <2>1. IsFiniteSet({h}) /\ IsFiniteSet(Positions(CountAt(c, h)))
    <3>1. Len(Body[CountAt(c, h)]) \in Int
      BY CountFacts
    <3>2. IsFiniteSet(1 .. Len(Body[CountAt(c, h)]))
      BY <3>1, FS_Interval
    <3> QED
      BY <3>2, FS_Singleton DEF Positions
  <2> QED
    BY <2>1, FS_Product
<1>5. IsFiniteSet(UNION all)
  BY <1>3, <1>4, FS_UNION
<1>6. Settled(c) \in SUBSET (UNION all)
  BY DEF Settled
<1> QED
  BY <1>5, <1>6, FS_Subset

(* What a count does to the balances of its branch is what its list of      *)
(* effects says: the places it settles and the list correspond one to one.  *)
LEMMA BalanceOfCount ==
    ASSUME NEW c \in Counts, c # Genesis, NEW k
    PROVE  /\ Balance(c, k) = Balance(Previous(c), k)
                                + Net(EffectsOf(c), k, 1, Len(EffectsOf(c)))
           /\ Balance(Previous(c), k) \in Int
<1> DEFINE b == Previous(c)
           n == Len(EffectsOf(c))
           to(S, d) == {p \in S : For[At(d, p)] = k}
           of(S, d) == {p \in S : By[At(d, p)] = k}
           toList == {i \in 1 .. n : For[EffectsOf(c)[i]] = k}
           ofList == {i \in 1 .. n : By[EffectsOf(c)[i]] = k}
<1>1. /\ Settled(c) = Settled(b) \cup NewlySettled(c)
      /\ Settled(b) \cap NewlySettled(c) = {}
      /\ \A p \in Settled(b) : At(c, p) = At(b, p)
  BY SettledOfCount
<1>2. /\ n \in Nat
      /\ \A i \in 1 .. n : EffectsOf(c)[i] = At(c, PlaceOf(c, i))
  BY EffectsPlaces
<1>3. \A i, j \in 1 .. n : PlaceOf(c, i) = PlaceOf(c, j) => i = j
  <2>1. Height(c) \in Nat /\ COUNTERPOINT_MATURITY \in Nat \ {0}
    BY CountFacts
  <2>2. CASE Height(c) >= COUNTERPOINT_MATURITY
    <3>1. Height(c) - COUNTERPOINT_MATURITY # Height(c)
      BY <2>1
    <3> QED
      BY <2>2, <3>1 DEF PlaceOf
  <2>3. CASE ~ Height(c) >= COUNTERPOINT_MATURITY
    BY <1>2, <2>3 DEF PlaceOf
  <2> QED
    BY <2>2, <2>3
<1>4. IsFiniteSet(toList) /\ IsFiniteSet(ofList)
  <2>1. IsFiniteSet(1 .. n)
    BY <1>2, FS_Interval
  <2>2. toList \in SUBSET (1 .. n) /\ ofList \in SUBSET (1 .. n)
    OBVIOUS
  <2> QED
    BY <2>1, <2>2, FS_Subset
<1>5. /\ IsFiniteSet(to(NewlySettled(c), c))
      /\ Cardinality(to(NewlySettled(c), c)) = Cardinality(toList)
  <2> DEFINE f == [i \in toList |-> PlaceOf(c, i)]
  <2>1. f \in Bijection(toList, to(NewlySettled(c), c))
    <3>1. f \in [toList -> to(NewlySettled(c), c)]
      BY <1>2 DEF NewlySettled
    <3>2. \A i, j \in toList : f[i] = f[j] => i = j
      BY <1>3
    <3>3. \A p \in to(NewlySettled(c), c) : \E i \in toList : f[i] = p
      BY <1>2 DEF NewlySettled
    <3> QED
      BY <3>1, <3>2, <3>3, Fun_IsBij
  <2> QED
    BY <1>4, <2>1, FS_Bijection DEF ExistsBijection
<1>6. /\ IsFiniteSet(of(NewlySettled(c), c))
      /\ Cardinality(of(NewlySettled(c), c)) = Cardinality(ofList)
  <2> DEFINE f == [i \in ofList |-> PlaceOf(c, i)]
  <2>1. f \in Bijection(ofList, of(NewlySettled(c), c))
    <3>1. f \in [ofList -> of(NewlySettled(c), c)]
      BY <1>2 DEF NewlySettled
    <3>2. \A i, j \in ofList : f[i] = f[j] => i = j
      BY <1>3
    <3>3. \A p \in of(NewlySettled(c), c) : \E i \in ofList : f[i] = p
      BY <1>2 DEF NewlySettled
    <3> QED
      BY <3>1, <3>2, <3>3, Fun_IsBij
  <2> QED
    BY <1>4, <2>1, FS_Bijection DEF ExistsBijection
<1>7. IsFiniteSet(to(Settled(b), b)) /\ IsFiniteSet(of(Settled(b), b))
  <2>1. IsFiniteSet(Settled(b))
    BY SettledFinite, StepFacts
  <2> QED
    BY <2>1, FS_Subset
<1>8. /\ to(Settled(c), c) = to(Settled(b), b) \cup to(NewlySettled(c), c)
      /\ of(Settled(c), c) = of(Settled(b), b) \cup of(NewlySettled(c), c)
      /\ to(Settled(b), b) \cap to(NewlySettled(c), c) = {}
      /\ of(Settled(b), b) \cap of(NewlySettled(c), c) = {}
  BY <1>1
<1>9. /\ Balance(c, k) = Cardinality(to(Settled(c), c)) - Cardinality(of(Settled(c), c))
      /\ Balance(b, k) = Cardinality(to(Settled(b), b)) - Cardinality(of(Settled(b), b))
      /\ Net(EffectsOf(c), k, 1, n) = Cardinality(toList) - Cardinality(ofList)
  BY DEF Balance, Net, At
<1> HIDE DEF b, n, to, of, toList, ofList
<1>10. /\ Cardinality(to(Settled(c), c)) = Cardinality(to(Settled(b), b)) + Cardinality(toList)
       /\ Cardinality(of(Settled(c), c)) = Cardinality(of(Settled(b), b)) + Cardinality(ofList)
       /\ Cardinality(to(Settled(b), b)) \in Nat /\ Cardinality(toList) \in Nat
       /\ Cardinality(of(Settled(b), b)) \in Nat /\ Cardinality(ofList) \in Nat
  <2>1. /\ Cardinality(to(Settled(c), c)) = Cardinality(to(Settled(b), b)) + Cardinality(toList)
        /\ Cardinality(to(Settled(b), b)) \in Nat /\ Cardinality(toList) \in Nat
    BY <1>5, <1>7, <1>8, SizeOfParts
  <2>2. /\ Cardinality(of(Settled(c), c)) = Cardinality(of(Settled(b), b)) + Cardinality(ofList)
        /\ Cardinality(of(Settled(b), b)) \in Nat /\ Cardinality(ofList) \in Nat
    BY <1>6, <1>7, <1>8, SizeOfParts
  <2> QED
    BY <2>1, <2>2
<1> QED
  BY <1>9, <1>10 DEF b, n

(* A balance is a number, for it counts in finite sets. *)
LEMMA BalanceType ==
    ASSUME NEW c \in Counts, NEW k
    PROVE  Balance(c, k) \in Int
<1> DEFINE to == {p \in Settled(c) : For[Body[CountAt(c, p[1])][p[2]]] = k}
           of == {p \in Settled(c) : By[Body[CountAt(c, p[1])][p[2]]] = k}
<1>1. IsFiniteSet(Settled(c))
  BY SettledFinite
<1>2. IsFiniteSet(to) /\ IsFiniteSet(of)
  BY <1>1, FS_Subset
<1>3. Cardinality(to) \in Nat /\ Cardinality(of) \in Nat
  BY <1>2, FS_CardinalityType
<1> QED
  BY <1>3 DEF Balance

(* ImbalanceCache.Apply only looks at the sender, when its turn comes: that *)
(* is enough for no key to be below zero at any point of the list.          *)
LEMMA AffordableIsValid ==
    ASSUME NEW c \in Counts, c # Genesis,
           \A k \in Keys : imbalance[k] = Balance(Previous(c), k),
           \A k \in Keys : Balance(Previous(c), k) >= 0,
           Affordable(EffectsOf(c))
    PROVE  Valid(c)
<1> DEFINE s == EffectsOf(c)
           b(k) == Balance(Previous(c), k)
<1> SUFFICES ASSUME NEW k \in Keys, NEW i \in 0 .. Len(s)
             PROVE  b(k) + Net(s, k, 1, i) >= 0
  BY DEF Valid
<1> DEFINE T == {j \in 1 .. i : By[s[j]] = k}
<1>1. b(k) \in Int /\ b(k) >= 0 /\ Len(s) \in Nat
  BY StepFacts, BalanceType, EffectsPlaces
<1>2. CASE T = {}
  <2>1. Net(s, k, 1, i) >= 0
    BY <1>2, NetOfNoSender
  <2>2. Net(s, k, 1, i) \in Int
    BY NetType
  <2> QED
    BY <1>1, <2>1, <2>2
<1>3. CASE T # {}
  <2>1. i \in Nat /\ T \in SUBSET (1 .. i)
    BY <1>1
  <2>2. PICK m \in T : \A j \in T : j <= m
    BY <1>3, <2>1, LastIn
  <2>3. m \in 1 .. Len(s) /\ m \in 1 .. i /\ By[s[m]] = k /\ s[m] \in Considerations
    BY <1>1, <2>2, EffectsPlaces
  <2>4. ~IsCounterPoint(s[m]) /\ For[s[m]] # k
    BY <2>3, BodyAssumption DEF IsCounterPoint, CheckConsideration
  <2>5. b(k) + Net(s, k, 1, m - 1) >= 1
    BY <2>3, <2>4 DEF Affordable
  <2>6. Net(s, k, m, m) = 0 - 1
    BY <2>3, <2>4, NetOfOne
  <2>7. Net(s, k, 1, m) = Net(s, k, 1, m - 1) + Net(s, k, m, m)
    <3>1. m \in Nat /\ m - 1 \in 0 .. m /\ (m - 1) + 1 = m
      BY <2>3
    <3>2. Net(s, k, 1, m) = Net(s, k, 1, m - 1) + Net(s, k, (m - 1) + 1, m)
      BY <3>1, NetOfParts
    <3> QED
      BY <3>1, <3>2
  <2>8. Net(s, k, 1, i) = Net(s, k, 1, m) + Net(s, k, m + 1, i)
    BY <2>1, <2>3, NetOfParts
  <2>9. Net(s, k, m + 1, i) >= 0
    <3>1. \A j \in m + 1 .. i : By[s[j]] # k
      BY <2>2, <2>3
    <3> QED
      BY <2>1, <2>3, <3>1, NetOfNoSender
  <2>10. Net(s, k, 1, m - 1) \in Int /\ Net(s, k, m + 1, i) \in Int
    BY <2>1, <2>3, NetType
  <2> HIDE DEF s, b
  <2> QED
    BY <1>1, <2>5, <2>6, <2>7, <2>8, <2>9, <2>10
<1> QED
  BY <1>2, <1>3

(* ImbalanceCache.Undo goes back through the same points.                   *)
LEMMA ValidIsUndoable ==
    ASSUME NEW c \in Counts, c # Genesis, Valid(c),
           \A k \in Keys : imbalance[k] = Balance(c, k)
    PROVE  Undoable(EffectsOf(c))
<1> DEFINE s == EffectsOf(c)
           n == Len(s)
           b(k) == Balance(Previous(c), k)
<1> SUFFICES ASSUME NEW i \in 1 .. n
             PROVE  imbalance[For[s[i]]] - Net(s, For[s[i]], i + 1, n) >= 1
  BY DEF Undoable
<1> DEFINE k == For[s[i]]
<1>1. n \in Nat /\ s[i] \in Considerations
  BY EffectsPlaces
<1>2. k \in Keys /\ By[s[i]] # k
  BY <1>1, BodyAssumption DEF CheckConsideration
<1>3. imbalance[k] = b(k) + Net(s, k, 1, n) /\ b(k) \in Int
  BY <1>2, BalanceOfCount
<1>4. b(k) + Net(s, k, 1, i - 1) >= 0
  <2>1. i - 1 \in 0 .. n
    BY <1>1
  <2> QED
    BY <1>2, <2>1 DEF Valid
<1>5. Net(s, k, i, i) = 1
  BY <1>2, NetOfOne
<1>6. Net(s, k, 1, i) = Net(s, k, 1, i - 1) + Net(s, k, i, i)
  <2>1. i \in Nat /\ i - 1 \in 0 .. i /\ (i - 1) + 1 = i
    BY <1>1
  <2>2. Net(s, k, 1, i) = Net(s, k, 1, i - 1) + Net(s, k, (i - 1) + 1, i)
    BY <2>1, NetOfParts
  <2> QED
    BY <2>1, <2>2
<1>7. Net(s, k, 1, n) = Net(s, k, 1, i) + Net(s, k, i + 1, n)
  <2>1. i \in 0 .. n
    BY <1>1
  <2> QED
    BY <1>1, <2>1, NetOfParts
<1>8. Net(s, k, 1, i - 1) \in Int /\ Net(s, k, i + 1, n) \in Int
  BY <1>1, NetType
<1> HIDE DEF s, n, b, k
<1>9. imbalance[k] - Net(s, k, i + 1, n) >= 1
  BY <1>3, <1>4, <1>5, <1>6, <1>7, <1>8
<1> QED
  BY <1>9 DEF k

-----------------------------------------------------------------------------
(* Along any sequence of connects and disconnects                           *)

(* Every count of the branch found its senders able to pay: what a          *)
(* disconnect needs of a count that was connected long before.              *)
BranchIsValid == \A h \in 1 .. Height(tip) : Valid(CountAt(tip, h))

(* The inductive invariant: the imbalances are those of the branch, and on  *)
(* every count of it the senders could pay.                                 *)
Balanced == TypedChain /\ ImbalanceIsSettled /\ BranchIsValid

(* The genesis count moves nothing: its counterpoint is not mature. *)
LEMMA BalanceAtGenesis == \A k : Balance(Genesis, k) = 0
  BY SettledAtGenesis, FS_EmptySet DEF Balance

(* No key owes a unit on a branch whose counts are valid. *)
LEMMA ValidIsSolvent ==
    ASSUME NEW c \in Counts, c # Genesis => Valid(c)
    PROVE  \A k \in Keys : Balance(c, k) >= 0
<1>1. CASE c = Genesis
  BY <1>1, BalanceAtGenesis
<1>2. CASE c # Genesis
  <2>1. Len(EffectsOf(c)) \in 0 .. Len(EffectsOf(c))
    BY EffectsPlaces
  <2> QED
    BY <1>2, <2>1, BalanceOfCount DEF Valid
<1> QED
  BY <1>1, <1>2

(* What the invariant says of the tip. *)
LEMMA BalancedTip ==
    ASSUME Balanced
    PROVE  /\ tip \in Counts
           /\ tip # Genesis => Valid(tip)
           /\ \A k \in Keys : imbalance[k] = Balance(tip, k) /\ Balance(tip, k) >= 0
<1>1. tip \in Counts
  BY DEF Balanced, TypedChain, TypeOK
<1>2. ASSUME tip # Genesis PROVE Valid(tip)
  <2>1. Height(tip) \in Nat /\ Height(tip) # 0 /\ CountAt(tip, Height(tip)) = tip
    BY <1>1, <1>2, BranchOfCount
  <2> QED
    BY <2>1 DEF Balanced, BranchIsValid
<1> QED
  BY <1>1, <1>2, ValidIsSolvent DEF Balanced, ImbalanceIsSettled

(* The database after the genesis count is balanced. *)
LEMMA BalancedInit == LedgerInit => Balanced
<1> SUFFICES ASSUME LedgerInit PROVE Balanced
  OBVIOUS
<1>1. TypedChain
  BY TypedChainInit
<1>2. tip = Genesis /\ Genesis \in Counts /\ Height(Genesis) = 0
  BY BranchOfCount, PathAssumption DEF LedgerInit
<1>3. ImbalanceIsSettled
  <2> SUFFICES ASSUME NEW k \in Keys PROVE imbalance[k] = 0
    BY <1>2, BalanceAtGenesis DEF ImbalanceIsSettled
  <2>1. imbalance[k] = Net(Tail(Body[Genesis]), k, 1, 0)
    BY GenesisAssumption DEF LedgerInit
  <2>2. 1 .. 0 = {}
    OBVIOUS
  <2> QED
    BY <2>1, <2>2, FS_EmptySet DEF Net
<1>4. BranchIsValid
  BY <1>2 DEF BranchIsValid
<1> QED
  BY <1>1, <1>3, <1>4 DEF Balanced

(* Connecting keeps it: the senders of the count could pay. *)
LEMMA BalancedConnect ==
    ASSUME Balanced, NEW c \in Counts \ {Genesis}, ConnectCount(c)
    PROVE  Balanced'
<1>1. TypedChain'
  BY TypedChainConnect DEF Balanced
<1>2. tip = Previous(c) /\ tip' = c /\ Effects(c) = EffectsOf(c)
  BY EffectsAre DEF ConnectCount, Balanced, TypedChain
<1>3. \A k \in Keys : imbalance[k] = Balance(Previous(c), k) /\ Balance(Previous(c), k) >= 0
  BY <1>2, BalancedTip
<1>4. Affordable(EffectsOf(c))
  BY <1>2 DEF ConnectCount
<1>5. Valid(c)
  BY <1>3, <1>4, AffordableIsValid
<1>6. ImbalanceIsSettled'
  <2>1. ASSUME NEW k \in Keys PROVE imbalance'[k] = Balance(c, k)
    <3>1. imbalance'[k] = imbalance[k] + Net(EffectsOf(c), k, 1, Len(EffectsOf(c)))
      BY <1>2 DEF ConnectCount
    <3> QED
      BY <1>3, <3>1, BalanceOfCount
  <2> QED
    BY <1>2, <2>1 DEF ImbalanceIsSettled
<1>7. BranchIsValid'
  <2>1. ASSUME NEW h \in 1 .. Height(c) PROVE Valid(CountAt(c, h))
    <3>1. CASE h = Height(c)
      BY <1>5, <3>1, StepFacts
    <3>2. CASE h # Height(c)
      <4>1. h \in 1 .. Height(Previous(c)) /\ CountAt(c, h) = CountAt(Previous(c), h)
        BY <3>2, StepFacts
      <4> QED
        BY <1>2, <4>1 DEF Balanced, BranchIsValid
    <3> QED
      BY <3>1, <3>2
  <2> QED
    BY <1>2, <2>1 DEF BranchIsValid
<1> QED
  BY <1>1, <1>6, <1>7 DEF Balanced

(* Disconnecting keeps it: the branch below was balanced before. *)
LEMMA BalancedDisconnect ==
    ASSUME Balanced, NEW c \in Counts \ {Genesis}, DisconnectCount(c)
    PROVE  Balanced'
<1>1. TypedChain'
  BY TypedChainDisconnect DEF Balanced
<1>2. tip = c /\ tip' = Previous(c) /\ Effects(c) = EffectsOf(c)
  BY EffectsAre DEF DisconnectCount, Balanced, TypedChain
<1>3. ImbalanceIsSettled'
  <2>1. ASSUME NEW k \in Keys PROVE imbalance'[k] = Balance(Previous(c), k)
    <3>1. imbalance'[k] = imbalance[k] - Net(EffectsOf(c), k, 1, Len(EffectsOf(c)))
      BY <1>2 DEF DisconnectCount
    <3>2. imbalance[k] = Balance(c, k)
      BY <1>2, BalancedTip
    <3>3. Net(EffectsOf(c), k, 1, Len(EffectsOf(c))) \in Int
      BY EffectsPlaces, NetType
    <3> QED
      BY <3>1, <3>2, <3>3, BalanceOfCount
  <2> QED
    BY <1>2, <2>1 DEF ImbalanceIsSettled
<1>4. BranchIsValid'
  <2>1. ASSUME NEW h \in 1 .. Height(Previous(c)) PROVE Valid(CountAt(Previous(c), h))
    <3>1. h \in 1 .. Height(c) /\ CountAt(c, h) = CountAt(Previous(c), h)
      BY StepFacts
    <3> QED
      BY <1>2, <3>1 DEF Balanced, BranchIsValid
  <2> QED
    BY <1>2, <2>1 DEF BranchIsValid
<1> QED
  BY <1>1, <1>3, <1>4 DEF Balanced

(* So does every operation. *)
LEMMA BalancedStep == Balanced /\ [LedgerNext]_ledgerVars => Balanced'
<1> SUFFICES ASSUME Balanced, [LedgerNext]_ledgerVars PROVE Balanced'
  OBVIOUS
<1>1. ASSUME NEW c \in Counts \ {Genesis}, ConnectCount(c) PROVE Balanced'
  BY <1>1, BalancedConnect
<1>2. ASSUME NEW c \in Counts \ {Genesis}, DisconnectCount(c) PROVE Balanced'
  BY <1>2, BalancedDisconnect
<1>3. ASSUME UNCHANGED <<tip, imbalance>>, [LedgerNext]_ledgerVars PROVE Balanced'
  <2>1. TypedChain'
    BY TypedChainStep DEF Balanced
  <2> QED
    BY <1>3, <2>1 DEF Balanced, ImbalanceIsSettled, BranchIsValid
<1>4. ASSUME NEW c \in Counts, SetBranchType(c) PROVE UNCHANGED <<tip, imbalance>>
  BY <1>4 DEF SetBranchType
<1> QED
  BY <1>1, <1>2, <1>3, <1>4 DEF LedgerNext, ledgerVars

(* The invariant holds in every state. *)
LEMMA BalancedAlways == LedgerSpec => []Balanced
  BY BalancedInit, BalancedStep, PTL DEF LedgerSpec

(* A count whose senders could pay can be taken back: Undo goes through the *)
(* same amounts as Apply, in reverse.                                       *)
LEMMA BalancedIsUndoable == Balanced => UndoNeverPanics
<1> SUFFICES ASSUME Balanced, tip # Genesis PROVE Undoable(Effects(tip))
  BY DEF UndoNeverPanics
<1>1. /\ tip \in Counts /\ Valid(tip)
      /\ \A k \in Keys : imbalance[k] = Balance(tip, k)
  BY BalancedTip
<1>2. Effects(tip) = EffectsOf(tip)
  BY <1>1, EffectsAre DEF Balanced, TypedChain
<1> QED
  BY <1>1, <1>2, ValidIsUndoable

(* The stored imbalances are those of the branch of the tip: whatever       *)
(* ConnectCount and DisconnectCount did before, each consideration counts   *)
(* once, and each counterpoint once it is COUNTERPOINT_MATURITY deep.       *)
THEOREM ImbalancesAreSettled == LedgerSpec => []ImbalanceIsSettled
<1>1. Balanced => ImbalanceIsSettled
  BY DEF Balanced
<1> QED
  BY <1>1, BalancedAlways, PTL

(* No imbalance is ever negative, although Apply checks senders only and a  *)
(* disconnect takes units back from their recipients.                       *)
THEOREM NoKeyOwes == LedgerSpec => []Solvent
<1>1. Balanced => Solvent
  BY BalancedTip DEF Solvent
<1> QED
  BY <1>1, BalancedAlways, PTL

(* ImbalanceCache.Undo never reaches its panic: in a reorg each recipient   *)
(* still holds the unit that is taken back.                                 *)
THEOREM TipCanBeUndone == LedgerSpec => []UndoNeverPanics
<1> QED
  BY BalancedIsUndoable, BalancedAlways, PTL

-----------------------------------------------------------------------------
(* The history of a key                                                     *)

(* The key rows of a branch, inside and outside the pruning window. *)
BranchRows(c) == UNION {PartyRows(CountAt(c, h)) : h \in 0 .. Height(c)}

(* No row of another branch is left over. *)
RowsOnBranch == pkIndex \subseteq BranchRows(tip)

(* The rows of a branch are those of its last count, at its height, and     *)
(* those of the branch below.                                               *)
LEMMA BranchRowsOfCount ==
    ASSUME NEW c \in Counts, c # Genesis
    PROVE  /\ BranchRows(c) = BranchRows(Previous(c)) \cup PartyRows(c)
           /\ \A r \in BranchRows(Previous(c)) : r \notin PartyRows(c)
<1> DEFINE b == Previous(c)
<1>1. /\ b \in Counts /\ Height(c) = Height(b) + 1 /\ Height(b) \in Nat
      /\ CountAt(c, Height(c)) = c
      /\ \A h \in 0 .. Height(b) : CountAt(c, h) = CountAt(b, h)
  BY StepFacts
<1>2. 0 .. Height(c) = 0 .. Height(b) \cup {Height(c)}
  BY <1>1
<1>3. BranchRows(c) = BranchRows(b) \cup PartyRows(c)
  BY <1>1, <1>2 DEF BranchRows
<1>4. ASSUME NEW r \in BranchRows(b) PROVE r \notin PartyRows(c)
  <2>1. PICK h \in 0 .. Height(b) : r \in PartyRows(CountAt(b, h))
    BY DEF BranchRows
  <2>2. r[2] = h
    BY <1>1, <2>1, HeightOfCountAt, HeightOfRow
  <2>3. \A q \in PartyRows(c) : q[2] = Height(c)
    BY DEF PartyRows
  <2> QED
    BY <1>1, <2>2, <2>3
<1> QED
  BY <1>3, <1>4

(* A count that leaves or enters the window is one of the branch below.     *)
LEMMA ExpiringRows ==
    ASSUME TypedChain, NEW c \in Counts, c # Genesis, tip = c \/ tip = Previous(c)
    PROVE  UNION {PartyRows(d) : d \in Expiring(c)} \subseteq BranchRows(Previous(c))
<1> SUFFICES ASSUME NEW d \in Expiring(c)
             PROVE  PartyRows(d) \subseteq BranchRows(Previous(c))
  OBVIOUS
<1> DEFINE h == Height(c) - 2 * COUNTS_UNTIL_NEW_SERIES
<1>1. h \in 0 .. Height(Previous(c)) /\ d = heightIndex[h]
  BY StepFacts DEF Expiring
<1>2. h \in Heights /\ h <= Height(tip)
  <2>1. /\ Height(c) \in 0 .. MaxHeight /\ MaxHeight \in Nat
        /\ Height(Previous(c)) \in Nat /\ Height(c) = Height(Previous(c)) + 1
    BY StepFacts, BranchOfCount, PathAssumption DEF Heights
  <2>2. h \in Int /\ h >= 0 /\ h <= Height(Previous(c))
    BY <1>1, <2>1
  <2> HIDE DEF h
  <2> QED
    BY <2>1, <2>2 DEF Heights
<1>3. d = CountAt(Previous(c), h)
  BY <1>1, <1>2, StepFacts DEF TypedChain, ChainIndexed
<1> QED
  BY <1>1, <1>3 DEF BranchRows

(* At first the rows are those of the genesis count. *)
LEMMA RowsInit == LedgerInit => RowsOnBranch
<1> SUFFICES ASSUME LedgerInit PROVE RowsOnBranch
  OBVIOUS
<1>1. /\ Genesis \in Counts /\ Height(Genesis) = 0 /\ CountAt(Genesis, 0) = Genesis
      /\ tip = Genesis /\ pkIndex = PartyRows(Genesis) /\ 0 \in 0 .. 0
  BY BranchOfCount, PathAssumption DEF LedgerInit
<1> QED
  BY <1>1 DEF RowsOnBranch, BranchRows

(* No operation leaves a row of another branch. *)
LEMMA RowsStep ==
    ASSUME TypedChain, RowsOnBranch, [LedgerNext]_ledgerVars PROVE RowsOnBranch'
<1>1. ASSUME NEW c \in Counts \ {Genesis}, ConnectCount(c) PROVE RowsOnBranch'
  <2>1. tip = Previous(c) /\ tip' = c /\ pkIndex' \subseteq pkIndex \cup PartyRows(c)
    BY <1>1 DEF ConnectCount
  <2>2. pkIndex' \subseteq BranchRows(c)
    BY <2>1, BranchRowsOfCount DEF RowsOnBranch
  <2> QED
    BY <2>1, <2>2 DEF RowsOnBranch
<1>2. ASSUME NEW c \in Counts \ {Genesis}, DisconnectCount(c) PROVE RowsOnBranch'
  <2>1. /\ tip = c /\ tip' = Previous(c)
        /\ pkIndex' = (pkIndex \ PartyRows(c)) \cup UNION {PartyRows(d) : d \in Expiring(c)}
    BY <1>2 DEF DisconnectCount
  <2>2. UNION {PartyRows(d) : d \in Expiring(c)} \subseteq BranchRows(Previous(c))
    BY <2>1, ExpiringRows
  <2>3. pkIndex \ PartyRows(c) \subseteq BranchRows(Previous(c))
    BY <2>1, BranchRowsOfCount DEF RowsOnBranch
  <2>4. pkIndex' \subseteq BranchRows(Previous(c))
    BY <2>1, <2>2, <2>3
  <2> QED
    BY <2>1, <2>4 DEF RowsOnBranch
<1>3. ASSUME UNCHANGED <<tip, pkIndex>> PROVE RowsOnBranch'
  BY <1>3 DEF RowsOnBranch
<1>4. ASSUME NEW c \in Counts, SetBranchType(c) PROVE UNCHANGED <<tip, pkIndex>>
  BY <1>4 DEF SetBranchType
<1> QED
  BY <1>1, <1>2, <1>3, <1>4 DEF LedgerNext, ledgerVars

(* The rows that GetPublicKeyImbalanceAt counts at the height of the tip    *)
(* correspond one to one to the settled places of the branch where the key  *)
(* is a party, as no consideration has one key as both.                     *)
LEMMA RowsTellTheBalance ==
    ASSUME TypedChain, RowsOnBranch, NEW k \in Keys,
           \A h \in 0 .. Height(tip) : PartyRows(CountAt(tip, h)) \subseteq pkIndex
    PROVE  GetPublicKeyImbalanceAt(k, Height(tip)) = Balance(tip, k)
<1> DEFINE H == Height(tip)
           M == COUNTERPOINT_MATURITY
           counted == {r \in pkIndex :
                          /\ r[1] = k
                          /\ r[2] <= H
                          /\ ~(r[3] = 1 /\ r[2] > H - M)}
           cn(r) == Body[heightIndex[r[2]]][r[3]]
           gained == {r \in counted : For[cn(r)] = k}
           spent == {r \in counted : For[cn(r)] # k}
           to == {p \in Settled(tip) : For[At(tip, p)] = k}
           of == {p \in Settled(tip) : By[At(tip, p)] = k}
           row(p) == <<k, p[1], p[2]>>
<1>1. /\ tip \in Counts /\ H \in Nat /\ H \in Heights /\ M \in Nat \ {0}
      /\ Heights = 0 .. MaxHeight /\ MaxHeight \in Nat
  BY BranchOfCount, CountFacts, PathAssumption DEF TypedChain, TypeOK, Heights
<1>2. \A h \in 0 .. H : /\ CountAt(tip, h) \in Counts
                        /\ Height(CountAt(tip, h)) = h
                        /\ heightIndex[h] = CountAt(tip, h)
  BY <1>1, HeightOfCountAt DEF TypedChain, ChainIndexed
<1>3. \A p : p \in Settled(tip) <=>
               \E h \in 0 .. H : \E i \in Positions(CountAt(tip, h)) :
                  p = <<h, i>> /\ (i = 1 => h + M <= H)
  BY DEF Settled
<1>4. \A h \in 0 .. H : \A i \in Positions(CountAt(tip, h)) :
         /\ i \in Nat
         /\ At(tip, <<h, i>>) \in Considerations
         /\ For[At(tip, <<h, i>>)] \in Keys
         /\ By[At(tip, <<h, i>>)] # For[At(tip, <<h, i>>)]
  <2> TAKE h \in 0 .. H
  <2> TAKE i \in Positions(CountAt(tip, h))
  <2>1. Body[CountAt(tip, h)] \in Seq(Considerations) /\ i \in 1 .. Len(Body[CountAt(tip, h)])
    BY <1>2, BodyAssumption DEF Positions
  <2>2. At(tip, <<h, i>>) \in Considerations
    BY <2>1 DEF At
  <2> QED
    BY <2>1, <2>2, BodyAssumption DEF CheckConsideration
<1>5. \A r : r \in pkIndex <=>
               \E h \in 0 .. H : \E i \in Positions(CountAt(tip, h)) : \E q \in Keys :
                  /\ r = <<q, h, i>>
                  /\ q = By[At(tip, <<h, i>>)] \/ q = For[At(tip, <<h, i>>)]
  <2> DEFINE told(r, h) == \E i \in Positions(CountAt(tip, h)) : \E q \in Keys :
                               /\ r = <<q, h, i>>
                               /\ q = By[At(tip, <<h, i>>)] \/ q = For[At(tip, <<h, i>>)]
  <2>1. \A r : r \in pkIndex <=> \E h \in 0 .. H : r \in PartyRows(CountAt(tip, h))
    BY DEF RowsOnBranch, BranchRows
  <2>2. \A h \in 0 .. H : \A r : r \in PartyRows(CountAt(tip, h)) <=> told(r, h)
    BY <1>2 DEF PartyRows, At
  <2> HIDE DEF told
  <2>3. \A r : r \in pkIndex <=> \E h \in 0 .. H : told(r, h)
    BY <2>1, <2>2
  <2> QED
    BY <2>3 DEF told
<1> HIDE DEF H, M
<1>6. \A r : r \in counted <=>
               \E h \in 0 .. H : \E i \in Positions(CountAt(tip, h)) :
                  /\ r = <<k, h, i>> /\ (i = 1 => h + M <= H)
                  /\ k = By[At(tip, <<h, i>>)] \/ k = For[At(tip, <<h, i>>)]
  <2>1. \A r : r \in counted <=> r \in pkIndex /\ r[1] = k /\ r[2] <= H
                                   /\ ~(r[3] = 1 /\ r[2] > H - M)
    OBVIOUS
  <2>2. \A h \in 0 .. H : h <= H /\ (h > H - M <=> ~ h + M <= H)
    BY <1>1
  <2> HIDE DEF counted
  <2>3. ASSUME NEW r \in counted
        PROVE  \E h \in 0 .. H : \E i \in Positions(CountAt(tip, h)) :
                  /\ r = <<k, h, i>> /\ (i = 1 => h + M <= H)
                  /\ k = By[At(tip, <<h, i>>)] \/ k = For[At(tip, <<h, i>>)]
    <3>1. PICK h \in 0 .. H : \E i \in Positions(CountAt(tip, h)) : \E q \in Keys :
                  /\ r = <<q, h, i>>
                  /\ q = By[At(tip, <<h, i>>)] \/ q = For[At(tip, <<h, i>>)]
      BY <1>5, <2>1
    <3>2. PICK i \in Positions(CountAt(tip, h)) :
                  /\ r = <<k, h, i>>
                  /\ k = By[At(tip, <<h, i>>)] \/ k = For[At(tip, <<h, i>>)]
      BY <2>1, <3>1
    <3> QED
      BY <2>1, <2>2, <3>2
  <2>4. ASSUME NEW h \in 0 .. H, NEW i \in Positions(CountAt(tip, h)),
               i = 1 => h + M <= H,
               k = By[At(tip, <<h, i>>)] \/ k = For[At(tip, <<h, i>>)]
        PROVE  <<k, h, i>> \in counted
    <3>1. <<k, h, i>> \in pkIndex
      BY <1>5, <2>4
    <3> QED
      BY <2>1, <2>2, <2>4, <3>1
  <2> QED
    BY <2>3, <2>4
<1>7. \A h \in 0 .. H : \A i \in Positions(CountAt(tip, h)) :
         cn(<<k, h, i>>) = At(tip, <<h, i>>)
  BY <1>2 DEF At
<1> HIDE DEF counted, cn
<1>8. \A r : r \in gained <=> \E p \in to : r = row(p)
  <2>1. ASSUME NEW r \in gained PROVE \E p \in to : r = row(p)
    <3>1. PICK h \in 0 .. H : \E i \in Positions(CountAt(tip, h)) :
             r = <<k, h, i>> /\ (i = 1 => h + M <= H)
      BY <1>6
    <3>2. PICK i \in Positions(CountAt(tip, h)) : r = <<k, h, i>> /\ (i = 1 => h + M <= H)
      BY <3>1
    <3>3. <<h, i>> \in to
      BY <1>3, <1>7, <3>2
    <3> QED
      BY <3>2, <3>3
  <2>2. ASSUME NEW p \in to PROVE row(p) \in gained
    <3>1. PICK h \in 0 .. H : \E i \in Positions(CountAt(tip, h)) :
             p = <<h, i>> /\ (i = 1 => h + M <= H)
      BY <1>3
    <3>2. PICK i \in Positions(CountAt(tip, h)) : p = <<h, i>> /\ (i = 1 => h + M <= H)
      BY <3>1
    <3>3. row(p) = <<k, h, i>> /\ <<k, h, i>> \in counted
      BY <1>6, <3>2
    <3> QED
      BY <1>7, <3>2, <3>3
  <2> QED
    BY <2>1, <2>2
<1>9. \A r : r \in spent <=> \E p \in of : r = row(p)
  <2>1. ASSUME NEW r \in spent PROVE \E p \in of : r = row(p)
    <3>1. PICK h \in 0 .. H : \E i \in Positions(CountAt(tip, h)) :
             /\ r = <<k, h, i>> /\ (i = 1 => h + M <= H)
             /\ k = By[At(tip, <<h, i>>)] \/ k = For[At(tip, <<h, i>>)]
      BY <1>6
    <3>2. PICK i \in Positions(CountAt(tip, h)) :
             /\ r = <<k, h, i>> /\ (i = 1 => h + M <= H)
             /\ k = By[At(tip, <<h, i>>)] \/ k = For[At(tip, <<h, i>>)]
      BY <3>1
    <3>3. <<h, i>> \in of
      BY <1>3, <1>7, <3>2
    <3> QED
      BY <3>2, <3>3
  <2>2. ASSUME NEW p \in of PROVE row(p) \in spent
    <3>1. PICK h \in 0 .. H : \E i \in Positions(CountAt(tip, h)) :
             p = <<h, i>> /\ (i = 1 => h + M <= H)
      BY <1>3
    <3>2. PICK i \in Positions(CountAt(tip, h)) : p = <<h, i>> /\ (i = 1 => h + M <= H)
      BY <3>1
    <3>3. row(p) = <<k, h, i>> /\ <<k, h, i>> \in counted
      BY <1>6, <3>2
    <3> QED
      BY <1>4, <1>7, <3>2, <3>3
  <2> QED
    BY <2>1, <2>2
<1>10. \A p, q \in Settled(tip) : row(p) = row(q) => p = q
  BY <1>3
<1>11. IsFiniteSet(to) /\ IsFiniteSet(of)
  BY <1>1, SettledFinite, FS_Subset
<1>12. Cardinality(gained) = Cardinality(to)
  <2> DEFINE f == [p \in to |-> row(p)]
  <2> HIDE DEF gained
  <2>1. f \in [to -> gained] /\ \A r \in gained : \E p \in to : f[p] = r
    BY <1>8
  <2>2. \A p, q \in to : f[p] = f[q] => p = q
    BY <1>10
  <2>3. f \in Bijection(to, gained)
    BY <2>1, <2>2, Fun_IsBij
  <2> QED
    BY <1>11, <2>3, FS_Bijection DEF ExistsBijection
<1>13. Cardinality(spent) = Cardinality(of)
  <2> DEFINE f == [p \in of |-> row(p)]
  <2> HIDE DEF spent
  <2>1. f \in [of -> spent] /\ \A r \in spent : \E p \in of : f[p] = r
    BY <1>9
  <2>2. \A p, q \in of : f[p] = f[q] => p = q
    BY <1>10
  <2>3. f \in Bijection(of, spent)
    BY <2>1, <2>2, Fun_IsBij
  <2> QED
    BY <1>11, <2>3, FS_Bijection DEF ExistsBijection
<1>14. /\ GetPublicKeyImbalanceAt(k, H) = Cardinality(gained) - Cardinality(spent)
       /\ Balance(tip, k) = Cardinality(to) - Cardinality(of)
  BY DEF GetPublicKeyImbalanceAt, Balance, At, counted, cn, H, M
<1> QED
  BY <1>12, <1>13, <1>14 DEF H

(* Where all rows of the branch are there, they tell the stored imbalance. *)
LEMMA BalancedHistory == Balanced /\ RowsOnBranch => HistoryAgrees
<1> SUFFICES ASSUME Balanced, RowsOnBranch PROVE HistoryAgrees
  OBVIOUS
<1>1. TypedChain /\ \A k \in Keys : imbalance[k] = Balance(tip, k)
  BY BalancedTip DEF Balanced
<1> QED
  BY <1>1, RowsTellTheBalance DEF HistoryAgrees

(* While every row of the branch is in the database, the imbalance counted  *)
(* from the rows of a key at the height of the tip is the stored one.       *)
THEOREM HistoryIsStored == LedgerSpec => []HistoryAgrees
<1>1. LedgerSpec => []RowsOnBranch
  <2>1. Balanced => TypedChain
    BY DEF Balanced
  <2>2. TypedChain /\ RowsOnBranch /\ [LedgerNext]_ledgerVars => RowsOnBranch'
    BY RowsStep
  <2> QED
    BY RowsInit, <2>1, <2>2, BalancedAlways, PTL DEF LedgerSpec
<1> QED
  BY <1>1, BalancedAlways, BalancedHistory, PTL

-----------------------------------------------------------------------------
(* Sums over finite sets *)

(* The element of a set a sum takes next. *)
OneOf(s) == CHOOSE x \in s : TRUE

(* The sum over a set, from the sums over smaller ones. *)
SumFrom(f, g, s) == IF s = {} THEN 0 ELSE f[OneOf(s)] + g[s \ {OneOf(s)}]

(* The sums over the subsets of a set. *)
AreSums(f, S, g) ==
    /\ g \in [SUBSET S -> Int]
    /\ \A s \in SUBSET S : g[s] = SumFrom(f, g, s)

(* The sizes of the subsets of a finite set. *)
LEMMA SubsetFacts ==
    ASSUME NEW S, IsFiniteSet(S), NEW s \in SUBSET S
    PROVE  /\ Cardinality(S) \in Nat /\ Cardinality(s) \in Nat
           /\ Cardinality(s) <= Cardinality(S)
           /\ Cardinality(s) = 0 <=> s = {}
           /\ s # {} => /\ s \ {OneOf(s)} \in SUBSET S
                        /\ OneOf(s) \in S /\ OneOf(s) \in s
                        /\ Cardinality(s \ {OneOf(s)}) = Cardinality(s) - 1
<1>1. /\ IsFiniteSet(s) /\ Cardinality(s) <= Cardinality(S) /\ Cardinality(S) \in Nat
      /\ Cardinality(s) \in Nat
      /\ Cardinality(s) = 0 <=> s = {}
  BY FS_Subset, FS_CardinalityType, FS_EmptySet
<1>2. ASSUME s # {} PROVE OneOf(s) \in s
  BY <1>2 DEF OneOf
<1>3. ASSUME s # {} PROVE Cardinality(s \ {OneOf(s)}) = Cardinality(s) - 1
  BY <1>1, <1>2, <1>3, FS_RemoveElement
<1>4. ASSUME s # {} PROVE s \ {OneOf(s)} \in SUBSET S /\ OneOf(s) \in S
  BY <1>2, <1>4
<1> QED
  BY <1>1, <1>2, <1>3, <1>4

(* What holds of the empty set, and of a set when it holds of the set less  *)
(* one chosen element, holds of every subset of a finite set.               *)
LEMMA EverySubset ==
    ASSUME NEW S, IsFiniteSet(S), NEW T \in SUBSET (SUBSET S), {} \in T,
           \A s \in SUBSET S : s # {} /\ s \ {OneOf(s)} \in T => s \in T
    PROVE  T = SUBSET S
<1> DEFINE n == Cardinality(S)
           U == {i \in 0 .. n : \A s \in SUBSET S : Cardinality(s) <= i => s \in T}
<1>1. ASSUME NEW s \in SUBSET S
      PROVE  /\ Cardinality(s) \in Nat /\ Cardinality(s) <= n /\ n \in Nat
             /\ Cardinality(s) = 0 <=> s = {}
             /\ s # {} => /\ s \ {OneOf(s)} \in SUBSET S
                          /\ OneOf(s) \in S
                          /\ Cardinality(s \ {OneOf(s)}) = Cardinality(s) - 1
  BY SubsetFacts
<1>2. n \in Nat
  BY FS_CardinalityType
<1> HIDE DEF n
<1>3. 0 \in U
  <2>1. ASSUME NEW s \in SUBSET S, Cardinality(s) <= 0 PROVE s = {}
    <3>1. Cardinality(s) \in Nat /\ (Cardinality(s) = 0 => s = {})
      BY <1>1
    <3>2. Cardinality(s) = 0
      BY <2>1, <3>1
    <3> QED
      BY <3>1, <3>2
  <2> QED
    BY <1>2, <2>1
<1>4. ASSUME NEW i \in 1 .. n, i - 1 \in U PROVE i \in U
  <2>1. ASSUME NEW s \in SUBSET S, Cardinality(s) <= i PROVE s \in T
    <3>1. CASE s = {}
      BY <3>1
    <3>2. CASE s # {}
      <4>1. /\ s \ {OneOf(s)} \in SUBSET S
            /\ Cardinality(s \ {OneOf(s)}) <= i - 1
        BY <1>1, <2>1, <3>2
      <4>2. s \ {OneOf(s)} \in T
        BY <1>4, <4>1
      <4> QED
        BY <3>2, <4>2
    <3> QED
      BY <3>1, <3>2
  <2>2. i \in 0 .. n
    BY <1>2
  <2> QED
    BY <2>1, <2>2
<1>5. U = 0 .. n
  <2>1. U \in SUBSET (0 .. n)
    OBVIOUS
  <2> HIDE DEF U
  <2> QED
    BY <1>2, <1>3, <1>4, <2>1, UpTo
<1>6. n \in U
  BY <1>2, <1>5
<1>7. ASSUME NEW s \in SUBSET S PROVE s \in T
  BY <1>1, <1>6, <1>7
<1> QED
  BY <1>7

(* The sums over the subsets of a finite set exist. *)
LEMMA SumsExist ==
    ASSUME NEW S, IsFiniteSet(S), NEW f, \A x \in S : f[x] \in Int
    PROVE  \E g : AreSums(f, S, g)
<1> DEFINE n == Cardinality(S)
           Upto(g, i) == /\ g \in [SUBSET S -> Int]
                         /\ \A s \in SUBSET S : Cardinality(s) <= i => g[s] = SumFrom(f, g, s)
           U == {i \in 0 .. n : \E g : Upto(g, i)}
<1>1. ASSUME NEW s \in SUBSET S
      PROVE  /\ Cardinality(s) \in Nat /\ Cardinality(s) <= n /\ n \in Nat
             /\ Cardinality(s) = 0 <=> s = {}
             /\ s # {} => /\ s \ {OneOf(s)} \in SUBSET S
                          /\ OneOf(s) \in S
                          /\ Cardinality(s \ {OneOf(s)}) = Cardinality(s) - 1
  BY SubsetFacts
<1>2. n \in Nat
  BY FS_CardinalityType
<1>3. ASSUME NEW g \in [SUBSET S -> Int], NEW s \in SUBSET S
      PROVE  SumFrom(f, g, s) \in Int
  <2>1. CASE s = {}
    BY <2>1 DEF SumFrom
  <2>2. CASE s # {}
    <3>1. g[s \ {OneOf(s)}] \in Int /\ f[OneOf(s)] \in Int
      BY <1>1, <2>2
    <3> QED
      BY <2>2, <3>1 DEF SumFrom
  <2> QED
    BY <2>1, <2>2
<1> HIDE DEF n
<1>4. 0 \in U
  <2> DEFINE g == [s \in SUBSET S |-> 0]
  <2>1. g \in [SUBSET S -> Int]
    OBVIOUS
  <2>2. ASSUME NEW s \in SUBSET S, Cardinality(s) <= 0 PROVE g[s] = SumFrom(f, g, s)
    <3>1. Cardinality(s) \in Nat /\ (Cardinality(s) = 0 => s = {})
      BY <1>1
    <3>2. Cardinality(s) = 0
      BY <2>2, <3>1
    <3>3. s = {}
      BY <3>1, <3>2
    <3> QED
      BY <3>3 DEF SumFrom
  <2>3. Upto(g, 0)
    BY <2>1, <2>2
  <2> HIDE DEF g, Upto
  <2> QED
    BY <1>2, <2>3
<1>5. ASSUME NEW i \in 1 .. n, i - 1 \in U PROVE i \in U
  <2>1. PICK g : Upto(g, i - 1)
    BY <1>5
  <2> DEFINE e == [s \in SUBSET S |-> IF Cardinality(s) <= i - 1 THEN g[s] ELSE SumFrom(f, g, s)]
  <2>2. g \in [SUBSET S -> Int]
    BY <2>1
  <2>3. e \in [SUBSET S -> Int]
    BY <1>3, <2>2
  <2>4. ASSUME NEW s \in SUBSET S, Cardinality(s) <= i PROVE e[s] = SumFrom(f, e, s)
    <3>1. e[s] = SumFrom(f, g, s)
      BY <2>1
    <3>2. ASSUME s # {}
          PROVE  e[s \ {OneOf(s)}] = g[s \ {OneOf(s)}]
      <4>1. /\ s \ {OneOf(s)} \in SUBSET S
            /\ Cardinality(s \ {OneOf(s)}) <= i - 1
        BY <1>1, <2>4, <3>2
      <4> QED
        BY <4>1
    <3> HIDE DEF e
    <3>3. SumFrom(f, e, s) = SumFrom(f, g, s)
      BY <3>2 DEF SumFrom
    <3> QED
      BY <3>1, <3>3
  <2> HIDE DEF e
  <2>5. Upto(e, i)
    BY <2>3, <2>4
  <2>6. i \in 0 .. n
    BY <1>2
  <2> HIDE DEF Upto
  <2> QED
    BY <2>5, <2>6
<1>6. U = 0 .. n
  <2>1. U \in SUBSET (0 .. n)
    OBVIOUS
  <2> HIDE DEF U
  <2> QED
    BY <1>2, <1>4, <1>5, <2>1, UpTo
<1>7. PICK g : Upto(g, n)
  <2>1. n \in U
    <3> HIDE DEF U
    <3> QED
      BY <1>2, <1>6
  <2> HIDE DEF Upto
  <2> QED
    BY <2>1
<1>8. \A s \in SUBSET S : Cardinality(s) <= n
  BY <1>1
<1> QED
  BY <1>7, <1>8 DEF AreSums

(* What SumFunctionOnSet computes is among them. *)
LEMMA SumIs ==
    ASSUME NEW S, IsFiniteSet(S), NEW f, \A x \in S : f[x] \in Int
    PROVE  \E g : AreSums(f, S, g) /\ Sums!SumFunctionOnSet(f, S) = g[S]
<1> DEFINE Ran(g) == g = [s \in SUBSET S |->
                             IF s = {} THEN 0
                             ELSE LET x == CHOOSE x \in s : TRUE IN f[x] + g[s \ {x}]]
           it == CHOOSE g : Ran(g)
<1>1. PICK e : AreSums(f, S, e)
  BY SumsExist
<1>2. Ran(e)
  BY <1>1 DEF AreSums, SumFrom, OneOf
<1>3. Ran(it)
  <2> HIDE DEF Ran
  <2> QED
    BY <1>2, Zenon
<1>4. Sums!SumFunctionOnSet(f, S) = it[S]
  BY DEF Sums!SumFunctionOnSet, Sums!FoldFunctionOnSet, Sums!MapThenFoldSet
<1>5. /\ it = [s \in SUBSET S |-> it[s]]
      /\ \A s \in SUBSET S : it[s] = SumFrom(f, it, s)
  BY <1>3 DEF SumFrom, OneOf
<1> HIDE DEF it
<1>6. {s \in SUBSET S : it[s] \in Int} = SUBSET S
  <2> DEFINE T == {s \in SUBSET S : it[s] \in Int}
  <2>1. {} \in T
    <3>1. {} \in SUBSET S /\ SumFrom(f, it, {}) = 0
      BY DEF SumFrom
    <3>2. it[{}] = 0
      BY <1>5, <3>1
    <3> QED
      BY <3>1, <3>2
  <2>2. ASSUME NEW s \in SUBSET S, s # {}, s \ {OneOf(s)} \in T
        PROVE  s \in T
    <3>1. f[OneOf(s)] \in Int /\ it[s \ {OneOf(s)}] \in Int
      BY <2>2, SubsetFacts
    <3>2. it[s] = f[OneOf(s)] + it[s \ {OneOf(s)}]
      BY <1>5, <2>2 DEF SumFrom
    <3> QED
      BY <3>1, <3>2
  <2>3. T \in SUBSET (SUBSET S)
    OBVIOUS
  <2> HIDE DEF T
  <2>4. T = SUBSET S
    BY <2>1, <2>3, <2>2, EverySubset
  <2> QED
    BY <2>4 DEF T
<1>7. AreSums(f, S, it)
  BY <1>5, <1>6 DEF AreSums
<1> QED
  BY <1>4, <1>7

(* The sum of two functions' sums. *)
LEMMA SumOfTwo ==
    ASSUME NEW S, IsFiniteSet(S), NEW f, NEW h, NEW e,
           \A x \in S : f[x] \in Int /\ h[x] \in Int /\ e[x] = f[x] + h[x]
    PROVE  /\ Sums!SumFunctionOnSet(f, S) \in Int
           /\ Sums!SumFunctionOnSet(h, S) \in Int
           /\ Sums!SumFunctionOnSet(e, S)
                 = Sums!SumFunctionOnSet(f, S) + Sums!SumFunctionOnSet(h, S)
<1>1. PICK a : AreSums(f, S, a) /\ Sums!SumFunctionOnSet(f, S) = a[S]
  BY SumIs
<1>2. PICK b : AreSums(h, S, b) /\ Sums!SumFunctionOnSet(h, S) = b[S]
  BY SumIs
<1>3. PICK c : AreSums(e, S, c) /\ Sums!SumFunctionOnSet(e, S) = c[S]
  <2>1. \A x \in S : e[x] \in Int
    OBVIOUS
  <2> QED
    BY <2>1, SumIs
<1> DEFINE T == {s \in SUBSET S : c[s] = a[s] + b[s]}
<1>4. {} \in T
  <2>1. /\ {} \in SUBSET S
        /\ SumFrom(f, a, {}) = 0 /\ SumFrom(h, b, {}) = 0 /\ SumFrom(e, c, {}) = 0
    BY DEF SumFrom
  <2>2. a[{}] = 0 /\ b[{}] = 0 /\ c[{}] = 0
    BY <1>1, <1>2, <1>3, <2>1 DEF AreSums
  <2> QED
    BY <2>1, <2>2
<1>5. ASSUME NEW s \in SUBSET S, s # {}, s \ {OneOf(s)} \in T
      PROVE  s \in T
  <2> DEFINE x == OneOf(s)
             r == s \ {OneOf(s)}
  <2>1. x \in S /\ r \in SUBSET S
    BY <1>5, SubsetFacts
  <2>2. a[r] \in Int /\ b[r] \in Int /\ c[r] = a[r] + b[r]
    BY <1>1, <1>2, <1>5, <2>1 DEF AreSums
  <2>3. /\ a[s] = f[x] + a[r]
        /\ b[s] = h[x] + b[r]
        /\ c[s] = e[x] + c[r]
    BY <1>1, <1>2, <1>3, <1>5 DEF AreSums, SumFrom
  <2>4. f[x] \in Int /\ h[x] \in Int /\ e[x] = f[x] + h[x]
    BY <2>1
  <2> HIDE DEF x, r
  <2>5. c[s] = a[s] + b[s]
    BY <2>2, <2>3, <2>4
  <2> QED
    BY <2>5
<1>6. T = SUBSET S
  <2>1. T \in SUBSET (SUBSET S)
    OBVIOUS
  <2> HIDE DEF T
  <2>2. \A s \in SUBSET S : s # {} /\ s \ {OneOf(s)} \in T => s \in T
    BY <1>5
  <2> QED
    BY <1>4, <2>1, <2>2, EverySubset
<1>7. c[S] = a[S] + b[S] /\ a[S] \in Int /\ b[S] \in Int
  BY <1>1, <1>2, <1>6 DEF AreSums
<1> QED
  BY <1>1, <1>2, <1>3, <1>7

(* The sum of a function that is 1 at one place and 0 at the others. *)
LEMMA SumOfOne ==
    ASSUME NEW S, IsFiniteSet(S), NEW f, NEW y,
           \A x \in S : f[x] = IF x = y THEN 1 ELSE 0
    PROVE  Sums!SumFunctionOnSet(f, S) = IF y \in S THEN 1 ELSE 0
<1>1. PICK a : AreSums(f, S, a) /\ Sums!SumFunctionOnSet(f, S) = a[S]
  <2>1. \A x \in S : f[x] \in Int
    OBVIOUS
  <2> QED
    BY <2>1, SumIs
<1> DEFINE T == {s \in SUBSET S : a[s] = IF y \in s THEN 1 ELSE 0}
<1>2. {} \in T
  BY <1>1 DEF AreSums, SumFrom
<1>3. ASSUME NEW s \in SUBSET S, s # {}, s \ {OneOf(s)} \in T
      PROVE  s \in T
  <2> DEFINE x == OneOf(s)
             r == s \ {OneOf(s)}
  <2>1. x \in S /\ x \in s /\ r \in SUBSET S
    BY <1>3, SubsetFacts
  <2>2. a[r] = IF y \in r THEN 1 ELSE 0
    BY <1>3
  <2>3. a[s] = f[x] + a[r] /\ f[x] = IF x = y THEN 1 ELSE 0
    BY <1>1, <1>3, <2>1 DEF AreSums, SumFrom
  <2>4. y \in s <=> y = x \/ y \in r
    BY <2>1
  <2>5. ~(y = x /\ y \in r)
    OBVIOUS
  <2> HIDE DEF x, r
  <2>6. a[s] = IF y \in s THEN 1 ELSE 0
    BY <2>2, <2>3, <2>4, <2>5
  <2> QED
    BY <2>6
<1>4. T = SUBSET S
  <2>1. T \in SUBSET (SUBSET S)
    OBVIOUS
  <2> HIDE DEF T
  <2>2. \A s \in SUBSET S : s # {} /\ s \ {OneOf(s)} \in T => s \in T
    BY <1>3
  <2> QED
    BY <1>2, <2>1, <2>2, EverySubset
<1> QED
  BY <1>1, <1>4

-----------------------------------------------------------------------------
(* The units of all keys *)

(* What the first i considerations of a list bring each key.                *)
Gains(s, i) == [k \in Keys |-> Net(s, k, 1, i)]

(* A consideration with a sender moves a unit from a key to a key; a        *)
(* counterpoint makes one.                                                  *)
LEMMA UnitsOfOne ==
    ASSUME IsFiniteSet(Keys), NEW s, NEW i \in Int, s[i] \in Considerations
    PROVE  Sums!SumFunctionOnSet([k \in Keys |-> Net(s, k, i, i)], Keys)
              = IF IsCounterPoint(s[i]) THEN 1 ELSE 0
<1> DEFINE moved == [k \in Keys |-> Net(s, k, i, i)]
           paid == [k \in Keys |-> IF k = By[s[i]] THEN 1 ELSE 0]
           got == [k \in Keys |-> IF k = For[s[i]] THEN 1 ELSE 0]
<1>1. /\ By[s[i]] \in Keys \cup {NoKey} /\ For[s[i]] \in Keys
      /\ NoKey \notin Keys
  BY BodyAssumption DEF CheckConsideration
<1>2. ASSUME NEW k \in Keys
      PROVE  moved[k] \in Int /\ paid[k] \in Int /\ got[k] = moved[k] + paid[k]
  <2>1. moved[k] = (IF For[s[i]] = k THEN 1 ELSE 0) - (IF By[s[i]] = k THEN 1 ELSE 0)
    BY NetOfOne
  <2> QED
    BY <2>1
<1>3. /\ \A k \in Keys : paid[k] = IF k = By[s[i]] THEN 1 ELSE 0
      /\ \A k \in Keys : got[k] = IF k = For[s[i]] THEN 1 ELSE 0
  OBVIOUS
<1> HIDE DEF moved, paid, got
<1>4. /\ Sums!SumFunctionOnSet(paid, Keys) = IF By[s[i]] \in Keys THEN 1 ELSE 0
      /\ Sums!SumFunctionOnSet(got, Keys) = IF For[s[i]] \in Keys THEN 1 ELSE 0
  BY <1>3, SumOfOne
<1>5. /\ Sums!SumFunctionOnSet(moved, Keys) \in Int
      /\ Sums!SumFunctionOnSet(got, Keys)
            = Sums!SumFunctionOnSet(moved, Keys) + Sums!SumFunctionOnSet(paid, Keys)
  BY <1>2, SumOfTwo
<1>6. Sums!SumFunctionOnSet(moved, Keys) = IF IsCounterPoint(s[i]) THEN 1 ELSE 0
  BY <1>1, <1>4, <1>5 DEF IsCounterPoint
<1> QED
  BY <1>6 DEF moved

(* A list with a counterpoint in first place, if any, brings all keys       *)
(* together that one unit.                                                  *)
LEMMA UnitsOfList ==
    ASSUME IsFiniteSet(Keys), NEW s, NEW n \in Nat,
           \A i \in 1 .. n : s[i] \in Considerations,
           \A i \in 2 .. n : ~IsCounterPoint(s[i])
    PROVE  Sums!SumFunctionOnSet(Gains(s, n), Keys)
              = IF n > 0 /\ IsCounterPoint(s[1]) THEN 1 ELSE 0
<1> DEFINE Units(i) == IF i > 0 /\ IsCounterPoint(s[1]) THEN 1 ELSE 0
           T == {i \in 0 .. n : Sums!SumFunctionOnSet(Gains(s, i), Keys) = Units(i)}
<1>1. 0 \in T
  <2>1. 1 .. 0 = {}
    OBVIOUS
  <2>2. \A k \in Keys : Gains(s, 0)[k] = 0
    BY <2>1, FS_EmptySet DEF Gains, Net
  <2>3. \A k \in Keys : Gains(s, 0)[k] = IF k = NoKey THEN 1 ELSE 0
    BY <2>2, BodyAssumption
  <2>4. Sums!SumFunctionOnSet(Gains(s, 0), Keys) = IF NoKey \in Keys THEN 1 ELSE 0
    BY <2>3, SumOfOne
  <2> QED
    BY <2>4, BodyAssumption
<1>2. ASSUME NEW i \in 1 .. n, i - 1 \in T PROVE i \in T
  <2> DEFINE last == [k \in Keys |-> Net(s, k, i, i)]
  <2>1. i \in Int /\ i - 1 \in Int /\ i \in Nat /\ i - 1 \in 0 .. i /\ (i - 1) + 1 = i
    OBVIOUS
  <2>2. ASSUME NEW k \in Keys
        PROVE  /\ Gains(s, i - 1)[k] \in Int /\ last[k] \in Int
               /\ Gains(s, i)[k] = Gains(s, i - 1)[k] + last[k]
    <3>1. Net(s, k, 1, i) = Net(s, k, 1, i - 1) + Net(s, k, (i - 1) + 1, i)
      BY <2>1, NetOfParts
    <3>2. Net(s, k, 1, i - 1) \in Int /\ Net(s, k, i, i) \in Int
      BY <2>1, NetType
    <3> QED
      BY <2>1, <3>1, <3>2 DEF Gains
  <2>3. Sums!SumFunctionOnSet(last, Keys) = IF IsCounterPoint(s[i]) THEN 1 ELSE 0
    BY <2>1, UnitsOfOne
  <2> HIDE DEF last
  <2>4. Sums!SumFunctionOnSet(Gains(s, i), Keys)
           = Sums!SumFunctionOnSet(Gains(s, i - 1), Keys) + Sums!SumFunctionOnSet(last, Keys)
    BY <2>2, SumOfTwo
  <2>5. Sums!SumFunctionOnSet(Gains(s, i - 1), Keys) = Units(i - 1)
    BY <1>2
  <2>6. Units(i - 1) + (IF IsCounterPoint(s[i]) THEN 1 ELSE 0) = Units(i)
    <3>1. CASE i = 1
      BY <3>1
    <3>2. CASE i # 1
      <4>1. i \in 2 .. n /\ i - 1 > 0 /\ i > 0
        BY <3>2
      <4>2. ~IsCounterPoint(s[i])
        BY <4>1
      <4> QED
        BY <4>1, <4>2
    <3> QED
      BY <3>1, <3>2
  <2> HIDE DEF Units
  <2>7. Sums!SumFunctionOnSet(Gains(s, i), Keys) = Units(i)
    BY <2>3, <2>4, <2>5, <2>6
  <2> QED
    BY <2>7
<1>3. T = 0 .. n
  <2>1. T \in SUBSET (0 .. n)
    OBVIOUS
  <2> HIDE DEF T
  <2> QED
    BY <1>1, <1>2, <2>1, UpTo
<1>4. n \in T
  <2> HIDE DEF T
  <2> QED
    BY <1>3
<1> QED
  BY <1>4

(* Connecting a count makes one unit, that of the counterpoint that matures *)
(* with it, once the branch is long enough.                                 *)
LEMMA UnitsOfCount ==
    ASSUME IsFiniteSet(Keys), NEW c \in Counts
    PROVE  Sums!SumFunctionOnSet(Gains(EffectsOf(c), Len(EffectsOf(c))), Keys)
              = IF Height(c) >= COUNTERPOINT_MATURITY THEN 1 ELSE 0
<1> DEFINE s == EffectsOf(c)
           n == Len(s)
<1>1. /\ n \in Nat
      /\ n = IF Height(c) >= COUNTERPOINT_MATURITY THEN Len(Body[c]) ELSE Len(Body[c]) - 1
      /\ \A i \in 1 .. n : s[i] \in Considerations /\ s[i] = At(c, PlaceOf(c, i))
      /\ Len(Body[c]) \in Nat \ {0} /\ CountAt(c, Height(c)) = c
      /\ Height(c) \in Nat /\ COUNTERPOINT_MATURITY \in Nat \ {0}
  BY EffectsPlaces, CountFacts, BranchOfCount
<1>2. ASSUME NEW d \in Counts, NEW i \in 1 .. Len(Body[d])
      PROVE  IsCounterPoint(Body[d][i]) <=> i = 1
  BY BodyAssumption DEF CheckCount, Positions
<1>3. CASE Height(c) >= COUNTERPOINT_MATURITY
  <2> DEFINE h == Height(c) - COUNTERPOINT_MATURITY
  <2>1. h \in 0 .. Height(c) /\ 1 \in 1 .. n
    BY <1>1, <1>3
  <2>2. s[1] = Body[CountAt(c, h)][1]
    BY <1>1, <1>3, <2>1 DEF At, PlaceOf
  <2>3. CountAt(c, h) \in Counts /\ 1 \in 1 .. Len(Body[CountAt(c, h)])
    <3>1. CountAt(c, h) \in Counts /\ Len(Body[CountAt(c, h)]) \in Nat \ {0}
      BY <2>1, CountFacts
    <3> QED
      BY <3>1
  <2>4. IsCounterPoint(s[1])
    BY <1>2, <2>2, <2>3
  <2>5. ASSUME NEW i \in 2 .. n PROVE ~IsCounterPoint(s[i])
    <3>1. i \in 1 .. n /\ i # 1 /\ i \in 1 .. Len(Body[c])
      BY <1>1, <1>3
    <3>2. s[i] = Body[c][i]
      BY <1>1, <1>3, <3>1 DEF At, PlaceOf
    <3> QED
      BY <1>2, <3>1, <3>2
  <2>6. n > 0 /\ \A i \in 1 .. n : s[i] \in Considerations
    BY <1>1, <2>1
  <2> HIDE DEF s, n
  <2>7. Sums!SumFunctionOnSet(Gains(s, n), Keys) = 1
    BY <1>1, <2>4, <2>5, <2>6, UnitsOfList
  <2> QED
    BY <1>3, <2>7 DEF s, n
<1>4. CASE ~(Height(c) >= COUNTERPOINT_MATURITY)
  <2>1. ASSUME NEW i \in 1 .. n PROVE ~IsCounterPoint(s[i])
    <3>1. i + 1 \in 1 .. Len(Body[c]) /\ i + 1 # 1
      BY <1>1, <1>4
    <3>2. s[i] = Body[c][i + 1]
      BY <1>1, <1>4 DEF At, PlaceOf
    <3> QED
      BY <1>2, <3>1, <3>2
  <2>2. /\ \A i \in 2 .. n : ~IsCounterPoint(s[i])
        /\ n > 0 => ~IsCounterPoint(s[1])
    <3>1. /\ \A i \in 2 .. n : i \in 1 .. n
          /\ n > 0 => 1 \in 1 .. n
      BY <1>1
    <3> HIDE DEF s, n
    <3> QED
      BY <2>1, <3>1
  <2>3. \A i \in 1 .. n : s[i] \in Considerations
    BY <1>1
  <2> HIDE DEF s, n
  <2>4. Sums!SumFunctionOnSet(Gains(s, n), Keys) = 0
    BY <1>1, <2>2, <2>3, UnitsOfList
  <2> QED
    BY <1>4, <2>4 DEF s, n
<1> QED
  BY <1>3, <1>4

(* What has been issued on a branch of that height. *)
Issued(h) == IF h >= COUNTERPOINT_MATURITY THEN h - COUNTERPOINT_MATURITY + 1 ELSE 0

(* The sum of the stored imbalances is the issuance, and the tables are     *)
(* those of the tip.                                                        *)
SupplyIInv == TypedChain /\ Supply

(* The supply as a sum over the keys.                                       *)
LEMMA SupplyIs ==
    ASSUME imbalance \in [Keys -> Int]
    PROVE  Supply <=> Sums!SumFunctionOnSet(imbalance, Keys) = Issued(Height(tip))
<1>1. DOMAIN imbalance = Keys
  OBVIOUS
<1> QED
  BY <1>1, Zenon DEF Supply, Sums!SumFunction, Issued

(* The database after the genesis count has no unit.                        *)
LEMMA SupplyInit ==
    ASSUME IsFiniteSet(Keys), LedgerInit
    PROVE  SupplyIInv
<1>1. TypedChain
  BY TypedChainInit
<1>2. imbalance \in [Keys -> Int] /\ tip = Genesis /\ Height(Genesis) = 0 /\ Genesis \in Counts
  BY <1>1, BranchOfCount, PathAssumption DEF TypedChain, TypeOK, LedgerInit
<1>3. 0 < COUNTERPOINT_MATURITY /\ ~(0 >= COUNTERPOINT_MATURITY)
  BY ParameterAssumption
<1>4. EffectsOf(Genesis) = Tail(Body[Genesis]) /\ Len(EffectsOf(Genesis)) = Len(Body[Genesis]) - 1
  BY <1>2, <1>3, EffectsPlaces DEF EffectsOf
<1>5. imbalance = Gains(EffectsOf(Genesis), Len(EffectsOf(Genesis)))
  BY <1>4 DEF LedgerInit, Gains
<1>6. Sums!SumFunctionOnSet(imbalance, Keys) = Issued(Height(tip))
  BY <1>2, <1>3, <1>5, UnitsOfCount DEF Issued
<1> QED
  BY <1>1, <1>2, <1>6, SupplyIs DEF SupplyIInv

(* Every operation keeps it: a count that is connected makes the unit of    *)
(* the counterpoint that matures, and one that is disconnected takes it     *)
(* back.                                                                    *)
LEMMA SupplyStep ==
    ASSUME IsFiniteSet(Keys), SupplyIInv, [LedgerNext]_ledgerVars
    PROVE  SupplyIInv'
<1> DEFINE Sum(f) == Sums!SumFunctionOnSet(f, Keys)
<1>1. TypedChain'
  BY TypedChainStep DEF SupplyIInv
<1>2. /\ imbalance \in [Keys -> Int] /\ imbalance' \in [Keys -> Int]
      /\ ChainIndexed /\ COUNTERPOINT_MATURITY \in Nat \ {0}
  BY <1>1, ParameterAssumption DEF SupplyIInv, TypedChain, TypeOK
<1>3. Sum(imbalance) = Issued(Height(tip))
  BY <1>2, SupplyIs DEF SupplyIInv
<1>4. ASSUME NEW c \in Counts, c # Genesis, tip = c \/ tip = Previous(c)
      PROVE  /\ Effects(c) = EffectsOf(c)
             /\ \A k \in Keys : Gains(Effects(c), Len(Effects(c)))[k] \in Int
             /\ Sum(Gains(Effects(c), Len(Effects(c))))
                   = IF Height(c) >= COUNTERPOINT_MATURITY THEN 1 ELSE 0
             /\ Issued(Height(c)) = Issued(Height(Previous(c)))
                   + IF Height(c) >= COUNTERPOINT_MATURITY THEN 1 ELSE 0
  <2>1. Effects(c) = EffectsOf(c)
    BY <1>2, <1>4, EffectsAre
  <2>2. \A k \in Keys : Gains(EffectsOf(c), Len(EffectsOf(c)))[k] \in Int
    BY EffectsPlaces, NetType DEF Gains
  <2>3. /\ Height(c) \in Nat /\ Height(Previous(c)) \in Nat
        /\ Height(c) = Height(Previous(c)) + 1
    BY <1>4, StepFacts
  <2>4. Issued(Height(c)) = Issued(Height(Previous(c)))
                   + IF Height(c) >= COUNTERPOINT_MATURITY THEN 1 ELSE 0
    BY <1>2, <2>3 DEF Issued
  <2> QED
    BY <2>1, <2>2, <2>4, UnitsOfCount
<1>5. ASSUME NEW c \in Counts \ {Genesis}, ConnectCount(c)
      PROVE  Sum(imbalance') = Issued(Height(tip'))
  <2> DEFINE g == Gains(Effects(c), Len(Effects(c)))
  <2>1. tip = Previous(c) /\ tip' = c
    BY <1>5 DEF ConnectCount
  <2>2. \A k \in Keys : imbalance[k] \in Int /\ g[k] \in Int /\ imbalance'[k] = imbalance[k] + g[k]
    BY <1>2, <1>4, <1>5, <2>1 DEF ConnectCount, Gains
  <2> HIDE DEF g
  <2>3. Sum(imbalance') = Sum(imbalance) + Sum(g)
    BY <2>2, SumOfTwo
  <2> QED
    BY <1>3, <1>4, <2>1, <2>3 DEF g
<1>6. ASSUME NEW c \in Counts \ {Genesis}, DisconnectCount(c)
      PROVE  Sum(imbalance') = Issued(Height(tip'))
  <2> DEFINE g == Gains(Effects(c), Len(Effects(c)))
  <2>1. tip = c /\ tip' = Previous(c)
    BY <1>6 DEF DisconnectCount
  <2>2. \A k \in Keys : imbalance'[k] \in Int /\ g[k] \in Int /\ imbalance[k] = imbalance'[k] + g[k]
    <3>1. ASSUME NEW k \in Keys
          PROVE  imbalance'[k] = imbalance[k] - g[k] /\ g[k] \in Int /\ imbalance[k] \in Int
      BY <1>2, <1>4, <1>6, <2>1 DEF DisconnectCount, Gains
    <3> HIDE DEF g
    <3> QED
      BY <3>1
  <2> HIDE DEF g
  <2>3. /\ Sum(imbalance') \in Int
        /\ Sum(imbalance) = Sum(imbalance') + Sum(g)
    BY <2>2, SumOfTwo
  <2>4. /\ Sum(g) = IF Height(c) >= COUNTERPOINT_MATURITY THEN 1 ELSE 0
        /\ Issued(Height(c)) = Issued(Height(Previous(c)))
              + IF Height(c) >= COUNTERPOINT_MATURITY THEN 1 ELSE 0
    BY <1>4, <2>1 DEF g
  <2>5. Height(Previous(c)) \in Nat
    BY StepFacts
  <2>6. Issued(Height(Previous(c))) \in Int
    BY <1>2, <2>5 DEF Issued
  <2> HIDE DEF Sum
  <2> QED
    BY <1>3, <2>1, <2>3, <2>4, <2>6
<1>7. ASSUME UNCHANGED <<tip, imbalance>>
      PROVE  Sum(imbalance') = Issued(Height(tip'))
  BY <1>3, <1>7
<1>8. Sum(imbalance') = Issued(Height(tip'))
  <2>1. ASSUME NEW c \in Counts, SetBranchType(c) PROVE UNCHANGED <<tip, imbalance>>
    BY <2>1 DEF SetBranchType
  <2> HIDE DEF Sum
  <2> QED
    BY <1>5, <1>6, <1>7, <2>1 DEF LedgerNext, ledgerVars
<1>9. Supply'
  <2>1. DOMAIN imbalance' = Keys
    BY <1>2
  <2>2. Supply' <=> Sums!SumFunctionOnSet(imbalance', Keys) = Issued(Height(tip'))
    BY <2>1, Zenon DEF Supply, Sums!SumFunction, Issued
  <2> QED
    BY <1>8, <2>2
<1> QED
  BY <1>1, <1>9 DEF SupplyIInv

(* For every finite set of keys (a key has 32 bytes), the sum of all        *)
(* imbalances is one unit for every count that is COUNTERPOINT_MATURITY     *)
(* deep, through every ConnectCount and DisconnectCount: no reorg makes or  *)
(* loses a unit.                                                            *)
THEOREM UnitsAreIssued ==
    ASSUME IsFiniteSet(Keys)
    PROVE  LedgerSpec => []Supply
<1>1. LedgerInit => SupplyIInv
  BY SupplyInit
<1>2. SupplyIInv /\ [LedgerNext]_ledgerVars => SupplyIInv'
  BY SupplyStep
<1>3. SupplyIInv => Supply
  BY DEF SupplyIInv
<1> QED
  BY <1>1, <1>2, <1>3, PTL DEF LedgerSpec
=============================================================================
