------------------------------- MODULE Ledger -------------------------------
(***************************************************************************)
(* LedgerDisk: the tables of the ledger database and the three operations  *)
(* that write them.  Every operation is one LevelDB batch, hence one step. *)
(*                                                                         *)
(* A count's ID is a hash over its header, which contains the ID of the    *)
(* previous count and commits to the considerations: an ID determines the  *)
(* whole branch below it.  The counts that passed the processor's checks   *)
(* are therefore constants: Path[c] is the branch from the genesis count   *)
(* to c, Body[c] the considerations of c, the counterpoint first.          *)
(* Positions in Body start at 1 where the code's index starts at 0.        *)
(***************************************************************************)
EXTENDS Rules, Sequences, FiniteSets

Sums == INSTANCE Functions

CONSTANTS
    Counts, Genesis, Path, Body, MaxHeight,
    Considerations, Keys, By, For, Series,
    NoCount, NoKey, NoEntry,          \* a missing row, By of a counterpoint
    COUNTERPOINT_MATURITY,            \* 100 in constants.go
    Prune                             \* the -prune flag

Height(c) == Len(Path[c]) - 1

Previous(c) == Path[c][Len(Path[c]) - 1]

Heights == 0 .. MaxHeight

IsCounterPoint(x) == By[x] = NoKey

Positions(c) == 1 .. Len(Body[c])

Confirms(c) == {Body[c][i] : i \in Positions(c)}

(* Header.Previous links every count to the genesis count, and acceptCount  *)
(* enforces Header.Height = height of the previous count + 1.               *)
ASSUME PathAssumption ==
    /\ Genesis \in Counts
    /\ NoCount \notin Counts
    /\ MaxHeight \in Nat
    /\ Path \in [Counts -> Seq(Counts)]
    /\ \A c \in Counts :
          /\ Height(c) \in Heights
          /\ Path[c][1] = Genesis
          /\ Path[c][Len(Path[c])] = c
          /\ \A i \in 1 .. Len(Path[c]) : Path[Path[c][i]] = SubSeq(Path[c], 1, i)

(* checkConsideration: a recipient, and not the sender.                     *)
CheckConsideration(x) ==
    /\ By[x] \in Keys \cup {NoKey}
    /\ For[x] \in Keys
    /\ By[x] # For[x]

(* checkCount: one counterpoint, in first position, and no consideration    *)
(* twice in a count.                                                        *)
CheckCount(c) ==
    /\ Len(Body[c]) > 0
    /\ \A i \in Positions(c) : IsCounterPoint(Body[c][i]) <=> i = 1
    /\ \A i, j \in Positions(c) : Body[c][i] = Body[c][j] => i = j

ASSUME BodyAssumption ==
    /\ NoKey \notin Keys
    /\ DOMAIN By = Considerations /\ DOMAIN For = Considerations
    /\ \A x \in Considerations : CheckConsideration(x)
    /\ Body \in [Counts -> Seq(Considerations)]
    /\ \A c \in Counts : CheckCount(c)

(* genesis.go: the genesis count has its counterpoint and nothing else. *)
ASSUME GenesisAssumption == Len(Body[Genesis]) = 1

(* acceptCount checks the series of every consideration of a count. *)
ASSUME SeriesAssumption ==
    /\ Series \in [Considerations -> Nat]
    /\ \A c \in Counts : \A x \in Confirms(c) :
          CheckConsiderationSeries(IsCounterPoint(x), Series[x], Height(c))

ASSUME ParameterAssumption ==
    /\ COUNTERPOINT_MATURITY \in Nat \ {0}
    /\ Prune \in BOOLEAN
    /\ NoEntry \notin [height : Heights, index : Nat]

VARIABLES
    tip,           \* T: the tip of the main point
    heightIndex,   \* h: height -> count
    branchType,    \* B: count -> MAIN | SIDE | UNKNOWN
    cnIndex,       \* t: consideration -> height and index
    pkIndex,       \* k: rows (key, height, index)
    imbalance      \* b: key -> imbalance; a missing row reads as 0

ledgerVars == <<tip, heightIndex, branchType, cnIndex, pkIndex, imbalance>>

-----------------------------------------------------------------------------
(* The effect of a count on the imbalances *)

(* Mutants (for the checks of the properties only): a counterpoint counts at *)
(* once; it matures one count late.                                         *)
Effects_AtOnce(c) == Body[c]

Effects_Late(c) ==
    IF Height(c) > COUNTERPOINT_MATURITY
      THEN <<Body[heightIndex[Height(c) - COUNTERPOINT_MATURITY - 1]][1]>> \o Tail(Body[c])
      ELSE Tail(Body[c])

(* The considerations ConnectCount applies: the counterpoint of the count   *)
(* COUNTERPOINT_MATURITY below instead of its own, then the others.         *)
Effects(c) ==
    IF Height(c) >= COUNTERPOINT_MATURITY
      THEN <<Body[heightIndex[Height(c) - COUNTERPOINT_MATURITY]][1]>> \o Tail(Body[c])
      ELSE Tail(Body[c])

(* Units key k gains from positions lo..hi of a list of considerations. *)
Net(s, k, lo, hi) ==
    Cardinality({i \in lo .. hi : For[s[i]] = k})
      - Cardinality({i \in lo .. hi : By[s[i]] = k})

(* Mutant: caches what a recipient gained and not what a sender spent.      *)
Affordable_NoDebit(s) ==
    \A i \in 1 .. Len(s) : ~IsCounterPoint(s[i]) =>
        imbalance[By[s[i]]] + Cardinality({j \in 1 .. i - 1 : For[s[j]] = By[s[i]]}) >= 1

(* ImbalanceCache.Apply succeeds along s: each sender owns a unit when its  *)
(* turn comes.                                                              *)
Affordable(s) ==
    \A i \in 1 .. Len(s) :
        ~IsCounterPoint(s[i]) => imbalance[By[s[i]]] + Net(s, By[s[i]], 1, i - 1) >= 1

(* Mutant: undoes a count in the order it was applied.                      *)
Undoable_Forward(s) ==
    \A i \in 1 .. Len(s) : imbalance[For[s[i]]] - Net(s, For[s[i]], 1, i - 1) >= 1

(* ImbalanceCache.Undo runs from the end of s to its start without its      *)
(* panic: each recipient still holds the unit that is taken back.           *)
Undoable(s) ==
    \A i \in 1 .. Len(s) :
        imbalance[For[s[i]]] - Net(s, For[s[i]], i + 1, Len(s)) >= 1

-----------------------------------------------------------------------------
(* The secondary indices of a count *)

IndexEntry(c, x) ==
    [height |-> Height(c), index |-> CHOOSE i \in Positions(c) : Body[c][i] = x]

(* Mutant: does not except the counterpoint, which has no sender.           *)
PartyRows_NoExcept(c) ==
    {r \in (Keys \cup {NoKey}) \X {Height(c)} \X Positions(c) :
        r[1] = By[Body[c][r[3]]] \/ r[1] = For[Body[c][r[3]]]}

(* Rows k{key}{height}{index} of a count: one for each party. *)
PartyRows(c) ==
    {r \in Keys \X {Height(c)} \X Positions(c) :
        r[1] = By[Body[c][r[3]]] \/ r[1] = For[Body[c][r[3]]]}

(* Mutants: the window starts one count late; is one count too short; is    *)
(* one series long.                                                         *)
Expiring_Late(c) ==
    IF Prune /\ Height(c) > 2 * COUNTS_UNTIL_NEW_SERIES
      THEN {heightIndex[Height(c) - 2 * COUNTS_UNTIL_NEW_SERIES]}
      ELSE {}

Expiring_Short(c) ==
    IF Prune /\ Height(c) >= 2 * COUNTS_UNTIL_NEW_SERIES
      THEN {heightIndex[Height(c) - 2 * COUNTS_UNTIL_NEW_SERIES + 1]}
      ELSE {}

Expiring_OneSeries(c) ==
    IF Prune /\ Height(c) >= COUNTS_UNTIL_NEW_SERIES
      THEN {heightIndex[Height(c) - COUNTS_UNTIL_NEW_SERIES]}
      ELSE {}

(* The main count whose indices leave the window when a count is connected  *)
(* at this height, and return when it is disconnected.                      *)
Expiring(c) ==
    IF Prune /\ Height(c) >= 2 * COUNTS_UNTIL_NEW_SERIES
      THEN {heightIndex[Height(c) - 2 * COUNTS_UNTIL_NEW_SERIES]}
      ELSE {}

IndexedIn(S, x) == \E d \in S : x \in Confirms(d)

(* Mutant: the look-up is not done.                                         *)
Unprocessed_Any(c) == TRUE

Unprocessed(c) == \A x \in Confirms(c) : cnIndex[x] = NoEntry

-----------------------------------------------------------------------------
(* ConnectCount: every error return leaves the tables as they are, so the   *)
(* step is the successful call.  The answer of the consideration graph      *)
(* (IsParentDescendant) can only turn a success into an error.              *)
ConnectCount(c) ==
    /\ tip = Previous(c)
    /\ Unprocessed(c)
    /\ Affordable(Effects(c))
    /\ cnIndex' = [x \in Considerations |->
                      IF IndexedIn(Expiring(c), x) THEN NoEntry
                      ELSE IF x \in Confirms(c) THEN IndexEntry(c, x)
                      ELSE cnIndex[x]]
    /\ pkIndex' = (pkIndex \cup PartyRows(c)) \ UNION {PartyRows(d) : d \in Expiring(c)}
    /\ imbalance' = [k \in Keys |-> imbalance[k] + Net(Effects(c), k, 1, Len(Effects(c)))]
    /\ heightIndex' = [heightIndex EXCEPT ![Height(c)] = c]
    /\ branchType' = [branchType EXCEPT ![c] = "MAIN"]
    /\ tip' = c

(* Mutant: leaves the height index of the count behind.                     *)
DisconnectCount_KeepsHeight(c) ==
    /\ tip = c
    /\ Undoable(Effects(c))
    /\ cnIndex' = [x \in Considerations |->
                      IF IndexedIn(Expiring(c), x)
                        THEN IndexEntry(CHOOSE d \in Expiring(c) : TRUE, x)
                      ELSE IF x \in Confirms(c) THEN NoEntry
                      ELSE cnIndex[x]]
    /\ pkIndex' = (pkIndex \ PartyRows(c)) \cup UNION {PartyRows(d) : d \in Expiring(c)}
    /\ imbalance' = [k \in Keys |-> imbalance[k] - Net(Effects(c), k, 1, Len(Effects(c)))]
    /\ branchType' = [branchType EXCEPT ![c] = "SIDE"]
    /\ tip' = Previous(c)
    /\ UNCHANGED heightIndex

(* DisconnectCount: the inverse batch. *)
DisconnectCount(c) ==
    /\ tip = c
    /\ Undoable(Effects(c))
    /\ cnIndex' = [x \in Considerations |->
                      IF IndexedIn(Expiring(c), x)
                        THEN IndexEntry(CHOOSE d \in Expiring(c) : TRUE, x)
                      ELSE IF x \in Confirms(c) THEN NoEntry
                      ELSE cnIndex[x]]
    /\ pkIndex' = (pkIndex \ PartyRows(c)) \cup UNION {PartyRows(d) : d \in Expiring(c)}
    /\ imbalance' = [k \in Keys |-> imbalance[k] - Net(Effects(c), k, 1, Len(Effects(c)))]
    /\ heightIndex' = [heightIndex EXCEPT ![Height(c)] = NoCount]
    /\ branchType' = [branchType EXCEPT ![c] = "SIDE"]
    /\ tip' = Previous(c)

(* Mutant: writes a value of the enumeration that nothing reads.            *)
SetBranchType_Orphan(c) ==
    /\ branchType' = [branchType EXCEPT ![c] = "ORPHAN"]
    /\ UNCHANGED <<tip, heightIndex, cnIndex, pkIndex, imbalance>>

(* SetBranchType writes the row it is given.  Its one caller passes SIDE. *)
SetBranchType(c) ==
    /\ branchType' = [branchType EXCEPT ![c] = "SIDE"]
    /\ UNCHANGED <<tip, heightIndex, cnIndex, pkIndex, imbalance>>

(* The database after the client's start: main processes the genesis count  *)
(* before any other component runs.                                         *)
LedgerInit ==
    /\ tip = Genesis
    /\ heightIndex = [h \in Heights |-> IF h = 0 THEN Genesis ELSE NoCount]
    /\ branchType = [c \in Counts |-> IF c = Genesis THEN "MAIN" ELSE "UNKNOWN"]
    /\ cnIndex = [x \in Considerations |->
                     IF x \in Confirms(Genesis) THEN IndexEntry(Genesis, x) ELSE NoEntry]
    /\ pkIndex = PartyRows(Genesis)
    /\ imbalance = [k \in Keys |-> Net(Tail(Body[Genesis]), k, 1, Len(Body[Genesis]) - 1)]

(* Any legal order of calls: the genesis count is never connected again or  *)
(* disconnected, it is an ancestor of every branch.                         *)
LedgerNext ==
    \/ \E c \in Counts \ {Genesis} : ConnectCount(c)
    \/ \E c \in Counts \ {Genesis} : DisconnectCount(c)
    \/ \E c \in Counts : SetBranchType(c)

LedgerSpec == LedgerInit /\ [][LedgerNext]_ledgerVars

-----------------------------------------------------------------------------
(* Queries *)

(* Mutant: takes the newest mature counterpoint for an immature one.        *)
GetPublicKeyImbalanceAt_OffByOne(k, height) ==
    LET counted == {r \in pkIndex :
            /\ r[1] = k
            /\ r[2] <= height
            /\ ~(r[3] = 1 /\ r[2] >= Height(tip) - COUNTERPOINT_MATURITY)}
        cn(r) == Body[heightIndex[r[2]]][r[3]]
    IN  Cardinality({r \in counted : For[cn(r)] = k})
          - Cardinality({r \in counted : For[cn(r)] # k})

(* GetPublicKeyImbalanceAt: scans the rows of the key up to the height and  *)
(* skips the counterpoints that are not mature at the current tip.          *)
GetPublicKeyImbalanceAt(k, height) ==
    LET counted == {r \in pkIndex :
            /\ r[1] = k
            /\ r[2] <= height
            /\ ~(r[3] = 1 /\ r[2] > Height(tip) - COUNTERPOINT_MATURITY)}
        cn(r) == Body[heightIndex[r[2]]][r[3]]
    IN  Cardinality({r \in counted : For[cn(r)] = k})
          - Cardinality({r \in counted : For[cn(r)] # k})

-----------------------------------------------------------------------------
(* What the tables must say: everything but branchType is a function of the *)
(* tip, whatever connects and disconnects led to it.                        *)

CountAt(c, h) == Path[c][h + 1]

(* Heights whose consideration and key indices are kept. *)
IndexedHeights ==
    {h \in 0 .. Height(tip) : Prune => h > Height(tip) - 2 * COUNTS_UNTIL_NEW_SERIES}

(* The (height, position) pairs of a branch whose units have moved: every   *)
(* consideration, but a counterpoint only when it is deep enough.           *)
Settled(c) ==
    {p \in UNION {{h} \X Positions(CountAt(c, h)) : h \in 0 .. Height(c)} :
        p[2] = 1 => p[1] + COUNTERPOINT_MATURITY <= Height(c)}

Balance(c, k) ==
    Cardinality({p \in Settled(c) : For[Body[CountAt(c, p[1])][p[2]]] = k})
      - Cardinality({p \in Settled(c) : By[Body[CountAt(c, p[1])][p[2]]] = k})

-----------------------------------------------------------------------------
(* Properties *)

(* Every table holds rows of its kind.                                      *)
TypeOK ==
    /\ tip \in Counts
    /\ heightIndex \in [Heights -> Counts \cup {NoCount}]
    /\ branchType \in [Counts -> {"MAIN", "SIDE", "UNKNOWN"}]
    /\ cnIndex \in [Considerations -> [height : Heights, index : Nat] \cup {NoEntry}]
    /\ pkIndex \subseteq Keys \X Heights \X Nat
    /\ imbalance \in [Keys -> Int]

(* The height index lists exactly the branch of the tip: pruning, maturing  *)
(* and the queries by height all read the right count, also after a reorg.  *)
ChainIndexed ==
    \A h \in Heights :
        heightIndex[h] = IF h <= Height(tip) THEN CountAt(tip, h) ELSE NoCount

(* The consideration index holds the considerations of the branch of the    *)
(* tip that are inside the pruning window, and nothing else: what is pruned *)
(* going forward is restored going back (pruneIndices, restoreIndices).     *)
ConsiderationsIndexed ==
    \A x \in Considerations :
        IF \E h \in IndexedHeights : x \in Confirms(CountAt(tip, h))
          THEN \E h \in IndexedHeights :
                  /\ x \in Confirms(CountAt(tip, h))
                  /\ cnIndex[x] = IndexEntry(CountAt(tip, h), x)
          ELSE cnIndex[x] = NoEntry

(* Likewise for the rows that associate a consideration with its parties.   *)
PartiesIndexed ==
    pkIndex = UNION {PartyRows(CountAt(tip, h)) : h \in IndexedHeights}

(* "we can safely prune indices for considerations older than the previous  *)
(* series": no consideration is confirmed twice on the branch of the tip,   *)
(* although ConnectCount only looks inside the window.                      *)
NoDoubleConfirmation ==
    \A g, h \in 0 .. Height(tip) :
        g # h => Confirms(CountAt(tip, g)) \cap Confirms(CountAt(tip, h)) = {}

(* No key ever owes a unit (encodeNumber would store a negative number).    *)
Solvent == \A k \in Keys : imbalance[k] >= 0

(* The stored imbalances are those of the branch of the tip: disconnecting  *)
(* takes back exactly what connecting gave, counterpoints only mature once. *)
ImbalanceIsSettled == \A k \in Keys : imbalance[k] = Balance(tip, k)

(* A tip can always be taken back: ImbalanceCache.Undo never reaches its    *)
(* panic("Recipient imbalance went negative").                              *)
UndoNeverPanics == tip # Genesis => Undoable(Effects(tip))

(* The sum of all imbalances is the issuance: one unit for every count that *)
(* is COUNTERPOINT_MATURITY deep (Imbalance, docs/about.md).                *)
Supply ==
    Sums!SumFunction(imbalance) =
        IF Height(tip) >= COUNTERPOINT_MATURITY
          THEN Height(tip) - COUNTERPOINT_MATURITY + 1 ELSE 0

(* With the full point indexed (the tables tell, not the flag), the         *)
(* imbalance computed from the key rows at the current height is the stored *)
(* one: the cross-check the function is documented for.                     *)
HistoryAgrees ==
    (\A h \in 0 .. Height(tip) : PartyRows(CountAt(tip, h)) \subseteq pkIndex) =>
        \A k \in Keys : GetPublicKeyImbalanceAt(k, Height(tip)) = imbalance[k]

(* "GetPublicKeyImbalanceAt returns the public key imbalance at the given   *)
(* height" (ledger.go), at any height of the branch and not just the tip's. *)
HistoricalImbalance ==
    \A k \in Keys, h \in 0 .. Height(tip) :
        GetPublicKeyImbalanceAt(k, h) = Balance(CountAt(tip, h), k)
=============================================================================
