------------------------------ MODULE Indexer -------------------------------
(***************************************************************************)
(* The indexer and the processor around one consideration graph.  The      *)
(* indexer's goroutine fills the graph: first from the height index of the *)
(* ledger, then from the tip changes it has registered for.  The ledger    *)
(* and the queue ask the graph whether a consideration closes a cycle: the *)
(* veto that Processor takes as an input is here the answer of the graph   *)
(* as it is at that moment.                                                *)
(***************************************************************************)
EXTENDS Processor

CONSTANTS
    Dimensions,      \* consideration -> list of its further links <<source, target>>
    Pseudonyms       \* keys of the form "//name//"

G == INSTANCE Graph WITH Root <- NoKey

ASSUME DimensionAssumption ==
    /\ Pseudonyms \subseteq Keys
    /\ DOMAIN Dimensions = Considerations
    /\ \A x \in Considerations :
          /\ Dimensions[x] \in Seq(Sums!Range(Dimensions[x]))
          /\ For[x] \in Pseudonyms => Dimensions[x] = <<>>

VARIABLES
    stage,           \* where the indexer's goroutine is
    height,          \* the next height of the catch-up
    graph,           \* cnGraph
    pseudonym,       \* memory: key -> the pseudonym it gave itself last
    latestCountID,
    tipChangeChan,   \* what was sent to the indexer and not received yet
    disturbed        \* history: did the catch-up miss a change of the branch?

indexerVars == <<stage, height, graph, pseudonym, latestCountID, tipChangeChan>>

allVars == <<vars, indexerVars, disturbed>>

-----------------------------------------------------------------------------
(* indexConsiderations.  Both imbalances change for every consideration; a  *)
(* pseudonym is not linked.  What it notes about a place is left out.       *)

LinksOf(x) ==
    IF For[x] \in Pseudonyms THEN <<>> ELSE <<<<By[x], For[x]>>>> \o Dimensions[x]

(* The links a count makes, and how often it makes one of them. *)
LinksOfCount(c) == UNION {Sums!Range(LinksOf(x)) : x \in Confirms(c)}

LinkPlaces(c) == UNION {{i} \X DOMAIN LinksOf(Body[c][i]) : i \in Positions(c)}

Makes(c, e) == Cardinality({p \in LinkPlaces(c) : LinksOf(Body[c][p[1]])[p[2]] = e})

Parties(c) == {By[x] : x \in Confirms(c)} \cup {For[x] : x \in Confirms(c)}

Gain(c, k) == Net(Body[c], k, 1, Len(Body[c]))

Indexed(c, increment) ==
    G!Link(G!SetImbalance(graph, [k \in Parties(c) |-> increment * Gain(c, k)]),
           [e \in LinksOfCount(c) |-> increment * Makes(c, e)])

(* The last pseudonym of a count a key gave itself, or the one it had.      *)
PseudonymAfter(c, k) ==
    LET own == {i \in Positions(c) : By[Body[c][i]] = k /\ For[Body[c][i]] \in Pseudonyms}
    IN  IF own = {} THEN pseudonym[k]
        ELSE For[Body[c][CHOOSE i \in own : \A j \in own : j <= i]]

IndexConsiderations(c, increment) ==
    /\ graph' = Indexed(c, increment)
    /\ pseudonym' = [k \in Keys |-> PseudonymAfter(c, k)]
    /\ latestCountID' = c

-----------------------------------------------------------------------------
(* The indexer's goroutine *)

(* The initial download is over: IsInitialCountDownload is a question of    *)
(* time and may say so at any tip.                                          *)
Synced ==
    /\ stage = "waiting"
    /\ branchType[latestCountID] = "MAIN"
    /\ stage' = "catchUp"
    /\ height' = Height(latestCountID)
    /\ UNCHANGED <<vars, graph, pseudonym, latestCountID, tipChangeChan, disturbed>>

HasHeight(h) == h \in Heights /\ heightIndex[h] # NoCount

CatchUp ==
    /\ stage = "catchUp"
    /\ HasHeight(height)
    /\ IndexConsiderations(heightIndex[height], 1)
    /\ height' = height + 1
    /\ UNCHANGED <<vars, stage, tipChangeChan, disturbed>>

(* A missing row of the height index ends the catch-up, also when it is     *)
(* missing because a reorganisation is on its way.                          *)
CaughtUp ==
    /\ stage = "catchUp"
    /\ ~HasHeight(height)
    /\ stage' = "registering"
    /\ UNCHANGED <<vars, height, graph, pseudonym, latestCountID, tipChangeChan, disturbed>>

(* Mutant: registers only when the tip is what it has indexed last.         *)
Register_AtTip ==
    /\ stage = "registering"
    /\ job = NoJob
    /\ latestCountID = tip
    /\ stage' = "following"
    /\ UNCHANGED <<vars, height, graph, pseudonym, latestCountID, tipChangeChan, disturbed>>

(* The processor takes a registration between two counts. *)
Register ==
    /\ stage = "registering"
    /\ job = NoJob
    /\ stage' = "following"
    /\ UNCHANGED <<vars, height, graph, pseudonym, latestCountID, tipChangeChan, disturbed>>

(* A message that a count was connected adds it, the other takes it back.   *)
Increment(change) == IF change.connect THEN 1 ELSE -1

Follow ==
    /\ stage = "following"
    /\ tipChangeChan # <<>>
    /\ LET change == Head(tipChangeChan)
       IN  IndexConsiderations(change.id, Increment(change))
    /\ tipChangeChan' = Tail(tipChangeChan)
    /\ UNCHANGED <<vars, stage, height, disturbed>>

IndexerStep == Synced \/ CatchUp \/ CaughtUp \/ Register \/ Follow

-----------------------------------------------------------------------------
(* The processor, with the answer of the graph and the notifications *)

(* The ledger and the queue ask about the recipient and the sender. *)
Vetoed == {x \in Considerations :
              ~IsCounterPoint(x) /\ G!IsParentDescendant(graph, For[x], By[x])}

(* The channel holds one message.  The second in the sequence is the one    *)
(* the processor is sending: it does nothing else until there is room.      *)
Sending == Len(tipChangeChan) > 1

(* Mutant: a disconnected count is announced as a connected one.            *)
Notify_Connect(c, connect) ==
    tipChangeChan' = IF stage = "following"
                       THEN Append(tipChangeChan, [id |-> c, connect |-> TRUE])
                       ELSE tipChangeChan

Notify(c, connect) ==
    tipChangeChan' = IF stage = "following"
                       THEN Append(tipChangeChan, [id |-> c, connect |-> connect])
                       ELSE tipChangeChan

(* History: a count the catch-up has passed was connected or disconnected   *)
(* before the indexer was registered.                                       *)
Disturb(c) ==
    disturbed' = \/ disturbed
                 \/ stage = "registering"
                 \/ stage = "catchUp" /\ Height(c) < height

DisconnectAndNotify ==
    /\ Disconnect
    /\ Notify(Head(job.undo), FALSE)
    /\ Disturb(Head(job.undo))

ConnectAndNotify ==
    /\ Connect(Vetoed)
    /\ Notify(Head(job.redo), TRUE)
    /\ Disturb(Head(job.redo))

Quietly(A) == A /\ UNCHANGED <<tipChangeChan, disturbed>>

ProceedStep ==
    /\ ~Sending
    /\ \/ Quietly(IsTip \/ SetAside \/ Reorganize \/ ConnectFails(Vetoed))
       \/ DisconnectAndNotify
       \/ ConnectAndNotify
    /\ UNCHANGED <<stage, height, graph, pseudonym, latestCountID>>

CallStep ==
    /\ ~Sending
    /\ \/ \E c \in Counts \ {Genesis} : ProcessCount(c)
       \/ \E x \in Considerations : ProcessConsideration(x, Vetoed)
    /\ UNCHANGED <<indexerVars, disturbed>>

IndexerInit ==
    /\ Init
    /\ stage = "waiting"
    /\ height = 0
    /\ graph = G!NewGraph
    /\ pseudonym = [k \in Keys |-> NoKey]
    /\ latestCountID = Genesis
    /\ tipChangeChan = <<>>
    /\ disturbed = FALSE

IndexerNext == IndexerStep \/ ProceedStep \/ CallStep

(* Both goroutines keep running, and the processor's select, which picks    *)
(* among the channels that are ready, comes to the registration some day.   *)
IndexerSpec ==
    /\ IndexerInit
    /\ [][IndexerNext]_allVars
    /\ WF_allVars(IndexerStep)
    /\ SF_allVars(Register)
    /\ WF_allVars(ProceedStep)

-----------------------------------------------------------------------------
(* What the graph should say *)

Nodes == Keys \cup {NoKey} \cup
         UNION {{e[1], e[2]} : e \in UNION {Sums!Range(Dimensions[x]) : x \in Considerations}}

Links == UNION {LinksOfCount(c) : c \in Counts}

(* What the first counts of the branch of the tip make of a link and of the *)
(* imbalance of a key.                                                      *)
BranchWeight(heights, e) == Sums!SumFunction([h \in heights |-> Makes(CountAt(tip, h), e)])

BranchImbalance(heights, k) == Sums!SumFunction([h \in heights |-> Gain(CountAt(tip, h), k)])

(* What the messages that are under way will change. *)
PendingWeight(e) ==
    Sums!SumFunction([i \in DOMAIN tipChangeChan |->
        Makes(tipChangeChan[i].id, e) * Increment(tipChangeChan[i])])

PendingImbalance(k) ==
    Sums!SumFunction([i \in DOMAIN tipChangeChan |->
        Gain(tipChangeChan[i].id, k) * Increment(tipChangeChan[i])])

(* The heights the graph should cover: those read so far, then all. *)
Covered == IF stage = "following" THEN 0 .. Height(tip) ELSE 0 .. height - 1

WeightDrift ==
    [e \in Links |-> (IF e \in DOMAIN graph.weight THEN graph.weight[e] ELSE 0)
                      + PendingWeight(e) - BranchWeight(Covered, e)]

ImbalanceDrift ==
    [k \in Keys |-> (IF k \in DOMAIN graph.imbalance THEN graph.imbalance[k] ELSE 0)
                     + PendingImbalance(k) - BranchImbalance(Covered, k)]

-----------------------------------------------------------------------------
(* Properties *)

IndexerTypeOK ==
    /\ stage \in {"waiting", "catchUp", "registering", "following"}
    /\ height \in 0 .. MaxHeight + 1
    /\ DOMAIN graph.imbalance \subseteq Nodes
    /\ DOMAIN graph.weight \subseteq Links
    /\ \A e \in DOMAIN graph.weight : {e[1], e[2]} \subseteq DOMAIN graph.imbalance
    /\ pseudonym \in [Keys -> Pseudonyms \cup {NoKey}]
    /\ latestCountID \in Counts
    /\ Len(tipChangeChan) <= 2

(* As long as the branch below the height of the catch-up does not change   *)
(* before the indexer is registered, the graph together with the messages   *)
(* under way holds the links and the imbalances of the branch of the tip,   *)
(* each as often as the branch makes it (indexer.go:113-170).               *)
GraphIsExact ==
    ~disturbed =>
        /\ \A e \in Links : WeightDrift[e] = 0
        /\ \A k \in Keys : ImbalanceDrift[k] = 0

(* What holds of the indexer in every state. *)
IndexerInv == IndexerTypeOK /\ GraphIsExact

(* Once it is registered the indexer neither loses nor repairs anything:    *)
(* what the graph is off by, it stays off by.                               *)
DriftIsFixed ==
    [][stage = "following" => WeightDrift' = WeightDrift /\ ImbalanceDrift' = ImbalanceDrift]_allVars

(* Whatever the processor does, the indexer comes to follow it, and never   *)
(* keeps it from ending the count it is at: the processor waits for room in *)
(* the indexer's channel, and the indexer for the processor's registration. *)
IndexerFollows ==
    <>[](stage = "following") /\ []<>(job = NoJob /\ ~Sending)

(* "Ledger is an interface to a ledger built from the most-work point of    *)
(* counts" (ledger.go:20): a valid branch that is better than the tip and   *)
(* was offered is the branch of the tip.                                    *)
BetterIsTaken ==
    job = NoJob =>
        \A c \in ValidBranches : when[c] # NotStored /\ c # tip => Better(tip, c)
=============================================================================
