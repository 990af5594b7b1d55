------------------------------ MODULE Processor -----------------------------
(***************************************************************************)
(* The processor: one goroutine that takes counts and considerations from  *)
(* two channels, extends or reorganises the point, and keeps the queue in  *)
(* step with it.                                                           *)
(*                                                                         *)
(* Processing a count is a job of several steps, one for every write to    *)
(* the count storage or the ledger: between two of them the client may     *)
(* stop (Restart), which loses the job and the queue and keeps the files.  *)
(* Counts are those that pass checkCount and the checks of acceptCount: a  *)
(* count that fails them changes nothing.                                  *)
(***************************************************************************)
EXTENDS ConsiderationQueue

LOCAL INSTANCE SequencesExt

CONSTANTS
    PointWork,       \* cumulative work of a count
    IdOrder,         \* its ID as a number
    NotStored,       \* no header in the count storage
    NoJob,
    MaxTime,         \* bound of the clock
    Restarts         \* may the client stop and start again?

(* computePointWork adds the work of the target, which is never zero. *)
ASSUME WorkAssumption ==
    /\ PointWork \in [Counts -> Nat]
    /\ \A c \in Counts \ {Genesis} : PointWork[c] > PointWork[Previous(c)]
    /\ IdOrder \in [Counts -> Nat]
    /\ \A c, d \in Counts : IdOrder[c] = IdOrder[d] => c = d
    /\ MaxTime \in Nat
    /\ NotStored \notin Nat
    /\ Restarts \in BOOLEAN

VARIABLES
    when,       \* count storage: count -> time its header was stored
    now,        \* time.Now().Unix()
    job         \* the call of processCount in progress, or NoJob

Jobs == [id : Counts, stage : {"compare", "reorganize"}, undo : Seq(Counts),
         redo : Seq(Counts), new : Counts, oldTip : Counts, restoring : BOOLEAN]

(* No call in progress is none of the calls. *)
ASSUME JobAssumption == NoJob \notin Jobs

vars == <<ledgerVars, queueVars, when, now, job>>

Known(c) == branchType[c] # "UNKNOWN"

Header(c) == [work |-> PointWork[c], when |-> when[c], id |-> IdOrder[c]]

Better(c, d) == Compare(Header(c), Header(d))

-----------------------------------------------------------------------------
(* acceptCount: what is left of its checks is that the count is new.  The   *)
(* count is stored before the point is touched.                             *)
AcceptCount(c) ==
    /\ ~Known(c)
    /\ when' = [when EXCEPT ![c] = now]
    /\ job' = [id |-> c, stage |-> "compare", undo |-> <<>>, redo |-> <<>>,
               new |-> c, oldTip |-> tip, restoring |-> FALSE]

(* Mutant: does not ask for the parent.                                     *)
ProcessCount_Orphan(c) ==
    /\ job = NoJob
    /\ AcceptCount(c)
    /\ UNCHANGED <<ledgerVars, queueVars, now>>

(* processCount: "orphan" and "already processed" change nothing.           *)
ProcessCount(c) ==
    /\ job = NoJob
    /\ Known(Previous(c))
    /\ AcceptCount(c)
    /\ UNCHANGED <<ledgerVars, queueVars, now>>

(* acceptCountContinue.  It is called for the new count and, when that      *)
(* fails, by reconnectTip for the old tip: job.id is the one it is called   *)
(* with.                                                                    *)

Continuing == job # NoJob /\ job.stage = "compare"

(* Nothing was disconnected or connected before the failure. *)
IsTip ==
    /\ Continuing
    /\ job.id = tip
    /\ job' = NoJob
    /\ UNCHANGED <<ledgerVars, queueVars, when, now>>

(* Mutant: flags the tip instead of the count.                              *)
SetAside_Tip ==
    /\ Continuing
    /\ job.id # tip
    /\ ~Better(job.id, tip)
    /\ SetBranchType(tip)
    /\ job' = NoJob
    /\ UNCHANGED <<queueVars, when, now>>

SetAside ==
    /\ Continuing
    /\ job.id # tip
    /\ ~Better(job.id, tip)
    /\ SetBranchType(job.id)
    /\ job' = NoJob
    /\ UNCHANGED <<queueVars, when, now>>

(* Walks back from the tip and from the parent of the count to their common *)
(* ancestor: the length of the branch they share.                           *)
Shared(c, d) ==
    Cardinality({i \in DOMAIN Path[c] \cap DOMAIN Path[d] : Path[c][i] = Path[d][i]})

(* Mutant: disconnects from the ancestor up.                                *)
Reorganize_Upwards ==
    /\ Continuing
    /\ job.id # tip
    /\ Better(job.id, tip)
    /\ LET common == Shared(tip, Previous(job.id))
       IN  job' = [job EXCEPT
                     !.stage = "reorganize",
                     !.undo = SubSeq(Path[tip], common + 1, Len(Path[tip])),
                     !.redo = SubSeq(Path[job.id], common + 1, Len(Path[job.id]))]
    /\ UNCHANGED <<ledgerVars, queueVars, when, now>>

Reorganize ==
    /\ Continuing
    /\ job.id # tip
    /\ Better(job.id, tip)
    /\ LET common == Shared(tip, Previous(job.id))
       IN  job' = [job EXCEPT
                     !.stage = "reorganize",
                     !.undo = Reverse(SubSeq(Path[tip], common + 1, Len(Path[tip]))),
                     !.redo = SubSeq(Path[job.id], common + 1, Len(Path[job.id]))]
    /\ UNCHANGED <<ledgerVars, queueVars, when, now>>

Reorganizing == job # NoJob /\ job.stage = "reorganize"

(* disconnectCount *)
Disconnect ==
    /\ Reorganizing
    /\ job.undo # <<>>
    /\ DisconnectCount(Head(job.undo))
    /\ AddBatch(Head(job.undo))
    /\ job' = [job EXCEPT !.undo = Tail(@)]
    /\ UNCHANGED <<when, now>>

(* What makes ledger.ConnectCount succeed. *)
Connectable(c, vetoed) ==
    /\ Unprocessed(c)
    /\ Affordable(Effects(c))
    /\ Confirms(c) \cap vetoed = {}

(* connectCount: the last one of the list ends the job. *)
Connect(vetoed) ==
    /\ Reorganizing
    /\ job.undo = <<>>
    /\ Connectable(Head(job.redo), vetoed)
    /\ ConnectCount(Head(job.redo))
    /\ RemoveBatch(Head(job.redo), Len(job.redo) > 1, vetoed)
    /\ job' = IF Len(job.redo) > 1 THEN [job EXCEPT !.redo = Tail(@)] ELSE NoJob
    /\ UNCHANGED <<when, now>>

(* Mutant: returns the error without reconnectTip.                          *)
ConnectFails_NoReconnect(vetoed) ==
    /\ Reorganizing
    /\ job.undo = <<>>
    /\ ~Connectable(Head(job.redo), vetoed)
    /\ job' = NoJob
    /\ UNCHANGED <<ledgerVars, queueVars, when, now>>

(* ConnectCount returns an error: acceptCount calls reconnectTip, whose own *)
(* error is only logged.                                                    *)
ConnectFails(vetoed) ==
    /\ Reorganizing
    /\ job.undo = <<>>
    /\ ~Connectable(Head(job.redo), vetoed)
    /\ job' = IF job.restoring THEN NoJob
              ELSE [job EXCEPT !.id = job.oldTip, !.stage = "compare", !.redo = <<>>,
                               !.restoring = TRUE]
    /\ UNCHANGED <<ledgerVars, queueVars, when, now>>

(* processConsideration: the checks that depend on the state, then Add. *)
ProcessConsideration(x, vetoed) ==
    /\ job = NoJob
    /\ ~IsCounterPoint(x)
    /\ Len(cnQueue) < MAX_CONSIDERATION_QUEUE_LENGTH
    /\ cnIndex[x] = NoEntry
    /\ Includable(x, Height(tip) + 1)
    /\ Add(x, vetoed)
    /\ UNCHANGED <<ledgerVars, when, now, job>>

(* The client stops at any point and starts again.  The genesis count is    *)
(* processed already.                                                       *)
Restart ==
    /\ Restarts
    /\ cnQueue' = <<>>
    /\ cache' = NoCache
    /\ job' = NoJob
    /\ UNCHANGED <<ledgerVars, when, now>>

Tick ==
    /\ now < MaxTime
    /\ now' = now + 1
    /\ UNCHANGED <<ledgerVars, queueVars, when, job>>

Init ==
    /\ LedgerInit
    /\ QueueInit
    /\ now = 0
    /\ when = [c \in Counts |-> IF c = Genesis THEN 0 ELSE NotStored]
    /\ job = NoJob

Proceed ==
    \/ IsTip
    \/ SetAside
    \/ Reorganize
    \/ Disconnect
    \/ \E vetoed \in SUBSET CycleProne : Connect(vetoed) \/ ConnectFails(vetoed)

Next ==
    \/ \E c \in Counts \ {Genesis} : ProcessCount(c)
    \/ Proceed
    \/ \E x \in Considerations, vetoed \in SUBSET CycleProne :
          ProcessConsideration(x, vetoed)
    \/ Restart
    \/ Tick

(* The processor's goroutine goes on with the count it is processing. *)
Spec == Init /\ [][Next]_vars /\ WF_vars(Proceed)

-----------------------------------------------------------------------------
(* Validity of a whole branch, by its history and not by the tables *)

BranchEffects(c) ==
    IF Height(c) >= COUNTERPOINT_MATURITY
      THEN <<Body[CountAt(c, Height(c) - COUNTERPOINT_MATURITY)][1]>> \o Tail(Body[c])
      ELSE Tail(Body[c])

ValidOnParent(c) ==
    \A i \in DOMAIN BranchEffects(c) :
        LET x == BranchEffects(c)[i]
        IN  ~IsCounterPoint(x) =>
               Balance(Previous(c), By[x]) + Net(BranchEffects(c), By[x], 1, i - 1) >= 1

ValidBranches ==
    {c \in Counts :
        /\ \A h \in 1 .. Height(c) : ValidOnParent(CountAt(c, h))
        /\ \A g, h \in 0 .. Height(c) :
              g # h => Confirms(CountAt(c, g)) \cap Confirms(CountAt(c, h)) = {}}

-----------------------------------------------------------------------------
(* Properties *)

ProcessorTypeOK ==
    /\ TypeOK
    /\ cnQueue \in Seq(Considerations)
    /\ DOMAIN cache \subseteq Keys
    /\ \A k \in DOMAIN cache : cache[k] \in Int
    /\ when \in [Counts -> 0 .. MaxTime \cup {NotStored}]
    /\ now \in 0 .. MaxTime
    /\ job \in Jobs \cup {NoJob}

Chosen == INSTANCE Point WITH
    best    <- IF job = NoJob THEN tip ELSE job.oldTip,
    known   <- {c \in Counts : Known(c)},
    pending <- IF job = NoJob THEN NoCount ELSE job.new,
    Parent  <- [c \in Counts |-> IF c = Genesis THEN c ELSE Previous(c)],
    Valid   <- ValidBranches

(* Without restarts and without a cycle, disconnecting, connecting and, on  *)
(* an error, reconnectTip together amount to one choice: the better branch  *)
(* if it is valid, the old tip otherwise, and the job comes to an end.      *)
ImplementsPoint == Chosen!Spec

(* Every disconnect and connect of a reorganisation is one the ledger can   *)
(* do: the errors "does not match tip" and the panic in Undo are never met, *)
(* also when the walk starts from where a restart left the tip.             *)
PlanFollowsTip ==
    Reorganizing =>
        IF job.undo # <<>>
          THEN Head(job.undo) = tip /\ tip # Genesis /\ Undoable(Effects(tip))
          ELSE Previous(Head(job.redo)) = tip

(* "Ledger is an interface to a ledger built from the most-work point of    *)
(* counts" (ledger.go): between two counts no accepted count is better than *)
(* the tip.                                                                 *)
TipIsBest ==
    job = NoJob => \A c \in Counts \ {tip} : Known(c) => Better(tip, c)

(* "BranchType indicates the type of branch a particular count resides on"  *)
(* (ledger.go): MAIN is the branch of the tip, in the middle of a           *)
(* reorganisation too.                                                      *)
BranchTypesMatch ==
    \A c \in Counts :
        branchType[c] = "MAIN" <=> \E h \in 0 .. Height(tip) : CountAt(tip, h) = c

(* "if set consideration can't be rendered before" (translation.go, of      *)
(* Matures): no count of the branch confirms a consideration too early.     *)
NoneBeforeMaturity ==
    \A h \in 0 .. Height(tip) : \A x \in Confirms(CountAt(tip, h)) : h >= Matures[x]

(* The walks of acceptCountContinue only meet counts that are stored and    *)
(* accepted, whatever was interrupted: GetCountHeader never returns nil.    *)
KnownIsRooted ==
    \A c \in Counts \ {Genesis} :
        Known(c) => when[c] # NotStored /\ Known(Previous(c))

(* What waits in the queue is not confirmed on the branch of the tip, even  *)
(* where the index of the ledger is pruned.                                 *)
QueueIsUnconfirmed ==
    \A h \in 0 .. Height(tip) : Queued(cnQueue) \cap Confirms(CountAt(tip, h)) = {}

(* reprocessQueue: "remove considerations now in violation".  Between two   *)
(* counts the whole queue, in its order, could be confirmed by the next     *)
(* count: that is what the renderer puts in it.                             *)
QueueIsRenderable ==
    job = NoJob =>
        /\ \A x \in Queued(cnQueue) : Includable(x, Height(tip) + 1)
        /\ Affordable(cnQueue)
=============================================================================
