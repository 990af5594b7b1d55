------------------------------ MODULE Renderer ------------------------------
(***************************************************************************)
(* Work: the count a renderer of this client works on, and the one a peer  *)
(* asked for with get_work, while the processor moves the tip and the      *)
(* queue and tells both of it.                                             *)
(*                                                                         *)
(* A count is the sequence of the bodies from the genesis count, so that   *)
(* its ID is its content and its branch; `by' tells apart counts with the  *)
(* same considerations.  All targets are alike: the longer branch is the   *)
(* better one.  A solution is found at any time.                           *)
(***************************************************************************)
EXTENDS Naturals, Sequences, FiniteSets, SequencesExt

CONSTANTS
    Considerations,
    R, W,               \* the renderer, and the writer loop of a peer with work
    Clients,            \* the sets of them that a client may have
    Others,             \* who renders the counts that come from other peers
    None,
    WorkIDs,            \* random numbers
    MAX_CONSIDERATIONS_TO_INCLUDE_PER_COUNT,    \* with the countpoint
    TipBuffer,          \* capacity of tipChangeChan: 1 for a renderer, 10 for a peer
    MaxCounts           \* bound: counts besides the genesis count

Workers == {R, W}

ASSUME RendererAssumption ==
    /\ R # W /\ R # Others /\ W # Others
    /\ Clients \subseteq SUBSET Workers
    /\ None \notin Workers \cup WorkIDs
    /\ Cardinality(WorkIDs) >= 4
    /\ TipBuffer \in [Workers -> Nat \ {0}]
    /\ MAX_CONSIDERATIONS_TO_INCLUDE_PER_COUNT \in Nat \ {0}
    /\ MaxCounts \in Nat

VARIABLES
    tip, stored,        \* of the ledger; counts accepted, on any branch
    queue,              \* the consideration queue
    job,                \* what the processor is doing, or NoJob
    at,                 \* worker -> where its loop is
    seen,               \* worker -> the tip it has read
    work,               \* worker -> the count it has, or None
    tipChangeChan,      \* worker -> messages
    newTxChan,          \* of the renderer: one message
    workID,             \* of the work the peer has
    toPeer, peerWork,   \* work on its way to the peer, and the work it is at
    submission          \* submit_work under way, or None

chainVars == <<tip, stored, queue, job>>
peerVars == <<workID, toPeer, peerWork, submission>>
vars == <<chainVars, at, seen, work, tipChangeChan, newTxChan, peerVars>>

Genesis == <<>>
Confirmed(c) == UNION {c[h].body : h \in DOMAIN c}

-----------------------------------------------------------------------------
(* The processor *)

Shared(c, d) ==
    Cardinality({h \in DOMAIN c \cap DOMAIN d : SubSeq(c, 1, h) = SubSeq(d, 1, h)})

NoJob ==
    [undo |-> 0, redo |-> <<>>, step |-> "none", sending |-> {}, message |-> None,
     caller |-> None, old |-> Genesis]

(* The disconnects and connects from the tip to a count. *)
Plan(c, caller, old) ==
    LET common == Shared(c, tip)
    IN  [undo |-> Len(tip) - common,
         redo |-> [i \in 1 .. Len(c) - common |-> SubSeq(c, 1, common + i)],
         step |-> "ledger", sending |-> {}, message |-> None,
         caller |-> caller, old |-> old]

(* ProcessCount returns; a renderer gives up its count either way. *)
Answer(caller) ==
    IF caller = None THEN UNCHANGED <<at, work>>
    ELSE /\ at' = [at EXCEPT ![caller] = "select"]
         /\ work' = IF caller = R THEN [work EXCEPT ![R] = None] ELSE work

Fits(c) == c \in stored \/ Cardinality(stored) <= MaxCounts

(* A valid count is known already, or on a side branch, or the better one.  *)
Accept(c, caller) ==
    /\ Fits(c)
    /\ stored' = stored \cup {c}
    /\ IF c \in stored \/ Len(c) <= Len(tip)
         THEN Answer(caller) /\ UNCHANGED job
         ELSE job' = Plan(c, caller, tip) /\ UNCHANGED <<at, work>>
    /\ UNCHANGED <<tip, queue>>

(* A valid count from another peer. *)
ReceiveCount ==
    /\ job = NoJob
    /\ \E parent \in stored, body \in SUBSET Considerations :
          LET c == Append(parent, [body |-> body, by |-> Others])
          IN  /\ body \cap Confirmed(parent) = {}
              /\ c \notin stored
              /\ Accept(c, None)
    /\ UNCHANGED <<seen, tipChangeChan, newTxChan, peerVars>>

(* processCount refuses a count that has a consideration twice, one whose   *)
(* header is of another body, and one that has what its branch confirms.    *)
Valid(w) ==
    /\ IsInjective(w.cns)
    /\ w.header.root = w.cns
    /\ Range(w.cns) \cap Confirmed(w.header.previous) = {}

(* The count of a worker. *)
TakeCount(a) ==
    /\ job = NoJob
    /\ at[a] = "calling"
    /\ LET c == Append(work[a].header.previous, [body |-> Range(work[a].cns), by |-> a])
       IN  IF Valid(work[a]) /\ Fits(c) THEN Accept(c, a)
           ELSE Answer(a) /\ UNCHANGED chainVars
    /\ UNCHANGED <<seen, tipChangeChan, newTxChan, peerVars>>

Working(step) == job.step = step

(* disconnectCount and connectCount: the ledger, then the queue, then a     *)
(* message to everyone registered.                                          *)
LedgerStep ==
    /\ Working("ledger")
    /\ IF job.undo > 0
         THEN /\ tip' = Front(tip)
              /\ job' = [job EXCEPT !.step = "queue", !.undo = @ - 1,
                            !.message = [count |-> tip, connect |-> FALSE, more |-> FALSE]]
         ELSE /\ tip' = Head(job.redo)
              /\ job' = [job EXCEPT !.step = "queue", !.redo = Tail(@),
                            !.message = [count |-> Head(job.redo), connect |-> TRUE,
                                         more |-> Len(job.redo) > 1]]
    /\ UNCHANGED <<stored, queue, at, seen, work, tipChangeChan, newTxChan, peerVars>>

(* ConnectCount fails: reconnectTip goes back to the old tip, which is      *)
(* better than the part of the new branch that was connected.               *)
ConnectFails ==
    /\ Working("ledger")
    /\ job.undo = 0
    /\ Last(job.redo) # job.old
    /\ stored' = stored \ {Last(job.redo)}
    /\ IF tip = job.old THEN job' = NoJob /\ Answer(job.caller)
       ELSE /\ job' = Plan(job.old, job.caller, job.old)
            /\ UNCHANGED <<at, work>>
    /\ UNCHANGED <<tip, queue, seen, tipChangeChan, newTxChan, peerVars>>

Registered == {a \in Workers : at[a] \notin {"away", "new"}}

(* AddBatch puts them first, RemoveBatch takes them out.                    *)
QueueStep ==
    /\ Working("queue")
    /\ LET body == Last(job.message.count).body
           others == SelectSeq(queue, LAMBDA x : x \notin body)
       IN  queue' = IF job.message.connect THEN others ELSE SetToSeq(body) \o others
    /\ job' = [job EXCEPT !.step = "send", !.sending = Registered]
    /\ UNCHANGED <<tip, stored, at, seen, work, tipChangeChan, newTxChan, peerVars>>

SendTo(a) ==
    /\ Working("send")
    /\ a \in job.sending
    /\ Len(tipChangeChan[a]) < TipBuffer[a]
    /\ tipChangeChan' = [tipChangeChan EXCEPT ![a] = Append(@, job.message)]
    /\ job' = [job EXCEPT !.sending = @ \ {a}]
    /\ UNCHANGED <<tip, stored, queue, at, seen, work, newTxChan, peerVars>>

(* After the last message: the next count, or the answer to the caller.     *)
Sent ==
    /\ Working("send")
    /\ job.sending = {}
    /\ IF job.undo = 0 /\ job.redo = <<>>
         THEN job' = NoJob /\ Answer(job.caller)
         ELSE job' = [job EXCEPT !.step = "ledger"] /\ UNCHANGED <<at, work>>
    /\ UNCHANGED <<tip, stored, queue, seen, tipChangeChan, newTxChan, peerVars>>

(* processConsideration: a new one joins the queue and is announced.        *)
ReceiveConsideration(x) ==
    /\ job = NoJob
    /\ x \notin Range(queue) \cup Confirmed(tip)
    /\ queue' = Append(queue, x)
    /\ job' = [Plan(tip, None, tip) EXCEPT !.step = "announce", !.message = x,
                  !.sending = Registered \cap {R}]
    /\ UNCHANGED <<tip, stored, at, seen, work, tipChangeChan, newTxChan, peerVars>>

Announce ==
    /\ Working("announce")
    /\ \/ job.sending = {} /\ UNCHANGED newTxChan
       \/ job.sending # {} /\ newTxChan = <<>> /\ newTxChan' = <<job.message>>
    /\ job' = NoJob
    /\ UNCHANGED <<tip, stored, queue, at, seen, work, tipChangeChan, peerVars>>

-----------------------------------------------------------------------------
(* The two workers *)

Selecting(a) == at[a] = "select"

(* The processor takes registrations between two counts. *)
Register(a) ==
    /\ at[a] = "new"
    /\ job = NoJob
    /\ at' = [at EXCEPT ![a] = "select"]
    /\ UNCHANGED <<chainVars, seen, work, tipChangeChan, newTxChan, peerVars>>

(* createNextCount: what the queue has, after a countpoint. *)
NextCount(previous) ==
    LET room == MAX_CONSIDERATIONS_TO_INCLUDE_PER_COUNT - 1
        cns == SubSeq(queue, 1, IF Len(queue) < room THEN Len(queue) ELSE room)
    IN  [header |-> [previous |-> previous, root |-> cns], cns |-> cns]

Outstanding ==
    {workID} \cup {m.id : m \in Range(toPeer) \cup ({peerWork, submission} \ {None})}

(* Mutant: keeps the ID of the work before.                                 *)
Start_SameID(a, previous) ==
    LET count == NextCount(previous)
        id == CHOOSE i \in WorkIDs : workID # None => i = workID
    IN  /\ work' = [work EXCEPT ![a] = count]
        /\ IF a = R THEN UNCHANGED <<workID, toPeer>>
           ELSE workID' = id /\ toPeer' = Append(toPeer, [id |-> id, header |-> count.header])

(* Mutant: takes the considerations it has to the new tip.                  *)
Start_Moves(a, previous) ==
    LET cns == IF work[a] = None THEN NextCount(previous).cns ELSE work[a].cns
        count == [header |-> [previous |-> previous, root |-> cns], cns |-> cns]
        id == CHOOSE i \in WorkIDs : i \notin Outstanding
    IN  /\ work' = [work EXCEPT ![a] = count]
        /\ IF a = R THEN UNCHANGED <<workID, toPeer>>
           ELSE workID' = id /\ toPeer' = Append(toPeer, [id |-> id, header |-> count.header])

(* Work on a tip; createNewWorkCount gives it a new ID and tells the peer.  *)
Start(a, previous) ==
    LET count == NextCount(previous)
        id == CHOOSE i \in WorkIDs : i \notin Outstanding
    IN  /\ work' = [work EXCEPT ![a] = count]
        /\ IF a = R THEN UNCHANGED <<workID, toPeer>>
           ELSE workID' = id /\ toPeer' = Append(toPeer, [id |-> id, header |-> count.header])

(* Mutant: goes on with the work it has.                                    *)
OnTipChange_Keeps(a) ==
    /\ Selecting(a)
    /\ tipChangeChan[a] # <<>>
    /\ tipChangeChan' = [tipChangeChan EXCEPT ![a] = Tail(@)]
    /\ LET m == Head(tipChangeChan[a])
       IN  IF m.connect /\ ~m.more /\ a = R /\ work[R] = None
             THEN Start(a, m.count) ELSE UNCHANGED <<work, workID, toPeer>>
    /\ UNCHANGED <<chainVars, at, seen, newTxChan, peerWork, submission>>

(* Only a connected tip with no more to come is built on, and by the peer   *)
(* only if it has asked for work.                                           *)
OnTipChange(a) ==
    /\ Selecting(a)
    /\ tipChangeChan[a] # <<>>
    /\ a = W => toPeer = <<>>
    /\ tipChangeChan' = [tipChangeChan EXCEPT ![a] = Tail(@)]
    /\ LET m == Head(tipChangeChan[a])
       IN  IF m.connect /\ ~m.more /\ (a = R \/ work[a] # None)
             THEN Start(a, m.count) ELSE UNCHANGED <<work, workID, toPeer>>
    /\ UNCHANGED <<chainVars, at, seen, newTxChan, peerWork, submission>>

Full(w) == Len(w.cns) + 1 >= MAX_CONSIDERATIONS_TO_INCLUDE_PER_COUNT

(* AddConsideration: to the body and the header, without a look at what the *)
(* count has.                                                               *)
OnNewTx ==
    /\ Selecting(R)
    /\ newTxChan # <<>>
    /\ newTxChan' = <<>>
    /\ work' = IF work[R] = None \/ Full(work[R]) THEN work
               ELSE [work EXCEPT ![R].cns = Append(@, newTxChan[1]),
                                 ![R].header.root = Append(@, newTxChan[1])]
    /\ UNCHANGED <<chainVars, at, seen, tipChangeChan, peerVars>>

Idle == Selecting(R) /\ tipChangeChan[R] = <<>> /\ newTxChan = <<>>

(* Reads the tip, and then (ReadQueue) the queue. *)
ReadTip(a) ==
    /\ seen' = [seen EXCEPT ![a] = tip]
    /\ at' = [at EXCEPT ![a] = "read"]
    /\ UNCHANGED <<chainVars, work, tipChangeChan, newTxChan, peerVars>>

(* The default case of the renderer, without work. *)
FindTip == Idle /\ work[R] = None /\ ReadTip(R)

ReadQueue(a) ==
    /\ at[a] = "read"
    /\ Start(a, seen[a])
    /\ seen' = [seen EXCEPT ![a] = None]
    /\ at' = [at EXCEPT ![a] = "select"]
    /\ UNCHANGED <<chainVars, tipChangeChan, newTxChan, peerWork, submission>>

(* The default case with work: a solution, which the processor has to take. *)
Solve ==
    /\ Idle
    /\ work[R] # None
    /\ at' = [at EXCEPT ![R] = "calling"]
    /\ UNCHANGED <<chainVars, seen, work, tipChangeChan, newTxChan, peerVars>>

(* The peer asks once, and the writer loop looks now and then whether the   *)
(* queue has another length than the work.                                  *)
OnGetWork ==
    /\ Selecting(W)
    /\ toPeer = <<>>
    /\ work[W] # None => ~Full(work[W]) /\ Len(work[W].cns) # Len(queue)
    /\ ReadTip(W)

(* The header of the submission goes with the considerations kept here,     *)
(* if it is for the current work.                                           *)
OnSubmitWork ==
    /\ Selecting(W)
    /\ submission # None
    /\ IF submission.id = workID
         THEN /\ at' = [at EXCEPT ![W] = "calling"]
              /\ work' = [work EXCEPT ![W].header = submission.header]
         ELSE UNCHANGED <<at, work>>
    /\ submission' = None
    /\ UNCHANGED <<chainVars, seen, tipChangeChan, newTxChan, workID, toPeer, peerWork>>

-----------------------------------------------------------------------------
(* The peer that renders: outside this program, as the messages allow *)

PeerGetsWork ==
    /\ toPeer # <<>>
    /\ peerWork' = Head(toPeer)
    /\ toPeer' = Tail(toPeer)
    /\ UNCHANGED <<chainVars, at, seen, work, tipChangeChan, newTxChan, workID, submission>>

PeerSolves ==
    /\ peerWork # None
    /\ submission = None
    /\ submission' = peerWork
    /\ peerWork' = None
    /\ UNCHANGED <<chainVars, at, seen, work, tipChangeChan, newTxChan, workID, toPeer>>

-----------------------------------------------------------------------------

Init ==
    /\ tip = Genesis
    /\ stored = {Genesis}
    /\ queue = <<>>
    /\ job = NoJob
    /\ \E present \in Clients :
          at = [a \in Workers |-> IF a \in present THEN "new" ELSE "away"]
    /\ seen = [a \in Workers |-> None]
    /\ work = [a \in Workers |-> None]
    /\ tipChangeChan = [a \in Workers |-> <<>>]
    /\ newTxChan = <<>>
    /\ workID = None
    /\ toPeer = <<>>
    /\ peerWork = None
    /\ submission = None

(* The processor goes on with what it does. *)
Proceed ==
    \/ LedgerStep \/ QueueStep \/ Sent \/ Announce
    \/ \E a \in Workers : SendTo(a)

(* A worker's loop, whose select has something to do. *)
Loop ==
    \/ OnNewTx \/ FindTip \/ PeerGetsWork
    \/ \E a \in Workers : OnTipChange(a) \/ ReadQueue(a)

Next ==
    \/ Proceed \/ Loop
    \/ ReceiveCount \/ ConnectFails \/ Solve \/ OnGetWork \/ OnSubmitWork \/ PeerSolves
    \/ \E x \in Considerations : ReceiveConsideration(x)
    \/ \E a \in Workers : Register(a) \/ TakeCount(a)

(* The goroutines run; the processor's select is fair to its callers.       *)
Spec ==
    /\ Init /\ [][Next]_vars
    /\ WF_vars(Proceed)
    /\ WF_vars(OnNewTx \/ FindTip \/ OnTipChange(R) \/ ReadQueue(R))
    /\ WF_vars(PeerGetsWork \/ OnTipChange(W) \/ ReadQueue(W))
    /\ SF_vars(Register(R))
    /\ SF_vars(TakeCount(R)) /\ SF_vars(TakeCount(W))

-----------------------------------------------------------------------------
(* Properties *)

(* A worker that has heard of everything the processor has sent works on    *)
(* the tip, whatever it read in the middle of a reorganisation              *)
(* (renderer.go:120, 190; peer.go createNewWorkCount), and never after a    *)
(* reorganisation that failed.                                              *)
WorkIsCurrent ==
    \A a \in Workers :
        job = NoJob /\ Selecting(a) /\ tipChangeChan[a] = <<>> /\ work[a] # None
            => work[a].header.previous = tip

(* What a peer submits is put together with the considerations its header   *)
(* was made for, also when the tip or the queue has changed in between and  *)
(* new work is under way to it (peer.go:1784).                              *)
SubmittedIsWhole ==
    \A a \in Workers : at[a] = "calling" => work[a].header.root = work[a].cns

(* The renderer or the peer waits for the processor to take its count, and  *)
(* the processor for it to take a message (see Notify).                     *)
Stuck ==
    \E a \in Workers :
        /\ at[a] = "calling"
        /\ \/ Working("send") /\ a \in job.sending /\ Len(tipChangeChan[a]) = TipBuffer[a]
           \/ Working("announce") /\ a \in job.sending /\ newTxChan # <<>>

(* What waits in the queue gets into the count the renderer works on, by    *)
(* the queue it starts from or by the announcement, whatever happens first  *)
(* (renderer.go:147), unless the count is full.                             *)
QueuedIsRendered ==
    \A x \in Considerations :
        x \in Range(queue) ~>
            \/ x \notin Range(queue)
            \/ at[R] = "away"
            \/ work[R] # None /\ (x \in Range(work[R].cns) \/ Full(work[R]))
            \/ Stuck
=============================================================================
