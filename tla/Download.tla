------------------------------ MODULE Download ------------------------------
(***************************************************************************)
(* How the client downloads counts from several peers: the reader loop of  *)
(* each connection with its two local queues, and the queue of counts in   *)
(* flight the connections share.  The other end runs the same program; it  *)
(* is modelled by the handlers that serve counts, over a branch of its own *)
(* that may grow by new tips.                                              *)
(*                                                                         *)
(* A message of several IDs is handled one ID at a time, and the download  *)
(* queue one count at a time: the other connections and the processor run  *)
(* in between.  Processing is the choice of the longest valid branch.      *)
(***************************************************************************)
EXTENDS Integers, Sequences, FiniteSets, SequencesExt

CONSTANTS
    Peers,
    Counts, Genesis, Path,      \* Path[c]: the branch from the genesis count to c
    Invalid,                    \* counts the ledger refuses
    NoCount,
    Tips,                       \* peer -> the successive tips of its branch
    maxCountsPerInv,            \* 500
    inflightQueueMax,           \* 8
    downloadQueueMax,           \* 5000
    RecentHeight,               \* counts from this height are recent enough
    MaxDrops, MaxExpiries       \* bounds: connections lost, requests expired

(* The branch to d is the one to c with d on top.                           *)
Follows(d, c) == Path[d] = Append(Path[c], d)

(* A tip follows the one before it, or the other way round: the peer        *)
(* connects and disconnects one count at a time.                            *)
ASSUME DownloadAssumption ==
    /\ Genesis \in Counts /\ NoCount \notin Counts
    /\ Path \in [Counts -> Seq(Counts)]
    /\ \A c \in Counts : Path[c] # <<>> /\ Path[c][1] = Genesis /\ Last(Path[c]) = c
    /\ Invalid \subseteq Counts \ {Genesis}
    /\ \A p \in Peers :
          /\ Tips[p] \in Seq(Counts) /\ Tips[p] # <<>>
          /\ \A i \in 1 .. Len(Tips[p]) - 1 :
                Follows(Tips[p][i + 1], Tips[p][i]) \/ Follows(Tips[p][i], Tips[p][i + 1])
    /\ {maxCountsPerInv, inflightQueueMax, downloadQueueMax} \subseteq Nat \ {0}
    /\ {RecentHeight, MaxDrops, MaxExpiries} \subseteq Nat

VARIABLES
    processed,      \* counts with a branch type
    stored,         \* counts with a header
    tip,
    localDownloadQueue, localInflightQueue,  \* peer -> list of counts
    globalInflightQueue,                     \* count -> its owner and whether it has expired
    reader,         \* peer -> what its reader loop is doing, and with which count
    toPeer, fromPeer,                        \* peer -> messages under way
    remoteTip,      \* peer -> index of its tip in Tips
    continuationCountID,                     \* at the peer
    drops, expiries,
    everExpired     \* history: counts that waited too long in flight

nodeVars == <<processed, stored, tip>>
queueVars == <<localDownloadQueue, localInflightQueue, globalInflightQueue>>
remoteVars == <<remoteTip, continuationCountID>>
boundVars == <<drops, expiries, everExpired>>
vars == <<nodeVars, queueVars, reader, toPeer, fromPeer, remoteVars, boundVars>>

Height(c) == Len(Path[c]) - 1
Previous(c) == Path[c][Len(Path[c]) - 1]
Branch(c) == Range(Path[c])

-----------------------------------------------------------------------------
(* Messages *)

Inv(ids) == [type |-> "inv_count", ids |-> ids, length |-> Len(ids)]
GetCount(c) == [type |-> "get_count", ids |-> <<c>>, length |-> 1]
TheCount(c) == [type |-> "count", ids |-> <<c>>, length |-> 1]
FindCommonAncestor(ids) ==
    [type |-> "find_common_ancestor", ids |-> ids, length |-> Len(ids)]

(* sendFindCommonAncestor: the count it starts from, the counts of the main *)
(* branch at the heights below it down to one, as far as there are any, and *)
(* the genesis count.  (The step of one doubles after ten.)                 *)
Locator(start) ==
    LET below == IF Height(start) - 1 <= Height(tip)
                   THEN Reverse(SubSeq(Path[tip], 2, Height(start))) ELSE <<>>
    IN  IF start = Genesis THEN <<Genesis>> ELSE <<start>> \o below \o <<Genesis>>

Send(p, m) == toPeer' = [toPeer EXCEPT ![p] = Append(@, m)]

Connected(p) == reader[p].at # "gone"

Reading(p, type) ==
    /\ reader[p].at = "read"
    /\ fromPeer[p] # <<>>
    /\ Head(fromPeer[p]).type = type

Go(p, where, c) == reader' = [reader EXCEPT ![p] = [at |-> where, id |-> c]]

Received(p) == fromPeer' = [fromPeer EXCEPT ![p] = Tail(@)]

(* One ID of the message at the head is done. *)
NextID(p) ==
    LET m == Head(fromPeer[p])
    IN  fromPeer' = [fromPeer EXCEPT ![p] =
                        IF Len(m.ids) = 1 THEN Tail(@)
                        ELSE <<[m EXCEPT !.ids = Tail(@)]>> \o Tail(@)]

Queued(p, c) == c \in Range(localDownloadQueue[p]) \cup Range(localInflightQueue[p])

-----------------------------------------------------------------------------
(* The shared queue *)

InFlight == DOMAIN globalInflightQueue

(* Mutant: an entry of another peer is no obstacle.                         *)
CanAdd_Always(c) == TRUE

(* Add succeeds for a new count, and for one that has waited too long: the  *)
(* one who asks becomes its owner.                                          *)
CanAdd(c) == c \in InFlight => globalInflightQueue[c].expired

Added(c, p) ==
    [d \in InFlight \cup {c} |->
        IF d = c THEN [who |-> p, expired |-> FALSE] ELSE globalInflightQueue[d]]

(* Remove: only by the owner. *)
Removed(cs, p) ==
    [d \in {e \in InFlight : e \in cs => globalInflightQueue[e].who # p} |->
        globalInflightQueue[d]]

(* maxQueueWait has elapsed for a count in flight.                          *)
Expire(c) ==
    /\ c \in InFlight
    /\ ~globalInflightQueue[c].expired
    /\ expiries < MaxExpiries
    /\ expiries' = expiries + 1
    /\ everExpired' = everExpired \cup {c}
    /\ globalInflightQueue' = [globalInflightQueue EXCEPT ![c].expired = TRUE]
    /\ UNCHANGED <<nodeVars, localDownloadQueue, localInflightQueue, reader, toPeer,
                   fromPeer, remoteVars, drops>>
-----------------------------------------------------------------------------
(* The reader loop *)

(* onInvCount.  The last ID of a list that is processed already asks for    *)
(* more: the list may be a piece of a long side branch.                     *)
OnInvCount(p) ==
    /\ Reading(p, "inv_count")
    /\ LET m == Head(fromPeer[p])
           id == Head(m.ids)
       IN  \/ /\ Queued(p, id)
              /\ UNCHANGED <<localDownloadQueue, reader, toPeer>>
           \/ /\ ~Queued(p, id)
              /\ id \in processed
              /\ IF m.length > 1 /\ Len(m.ids) = 1
                   THEN Send(p, FindCommonAncestor(Locator(id)))
                   ELSE UNCHANGED toPeer
              /\ UNCHANGED <<localDownloadQueue, reader>>
           \/ /\ ~Queued(p, id)
              /\ id \notin processed
              /\ IF Len(localDownloadQueue[p]) >= downloadQueueMax
                   THEN UNCHANGED <<localDownloadQueue, reader>>
                   ELSE /\ localDownloadQueue' = [localDownloadQueue EXCEPT ![p] = Append(@, id)]
                        /\ Go(p, "fill", NoCount)
              /\ UNCHANGED toPeer
    /\ NextID(p)
    /\ UNCHANGED <<nodeVars, localInflightQueue, globalInflightQueue, remoteVars, boundVars>>

(* processDownloadQueue, its end: the peer has enough to do, there is       *)
(* nothing to download, or somebody else is at the first count.             *)
FillEnds(p) ==
    /\ \/ /\ reader[p].at = "fill"
          /\ \/ Len(localInflightQueue[p]) >= inflightQueueMax
             \/ localDownloadQueue[p] = <<>>
       \/ reader[p].at = "add" /\ ~CanAdd(reader[p].id)
    /\ Go(p, "read", NoCount)
    /\ UNCHANGED <<nodeVars, queueVars, toPeer, fromPeer, remoteVars, boundVars>>

(* The first count of the queue, if it was not processed meanwhile ...      *)
Fill(p) ==
    /\ reader[p].at = "fill"
    /\ Len(localInflightQueue[p]) < inflightQueueMax
    /\ localDownloadQueue[p] # <<>>
    /\ LET id == Head(localDownloadQueue[p])
       IN  IF id \in processed
             THEN /\ localDownloadQueue' = [localDownloadQueue EXCEPT ![p] = Tail(@)]
                  /\ UNCHANGED reader
             ELSE /\ Go(p, "add", id)
                  /\ UNCHANGED localDownloadQueue
    /\ UNCHANGED <<nodeVars, localInflightQueue, globalInflightQueue, toPeer, fromPeer,
                   remoteVars, boundVars>>

(* Mutant: the latest request is put first.                                 *)
Request_First(p) ==
    /\ reader[p].at = "add"
    /\ LET id == reader[p].id
       IN  /\ CanAdd(id)
           /\ globalInflightQueue' = Added(id, p)
           /\ localDownloadQueue' = [localDownloadQueue EXCEPT ![p] = Tail(@)]
           /\ localInflightQueue' = [localInflightQueue EXCEPT ![p] = <<id>> \o @]
           /\ Send(p, GetCount(id))
    /\ Go(p, "fill", NoCount)
    /\ UNCHANGED <<nodeVars, fromPeer, remoteVars, boundVars>>

(* ... is put in flight and requested.                                      *)
Request(p) ==
    /\ reader[p].at = "add"
    /\ LET id == reader[p].id
       IN  /\ CanAdd(id)
           /\ globalInflightQueue' = Added(id, p)
           /\ localDownloadQueue' = [localDownloadQueue EXCEPT ![p] = Tail(@)]
           /\ localInflightQueue' = [localInflightQueue EXCEPT ![p] = Append(@, id)]
           /\ Send(p, GetCount(id))
    /\ Go(p, "fill", NoCount)
    /\ UNCHANGED <<nodeVars, fromPeer, remoteVars, boundVars>>

(* The connection ends: what was requested is free for others, what was     *)
(* queued is forgotten.                                                     *)
Close(p) ==
    /\ globalInflightQueue' = Removed(Range(localInflightQueue[p]), p)
    /\ localInflightQueue' = [localInflightQueue EXCEPT ![p] = <<>>]
    /\ localDownloadQueue' = [localDownloadQueue EXCEPT ![p] = <<>>]
    /\ toPeer' = [toPeer EXCEPT ![p] = <<>>]
    /\ fromPeer' = [fromPeer EXCEPT ![p] = <<>>]
    /\ Go(p, "gone", NoCount)

(* Mutant: leaves the entry of the shared queue to expire.                  *)
Forget_Local(p, id) ==
    /\ localInflightQueue' =
          [localInflightQueue EXCEPT ![p] = RemoveFirst(@, id)]
    /\ UNCHANGED globalInflightQueue

Forget(p, id) ==
    /\ localInflightQueue' =
          [localInflightQueue EXCEPT ![p] = RemoveFirst(@, id)]
    /\ globalInflightQueue' = Removed({id}, p)

Expected(p, id) == localInflightQueue[p] # <<>> /\ Head(localInflightQueue[p]) = id

(* onCount, an orphan: it is dropped, and the peer is asked where the       *)
(* branches part.                                                           *)
OnOrphan(p) ==
    /\ Reading(p, "count")
    /\ LET id == Head(Head(fromPeer[p]).ids)
       IN  /\ Expected(p, id)
           /\ Previous(id) \notin stored
           /\ Forget(p, id)
           /\ Send(p, FindCommonAncestor(Locator(tip)))
    /\ Received(p)
    /\ Go(p, "fill", NoCount)
    /\ UNCHANGED <<nodeVars, localDownloadQueue, remoteVars, boundVars>>

(* onCount, up to the call of ProcessCount.                                 *)
OnCount(p) ==
    /\ Reading(p, "count")
    /\ LET id == Head(Head(fromPeer[p]).ids)
       IN  /\ Expected(p, id)
           /\ Previous(id) \in stored
           /\ Go(p, "process", id)
    /\ Received(p)
    /\ UNCHANGED <<nodeVars, queueVars, toPeer, remoteVars, boundVars>>

(* ProcessCount answers nil: the count was or is now processed.  Only then  *)
(* it is no longer in flight.                                               *)
CountProcessed(p) ==
    /\ reader[p].at = "process"
    /\ LET id == reader[p].id
       IN  /\ id \in processed \/ (Previous(id) \in processed /\ id \notin Invalid)
           /\ processed' = processed \cup {id}
           /\ stored' = stored \cup {id}
           /\ tip' = IF Height(id) > Height(tip) THEN id ELSE tip
           /\ Forget(p, id)
    /\ Go(p, "fill", NoCount)
    /\ UNCHANGED <<localDownloadQueue, toPeer, fromPeer, remoteVars, boundVars>>

(* The client closes the connection: the count was not requested, or        *)
(* ProcessCount answers an error.  An invalid count is stored all the same; *)
(* a child of one is an orphan.                                             *)
Refuse(p) ==
    /\ \/ /\ Reading(p, "count")
          /\ ~Expected(p, Head(Head(fromPeer[p]).ids))
          /\ UNCHANGED stored
       \/ /\ reader[p].at = "process"
          /\ reader[p].id \notin processed
          /\ \/ /\ Previous(reader[p].id) \notin processed
                /\ UNCHANGED stored
             \/ /\ Previous(reader[p].id) \in processed
                /\ reader[p].id \in Invalid
                /\ stored' = stored \cup {reader[p].id}
    /\ Close(p)
    /\ UNCHANGED <<processed, tip, remoteVars, boundVars>>

(* Mutant: a stalled connection is not ended.                               *)
InitialDownload_Never == FALSE

(* IsInitialCountDownload: the tip is old. *)
InitialDownload == Height(tip) < RecentHeight

(* A pong after the initial download tries the queue again.                 *)
Pong(p) ==
    /\ reader[p].at = "read"
    /\ ~InitialDownload
    /\ localDownloadQueue[p] # <<>>
    /\ Go(p, "fill", NoCount)
    /\ UNCHANGED <<nodeVars, queueVars, toPeer, fromPeer, remoteVars, boundVars>>

(* A pong during the initial download, when the peer has sent nothing new   *)
(* for syncWait, ends the connection.  With nothing under way this must     *)
(* come; with messages under way it may, see Drop.                          *)
Stall(p) ==
    /\ reader[p].at = "read"
    /\ InitialDownload
    /\ toPeer[p] = <<>> /\ fromPeer[p] = <<>>
    /\ Close(p)
    /\ UNCHANGED <<nodeVars, remoteVars, boundVars>>

(* The connection is lost.  This is also the pong that ends a connection    *)
(* which has sent nothing new for syncWait while messages are under way.    *)
Drop(p) ==
    /\ reader[p].at = "read"
    /\ drops < MaxDrops
    /\ drops' = drops + 1
    /\ Close(p)
    /\ UNCHANGED <<nodeVars, remoteVars, expiries, everExpired>>

(* A new connection to the peer: both ends start afresh, and ours asks      *)
(* where the branches part.                                                 *)
Connect(p) ==
    /\ ~Connected(p)
    /\ Go(p, "read", NoCount)
    /\ Send(p, FindCommonAncestor(Locator(tip)))
    /\ continuationCountID' = [continuationCountID EXCEPT ![p] = NoCount]
    /\ UNCHANGED <<nodeVars, queueVars, fromPeer, remoteTip, boundVars>>

-----------------------------------------------------------------------------
(* The other end *)

TipOf(p) == Tips[p][remoteTip[p]]

Tell(p, messages) == fromPeer' = [fromPeer EXCEPT ![p] = @ \o messages]

Asked(p, type) == toPeer[p] # <<>> /\ Head(toPeer[p]).type = type

Served(p) == toPeer' = [toPeer EXCEPT ![p] = Tail(@)]

(* onGetCount.  The last count of a list is followed by the tip, which is   *)
(* to prompt the next find_common_ancestor.                                 *)
OnGetCount(p) ==
    /\ Asked(p, "get_count")
    /\ LET id == Head(Head(toPeer[p]).ids)
       IN  IF id = continuationCountID[p]
             THEN /\ Tell(p, <<TheCount(id), Inv(<<TipOf(p)>>)>>)
                  /\ continuationCountID' = [continuationCountID EXCEPT ![p] = NoCount]
             ELSE /\ Tell(p, <<TheCount(id)>>)
                  /\ UNCHANGED continuationCountID
    /\ Served(p)
    /\ UNCHANGED <<nodeVars, queueVars, reader, remoteTip, boundVars>>

(* The counts after the first ID that is on the branch, at most             *)
(* maxCountsPerInv of them.                                                 *)
After(p, ids) ==
    LET common == CHOOSE i \in DOMAIN ids :
                     /\ ids[i] \in Branch(TipOf(p))
                     /\ \A j \in 1 .. i - 1 : ids[j] \notin Branch(TipOf(p))
        from == Height(ids[common]) + 2
    IN  SubSeq(Path[TipOf(p)], from, Min({Len(Path[TipOf(p)]), from + maxCountsPerInv - 1}))

(* onFindCommonAncestor, for the IDs of one message.                        *)
OnFindCommonAncestor(p) ==
    /\ Asked(p, "find_common_ancestor")
    /\ LET ids == After(p, Head(toPeer[p]).ids)
       IN  IF ids = <<>>
             THEN UNCHANGED <<fromPeer, continuationCountID>>
             ELSE /\ Tell(p, <<Inv(ids)>>)
                  /\ continuationCountID' = [continuationCountID EXCEPT ![p] = Last(ids)]
    /\ Served(p)
    /\ UNCHANGED <<nodeVars, queueVars, reader, remoteTip, boundVars>>

(* The tip of the peer changes: it announces every count it connects, also  *)
(* in the middle of a reorganisation, and none it disconnects.              *)
Announce(p) ==
    /\ remoteTip[p] < Len(Tips[p])
    /\ remoteTip' = [remoteTip EXCEPT ![p] = @ + 1]
    /\ LET next == Tips[p][remoteTip[p] + 1]
       IN  IF Connected(p) /\ Follows(next, TipOf(p)) THEN Tell(p, <<Inv(<<next>>)>>)
                                                     ELSE UNCHANGED fromPeer
    /\ UNCHANGED <<nodeVars, queueVars, reader, toPeer, continuationCountID, boundVars>>

-----------------------------------------------------------------------------
Init ==
    /\ processed = {Genesis}
    /\ stored = {Genesis}
    /\ tip = Genesis
    /\ localDownloadQueue = [p \in Peers |-> <<>>]
    /\ localInflightQueue = [p \in Peers |-> <<>>]
    /\ globalInflightQueue = [c \in {} |-> NoCount]
    /\ reader = [p \in Peers |-> [at |-> "gone", id |-> NoCount]]
    /\ toPeer = [p \in Peers |-> <<>>]
    /\ fromPeer = [p \in Peers |-> <<>>]
    /\ remoteTip = [p \in Peers |-> 1]
    /\ continuationCountID = [p \in Peers |-> NoCount]
    /\ drops = 0
    /\ expiries = 0
    /\ everExpired = {}

Read(p) ==
    \/ OnInvCount(p) \/ Fill(p) \/ FillEnds(p) \/ Request(p)
    \/ OnOrphan(p) \/ OnCount(p) \/ CountProcessed(p) \/ Refuse(p)

Serve(p) == OnGetCount(p) \/ OnFindCommonAncestor(p)

Next ==
    \/ \E p \in Peers : \/ Read(p) \/ Serve(p) \/ Connect(p) \/ Announce(p)
                        \/ Pong(p) \/ Stall(p) \/ Drop(p)
    \/ \E c \in Counts : Expire(c)

(* Connections are read and served, the peer manager connects again, and    *)
(* pings keep going.                                                        *)
Spec ==
    /\ Init
    /\ [][Next]_vars
    /\ \A p \in Peers : /\ WF_vars(Read(p)) /\ WF_vars(Serve(p)) /\ WF_vars(Connect(p))
                        /\ WF_vars(Pong(p)) /\ WF_vars(Stall(p))

-----------------------------------------------------------------------------
(* Properties *)

DownloadTypeOK ==
    /\ processed \subseteq stored /\ stored \subseteq Counts
    /\ tip \in processed
    /\ localDownloadQueue \in [Peers -> Seq(Counts)]
    /\ localInflightQueue \in [Peers -> Seq(Counts)]
    /\ \A p \in Peers : /\ Len(localDownloadQueue[p]) <= downloadQueueMax
                        /\ Len(localInflightQueue[p]) <= inflightQueueMax
                        /\ IsInjective(localDownloadQueue[p] \o localInflightQueue[p])
    /\ \A c \in InFlight : c \in Counts /\ globalInflightQueue[c].who \in Peers
    /\ reader \in [Peers -> [at : {"gone", "read", "fill", "add", "process"},
                             id : Counts \cup {NoCount}]]

(* How many of the first i messages have this type. *)
OfType(messages, type, i) == Cardinality({j \in 1 .. i : messages[j].type = type})

(* "disconnect misbehaving peer" (peer.go:908) never hits one that answers  *)
(* every request in turn: the requests and answers under way, with the      *)
(* count that is being processed, are what the client holds in flight, in   *)
(* this order, whatever other connections, expiries and orphans do.         *)
InFlightIsUnderWay ==
    \A p \in Peers :
        LET held == localInflightQueue[p]
            taken == IF reader[p].at = "process" THEN 1 ELSE 0
            answered == taken + OfType(fromPeer[p], "count", Len(fromPeer[p]))
        IN  /\ Len(held) = answered + OfType(toPeer[p], "get_count", Len(toPeer[p]))
            /\ taken = 1 => held[1] = reader[p].id
            /\ \A i \in DOMAIN fromPeer[p] :
                  fromPeer[p][i].type = "count" =>
                    held[taken + OfType(fromPeer[p], "count", i)] = fromPeer[p][i].ids[1]
            /\ \A i \in DOMAIN toPeer[p] :
                  toPeer[p][i].type = "get_count" =>
                    held[answered + OfType(toPeer[p], "get_count", i)] = toPeer[p][i].ids[1]

(* A count in flight is held by a connection that still waits for it: no    *)
(* entry of the shared queue blocks a download nobody is doing.             *)
OwnerIsWaiting ==
    \A c \in InFlight : c \in Range(localInflightQueue[globalInflightQueue[c].who])

(* What holds of the queues in every state. *)
DownloadInv == DownloadTypeOK /\ OwnerIsWaiting

(* Two peers are asked for one count only after the first request expired.  *)
OneRequestPerCount ==
    \A p, q \in Peers :
        p # q => Range(localInflightQueue[p]) \cap Range(localInflightQueue[q])
                   \subseteq everExpired

(* The client comes to have every count that is on a valid branch of a peer,*)
(* through lost connections, expired requests, orphans, pieces of a branch  *)
(* and another peer whose branch is invalid.                                *)
EventuallySynced ==
    \A p \in Peers : []<>(Branch(TipOf(p)) \cap Invalid = {} => TipOf(p) \in processed)
=============================================================================
