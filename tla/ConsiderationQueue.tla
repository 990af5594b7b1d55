------------------------- MODULE ConsiderationQueue -------------------------
(***************************************************************************)
(* ConsiderationQueueMemory: the considerations waiting for a count, and   *)
(* the imbalance cache that decides which of them may wait.  Its methods   *)
(* are called by the processor within a step that also calls the ledger,   *)
(* so they are given as the effect of one call on cnQueue and cache.       *)
(*                                                                         *)
(* The queue asks the consideration graph whether a consideration closes a *)
(* cycle (IsParentDescendant).  Here the answer is an input of the call:   *)
(* the set vetoed, any subset of CycleProne.                               *)
(***************************************************************************)
EXTENDS Ledger

CONSTANTS
    Matures, Expires,                   \* fields of a consideration, 0 when absent
    CycleProne,                         \* what the graph may object to
    MAX_CONSIDERATION_QUEUE_LENGTH      \* 100000 in constants.go

(* checkConsideration and acceptCount. *)
ASSUME QueueAssumption ==
    /\ Matures \in [Considerations -> Nat]
    /\ Expires \in [Considerations -> Nat]
    /\ CycleProne \subseteq {x \in Considerations : ~IsCounterPoint(x)}
    /\ MAX_CONSIDERATION_QUEUE_LENGTH \in Nat
    /\ \A c \in Counts : \A x \in Confirms(c) :
          ~IsCounterPoint(x) => /\ IsMature(Matures[x], Height(c))
                                /\ ~IsExpired(Expires[x], Height(c))

VARIABLES
    cnQueue,     \* list of considerations, front first
    cache        \* imbalanceCache: key -> imbalance, for the keys touched so far

queueVars == <<cnQueue, cache>>

Queued(q) == {q[i] : i \in DOMAIN q}

NoCache == [k \in {} |-> 0]

(* Would the consideration be acceptable in a count at this height? *)
Includable(x, height) ==
    /\ CheckConsiderationSeries(FALSE, Series[x], height)
    /\ IsMature(Matures[x], height)
    /\ ~IsExpired(Expires[x], height)

(* ImbalanceCache over a table of imbalances: a key is read from the table  *)
(* on first touch and from the cache from then on.                          *)
Cached(ch, table, k) == IF k \in DOMAIN ch THEN ch[k] ELSE table[k]

CanApply(ch, table, x) == Cached(ch, table, By[x]) >= 1

Applied(ch, table, x) ==
    [k \in DOMAIN ch \cup {By[x], For[x]} |->
        Cached(ch, table, k) + (IF k = For[x] THEN 1 ELSE IF k = By[x] THEN -1 ELSE 0)]

(* Add.  The cache keeps the effect of a consideration the graph rejects.   *)
Add(x, vetoed) ==
    IF x \notin Queued(cnQueue) /\ CanApply(cache, imbalance, x)
      THEN /\ cache' = Applied(cache, imbalance, x)
           /\ cnQueue' = IF x \in vetoed THEN cnQueue ELSE Append(cnQueue, x)
      ELSE UNCHANGED queueVars

(* The list without the members of a set, in its order. *)
Without(q, S) ==
    LET kept[i \in 0 .. Len(q)] ==
            IF i = 0 THEN <<>>
            ELSE IF q[i] \in S THEN kept[i - 1]
            ELSE Append(kept[i - 1], q[i])
    IN  kept[Len(q)]

(* AddBatch, with the considerations of a disconnected count: to the front, *)
(* in the order of the count.                                               *)
AddBatch(c) ==
    /\ cnQueue' = Tail(Body[c]) \o Without(cnQueue, Confirms(c))
    /\ UNCHANGED cache

(* Mutant: the cache is not reset.                                          *)
Reprocessed_StaleCache(q, table, height, vetoed) ==
    LET visit(acc, x) ==
            IF ~Includable(x, height + 1) \/ ~CanApply(acc.cache, table, x)
              THEN acc
              ELSE [queue |-> IF x \in vetoed THEN acc.queue ELSE Append(acc.queue, x),
                    cache |-> Applied(acc.cache, table, x)]
        run[i \in 0 .. Len(q)] ==
            IF i = 0 THEN [queue |-> <<>>, cache |-> cache] ELSE visit(run[i - 1], q[i])
    IN  run[Len(q)]

(* reprocessQueue at a height, over the imbalances of the ledger as it is   *)
(* after the connection: what stays in the queue, and the rebuilt cache.    *)
Reprocessed(q, table, height, vetoed) ==
    LET visit(acc, x) ==
            IF ~Includable(x, height + 1) \/ ~CanApply(acc.cache, table, x)
              THEN acc
              ELSE [queue |-> IF x \in vetoed THEN acc.queue ELSE Append(acc.queue, x),
                    cache |-> Applied(acc.cache, table, x)]
        run[i \in 0 .. Len(q)] ==
            IF i = 0 THEN [queue |-> <<>>, cache |-> NoCache] ELSE visit(run[i - 1], q[i])
    IN  run[Len(q)]

(* Mutant: removes nothing while more connections are coming.               *)
RemoveBatch_OnlyLast(c, more, vetoed) ==
    LET rest == Without(cnQueue, Confirms(c))
        kept == Reprocessed(rest, imbalance', Height(c), vetoed)
    IN  IF more
          THEN UNCHANGED queueVars
          ELSE cnQueue' = kept.queue /\ cache' = kept.cache

(* RemoveBatch, with the considerations of a connected count. *)
RemoveBatch(c, more, vetoed) ==
    LET rest == Without(cnQueue, Confirms(c))
        kept == Reprocessed(rest, imbalance', Height(c), vetoed)
    IN  IF more
          THEN cnQueue' = rest /\ UNCHANGED cache
          ELSE cnQueue' = kept.queue /\ cache' = kept.cache

(* NewConsiderationQueueMemory. *)
QueueInit == cnQueue = <<>> /\ cache = NoCache
=============================================================================
