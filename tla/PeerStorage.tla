---------------------------- MODULE PeerStorage ----------------------------
(***************************************************************************)
(* The store of peer addresses: a row p for each address, a row a by the   *)
(* time of the last attempt, a row s by the time of the last success, and  *)
(* in memory the addresses connected to.                                   *)
(*                                                                         *)
(* Every operation reads the row of the address and then writes a batch;   *)
(* no lock joins the two, so they are two steps of the goroutine `who'.    *)
(* Times are minutes; those below Epoch are the random positions given to  *)
(* addresses that have not been tried.                                     *)
(***************************************************************************)
EXTENDS Integers, Sequences, FiniteSets

CONSTANTS
    Addresses, NoRow,
    Goroutines,         \* those that use the store
    NoOperation,
    Epoch,              \* 2^30 seconds: a time no real attempt is below
    NewPositions,       \* the random positions below it
    Elapses, MaxTime    \* how the clock may move, and its bound

ASSUME PeerStorageAssumption ==
    /\ NoRow \notin [FirstSeen : Nat, LastAttempt : Nat, LastSuccess : Nat]
    /\ Epoch \in Nat \ {0} /\ NewPositions \subseteq 0 .. Epoch - 1
    /\ Elapses \subseteq Nat \ {0} /\ MaxTime \in Nat

VARIABLES
    peerInfo,           \* rows p: address -> its times, or NoRow
    lastAttempts,       \* rows a
    lastSuccesses,      \* rows s
    connectedPeers,     \* in memory
    now,
    operation           \* goroutine -> the operation between its read and its write

rowVars == <<peerInfo, lastAttempts, lastSuccesses>>
storeVars == <<rowVars, connectedPeers, operation>>

(* The addresses an earlier run learned. *)
StorageInit ==
    /\ now = Epoch
    /\ \E known \in SUBSET Addresses, t \in NewPositions :
          /\ peerInfo = [a \in Addresses |->
                IF a \in known THEN [FirstSeen |-> now, LastAttempt |-> t, LastSuccess |-> 0]
                               ELSE NoRow]
          /\ lastAttempts = {<<t, a>> : a \in known}
    /\ lastSuccesses = {}
    /\ connectedPeers = {}
    /\ operation = [who \in Goroutines |-> NoOperation]

Elapse ==
    /\ \E d \in Elapses : now + d <= MaxTime /\ now' = now + d
    /\ UNCHANGED storeVars

-----------------------------------------------------------------------------
(* What the times say *)

CeilSqrt(n) == CHOOSE r \in 0 .. n : r * r >= n /\ (r - 1) * (r - 1) < n

(* The longer an address has not been seen, the longer until it is tried    *)
(* again; one that has never been tried may be tried at once.               *)
shouldRetry(info) ==
    LET lastSeen == IF info.LastSuccess = 0 THEN info.FirstSeen ELSE info.LastSuccess
        hoursSinceLastSeen == (now - lastSeen) \div 60
        minutesSinceLastAttempt == now - info.LastAttempt
    IN  \/ info.LastAttempt < Epoch
        \/ hoursSinceLastSeen <= 0 /\ minutesSinceLastAttempt > 10
        \/ /\ hoursSinceLastSeen > 0
           /\ minutesSinceLastAttempt \div 60 > CeilSqrt(hoursSinceLastSeen)

(* One that was never connected to, or not for more than a week.            *)
shouldDelete(info) ==
    info.LastSuccess = 0 \/ now - info.LastSuccess > 7 * 24 * 60

-----------------------------------------------------------------------------
(* Operations *)

(* getPeerInfo, at the head of each of them. *)
Begin(who, op, a) ==
    operation' = [operation EXCEPT ![who] = [op |-> op, addr |-> a, info |-> peerInfo[a]]]

Found(who) == operation[who].info # NoRow

Put(a, info) == peerInfo' = [peerInfo EXCEPT ![a] = info]

(* A new address, unless the row was there when it was looked up. *)
Store(a, info) ==
    \/ /\ info = NoRow
       /\ \E t \in NewPositions :
             /\ Put(a, [FirstSeen |-> now, LastAttempt |-> t, LastSuccess |-> 0])
             /\ lastAttempts' = lastAttempts \cup {<<t, a>>}
       /\ UNCHANGED <<lastSuccesses, connectedPeers>>
    \/ /\ info # NoRow
       /\ UNCHANGED <<rowVars, connectedPeers>>

(* Mutant: leaves the new row a out of the batch.                           *)
OnConnectAttempt_Unlisted(a, info) ==
    /\ Put(a, [info EXCEPT !.LastAttempt = now])
    /\ lastAttempts' = lastAttempts \ {<<info.LastAttempt, a>>}
    /\ UNCHANGED <<lastSuccesses, connectedPeers>>

(* Mutant: the key of the new row a with its parts in the wrong order.      *)
OnConnectAttempt_Swapped(a, info) ==
    /\ Put(a, [info EXCEPT !.LastAttempt = now])
    /\ lastAttempts' = (lastAttempts \ {<<info.LastAttempt, a>>}) \cup {<<a, now>>}
    /\ UNCHANGED <<lastSuccesses, connectedPeers>>

OnConnectAttempt(a, info) ==
    /\ Put(a, [info EXCEPT !.LastAttempt = now])
    /\ lastAttempts' = (lastAttempts \ {<<info.LastAttempt, a>>}) \cup {<<now, a>>}
    /\ UNCHANGED <<lastSuccesses, connectedPeers>>

OnConnectSuccess(a, info) ==
    /\ Put(a, [info EXCEPT !.LastSuccess = now])
    /\ lastSuccesses' = (lastSuccesses \ {<<info.LastSuccess, a>>}) \cup {<<now, a>>}
    /\ connectedPeers' = connectedPeers \cup {a}
    /\ UNCHANGED lastAttempts

deletePeer(a, info) ==
    /\ Put(a, NoRow)
    /\ lastAttempts' = lastAttempts \ {<<info.LastAttempt, a>>}
    /\ lastSuccesses' = lastSuccesses \ {<<info.LastSuccess, a>>}
    /\ UNCHANGED connectedPeers

OnConnectFailure(a, info) ==
    IF shouldDelete(info) THEN deletePeer(a, info)
                          ELSE UNCHANGED <<rowVars, connectedPeers>>

(* The second half of an operation; except for Store, it is an error when   *)
(* the row was not there.                                                   *)
Finish(who) ==
    LET o == operation[who]
    IN  /\ o # NoOperation
        /\ operation' = [operation EXCEPT ![who] = NoOperation]
        /\ IF o.op # "Store" /\ o.info = NoRow
             THEN UNCHANGED <<rowVars, connectedPeers>>
             ELSE CASE o.op = "Store"   -> Store(o.addr, o.info)
                    [] o.op = "Attempt" -> OnConnectAttempt(o.addr, o.info)
                    [] o.op = "Success" -> OnConnectSuccess(o.addr, o.info)
                    [] o.op = "Failure" -> OnConnectFailure(o.addr, o.info)
                    [] o.op = "Delete"  -> deletePeer(o.addr, o.info)

(* OnDisconnect: memory only. *)
OnDisconnect(a) ==
    /\ connectedPeers' = connectedPeers \ {a}
    /\ UNCHANGED <<rowVars, operation>>

-----------------------------------------------------------------------------
(* Get *)

(* The rows a up to now in the order of their keys.                         *)
Listed == {row \in lastAttempts : row[1] < now}

(* Mutant: offers also what is connected to.                                *)
Offered_Connected == {row \in Listed :
    /\ peerInfo[row[2]] # NoRow
    /\ shouldRetry(peerInfo[row[2]])}

(* Those of them that are not connected to and may be tried. *)
Offered == {row \in Listed :
    /\ row[2] \notin connectedPeers
    /\ peerInfo[row[2]] # NoRow
    /\ shouldRetry(peerInfo[row[2]])}

(* Keys are compared by time; the order of two addresses with the same time *)
(* is that of their bytes: any.                                             *)
Gets(addrs, n) ==
    /\ Len(addrs) = (IF Cardinality(Offered) < n THEN Cardinality(Offered) ELSE n)
    /\ \E rows \in [1 .. Len(addrs) -> Offered] :
          /\ \A i \in DOMAIN rows : addrs[i] = rows[i][2]
          /\ \A i, j \in DOMAIN rows : i < j => rows[i] # rows[j] /\ rows[i][1] <= rows[j][1]
          /\ \A row \in Offered : (\A i \in DOMAIN rows : row # rows[i])
                                      => \A i \in DOMAIN rows : rows[i][1] <= row[1]

(* A row a that is not connected to and whose row p is not there is a nil   *)
(* pointer in Get, if it gets that far.                                     *)
Panics(n) ==
    \E row \in Listed :
       /\ row[2] \notin connectedPeers
       /\ peerInfo[row[2]] = NoRow
       /\ Cardinality({other \in Offered : other[1] < row[1]}) < n
=============================================================================
