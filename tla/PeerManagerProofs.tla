------------------------- MODULE PeerManagerProofs -------------------------
(***************************************************************************)
(* Proofs about the peer manager and its store, for any number of          *)
(* addresses, connections and connection limits, with restarts.            *)
(***************************************************************************)
EXTENDS PeerManager, FiniteSetTheorems, TLAPS

-----------------------------------------------------------------------------
(* The inductive invariant *)

(* Between the read and the batch of an operation on the store. *)
Pending(who) == operation[who] # NoOperation

(* The store: its tables are of their kind, and an operation that is about  *)
(* to write a row p again still finds the row a of what it has read.        *)
StoreOK ==
    /\ now \in Nat
    /\ peerInfo \in [Addresses -> Rows \cup {NoRow}]
    /\ lastAttempts \subseteq Nat \X Addresses
    /\ lastSuccesses \subseteq Nat \X Addresses
    /\ connectedPeers \subseteq Addresses
    /\ operation \in [Goroutines -> Operations \cup {NoOperation}]

StaysListed ==
    \A who \in Goroutines :
        Pending(who) /\ operation[who].op = "Success" /\ Found(who)
            => <<operation[who].info.LastAttempt, operation[who].addr>> \in lastAttempts

(* The main loop is busy with the first address of its list, and has it in  *)
(* the outbound set while it dials.                                         *)
Listing == {"try", "delete", "attempt", "dial", "success", "already", "marked", "failure"}
Dialing == {"attempt", "dial", "success", "already", "marked", "failure"}

(* No outbound connection has the address. *)
NotConnected(a) == \A n \in Outbound : conn[n].addr # a

(* What the main loop knows at each place of its list. *)
MainOK ==
    /\ main \in [at : Listing \cup {"select", "store", "want", "drop", "panicked",
                                    "server", "ended"},
                 addr : Addresses \cup Outbound \cup {Nobody},
                 todo : Seq(Addresses), tried : SUBSET Addresses]
    /\ main.at \in Listing => main.todo # <<>>
    /\ main.at \in Dialing =>
          /\ main.addr = Head(main.todo)
          /\ main.addr \in outPeers
          /\ main.addr \notin main.tried
          /\ Host(main.addr) \notin Banned
          /\ NotConnected(main.addr)

(* Nothing the main loop will still try is connected to. *)
TodoIsFree ==
    main.at \in Listing =>
        \A a \in {main.todo[i] : i \in DOMAIN main.todo} \ main.tried :
            a \in connectedPeers => At("marked") /\ a = main.addr

(* Which operation a goroutine may be in the middle of. *)
OperationOf(at) ==
    CASE at = "store" -> "Store"       [] at = "delete" -> "Delete"
      [] at = "attempt" -> "Attempt"   [] at \in {"success", "already"} -> "Success"
      [] at = "failure" -> "Failure"   [] OTHER -> "none"

(* The operation under way is the one of its goroutine's place. *)
OperationsFit ==
    /\ Pending(Main) =>
          /\ operation[Main].op = OperationOf(main.at)
          /\ main.at = "delete" => Host(operation[Main].addr) \in Banned
          /\ main.at \in Dialing => operation[Main].addr = main.addr
    /\ \A n \in Outbound : Pending(n) =>
          /\ conn[n].writer = "refresh"
          /\ operation[n].op = "Success" /\ operation[n].addr = conn[n].addr
    /\ \A h \in Handlers : Pending(h) => operation[h].op = "Store"

(* Outbound connections: their two loops, their address, their limit. *)
ConnOK ==
    /\ outPeers \subseteq Addresses
    /\ IsFiniteSet(outPeers)
    /\ Cardinality(outPeers) <= MAX_OUTBOUND_PEER_CONNECTIONS
    /\ conn \in [Outbound ->
          [addr : Addresses, reader : {"run", "closing", "gone"},
           writer : {"run", "refresh", "gone"}] \cup {NotMade}]
    /\ \A n \in Outbound :
          /\ conn[n].reader \in {"run", "gone"} => conn[n].writer # "gone"
          /\ conn[n] # NotMade => Host(conn[n].addr) \notin Banned
          /\ n \in Peering => conn[n].addr \in outPeers
    /\ main.at = "success" => \E n \in Outbound : conn[n] = NotMade

(* Inbound connections are counted by host and in all. *)
InboundOK ==
    /\ handler \in [Handlers -> {"out", "limit", "store", "upgrade", "upgraded", "connected"}]
    /\ inPeers = {h \in Handlers : handler[h] = "connected"}
    /\ IsFiniteSet(inPeers)
    /\ Cardinality(inPeers) <= inboundLimit
    /\ \A host \in Hosts :
          CountOf(host) = Cardinality({h \in inPeers : Host(h) = host})

(* How far the shutdown is: it closes only who is left. *)
StopOK ==
    /\ shutdown \in {"no", "waiting", "closing", "done"}
    /\ shutdown \in {"closing", "done"} => At("ended") /\ Peering \subseteq leaving
    /\ shutdown = "done" => Peering = {}

(* The whole of it. *)
PeersIInv ==
    /\ StoreOK /\ StaysListed /\ EveryPeerIsListed
    /\ MainOK /\ TodoIsFree /\ OperationsFit
    /\ ConnOK /\ MarkedIsConnected /\ OneConnectionEach
    /\ InboundOK /\ StopOK

-----------------------------------------------------------------------------
(* The store *)

(* What the second half of an operation does to the tables, whatever the    *)
(* store was like when it began.                                            *)
LEMMA FinishType ==
    ASSUME StoreOK, NEW who \in Goroutines, Finish(who), now' = now
    PROVE  /\ StoreOK'
           /\ Pending(who)
           /\ operation' = [operation EXCEPT ![who] = NoOperation]
           /\ connectedPeers' = IF operation[who].op = "Success" /\ Found(who)
                                  THEN connectedPeers \cup {operation[who].addr}
                                  ELSE connectedPeers
<1> DEFINE o == operation[who]
<1>1. o \in Operations /\ o # NoOperation
  BY DEF Finish, StoreOK
<1>2. o.addr \in Addresses /\ o.info \in Rows \cup {NoRow}
      /\ o.op \in {"Store", "Attempt", "Success", "Failure", "Delete"}
  BY <1>1 DEF Operations
<1>3. operation' = [operation EXCEPT ![who] = NoOperation] /\ Pending(who)
  BY <1>1 DEF Finish, Pending
<1>4. CASE o.op # "Store" /\ o.info = NoRow
  BY <1>3, <1>4 DEF Finish, StoreOK, rowVars, Found
<1>5. CASE o.op = "Store"
  <2>1. Store(o.addr, o.info)
    BY <1>5 DEF Finish
  <2>2. CASE o.info = NoRow
    <3>1. PICK t \in NewPositions :
             /\ Put(o.addr, [FirstSeen |-> now, LastAttempt |-> t, LastSuccess |-> 0])
             /\ lastAttempts' = lastAttempts \cup {<<t, o.addr>>}
      BY <2>1, <2>2 DEF Store
    <3>2. t \in Nat
      BY PeerStorageAssumption
    <3>3. [FirstSeen |-> now, LastAttempt |-> t, LastSuccess |-> 0] \in Rows
      BY <3>2 DEF StoreOK, Rows
    <3>4. UNCHANGED <<lastSuccesses, connectedPeers>>
      BY <2>1, <2>2 DEF Store
    <3> QED
      BY <1>2, <1>3, <1>5, <2>2, <3>1, <3>2, <3>3, <3>4 DEF StoreOK, Put, Found
  <2>3. CASE o.info # NoRow
    BY <1>3, <1>5, <2>1, <2>3 DEF Store, StoreOK, rowVars, Found
  <2> QED
    BY <2>2, <2>3
<1>6. CASE o.op = "Attempt" /\ o.info # NoRow
  <2>1. OnConnectAttempt(o.addr, o.info)
    BY <1>6 DEF Finish
  <2> QED
    BY <1>2, <1>3, <1>6, <2>1 DEF OnConnectAttempt, StoreOK, Put, Rows, Found
<1>7. CASE o.op = "Success" /\ o.info # NoRow
  <2>1. OnConnectSuccess(o.addr, o.info)
    BY <1>7 DEF Finish
  <2> QED
    BY <1>2, <1>3, <1>7, <2>1 DEF OnConnectSuccess, StoreOK, Put, Rows, Found
<1>8. CASE o.op \in {"Failure", "Delete"} /\ o.info # NoRow
  <2>1. deletePeer(o.addr, o.info) \/ UNCHANGED <<rowVars, connectedPeers>>
    BY <1>8 DEF Finish, OnConnectFailure
  <2> QED
    BY <1>2, <1>3, <1>8, <2>1 DEF deletePeer, StoreOK, Put, rowVars, Found
<1> QED
  BY <1>2, <1>4, <1>5, <1>6, <1>7, <1>8

(* The first half of one: it remembers the row that is there. *)
LEMMA BeginType ==
    ASSUME StoreOK, StaysListed, EveryPeerIsListed,
           NEW who \in Goroutines, NEW a \in Addresses,
           NEW op \in {"Store", "Attempt", "Success", "Failure", "Delete"},
           Begin(who, op, a), UNCHANGED <<now, rowVars, connectedPeers>>
    PROVE  /\ StoreOK' /\ StaysListed' /\ EveryPeerIsListed'
           /\ operation'[who].op = op /\ operation'[who].addr = a
           /\ \A g \in Goroutines \ {who} : operation'[g] = operation[g]
<1> DEFINE o == [op |-> op, addr |-> a, info |-> peerInfo[a]]
<1>1. o \in Operations
  BY DEF StoreOK, Operations
<1>2. operation' = [operation EXCEPT ![who] = o]
  BY DEF Begin
<1>3. StoreOK'
  BY <1>1, <1>2 DEF StoreOK, rowVars
<1>4. operation'[who] = o /\ \A g \in Goroutines \ {who} : operation'[g] = operation[g]
  BY <1>2 DEF StoreOK
<1>5. EveryPeerIsListed'
  BY DEF EveryPeerIsListed, rowVars
<1>6. StaysListed'
  <2> SUFFICES ASSUME NEW g \in Goroutines, Pending(g)', operation'[g].op = "Success",
                      Found(g)'
               PROVE  <<operation'[g].info.LastAttempt, operation'[g].addr>> \in lastAttempts'
    BY DEF StaysListed
  <2>1. CASE g = who
    BY <2>1, <1>4 DEF EveryPeerIsListed, Found, rowVars
  <2>2. CASE g # who
    BY <2>2, <1>4 DEF StaysListed, Pending, Found, rowVars
  <2> QED
    BY <2>1, <2>2
<1> QED
  BY <1>3, <1>4, <1>5, <1>6

(* A row a is only taken away by an operation on an address that nobody     *)
(* else is about to write: then no address is lost.                         *)
LEMMA FinishListed ==
    ASSUME StoreOK, StaysListed, EveryPeerIsListed, NEW who \in Goroutines, Finish(who),
           operation[who].op \in {"Attempt", "Failure", "Delete"} =>
              \A g \in Goroutines \ {who} :
                 Pending(g) /\ operation[g].op = "Success"
                     => operation[g].addr # operation[who].addr
    PROVE  StaysListed' /\ EveryPeerIsListed'
<1> DEFINE o == operation[who]
           kept(g) == <<operation[g].info.LastAttempt, operation[g].addr>>
<1>1. /\ o \in Operations /\ o.addr \in Addresses /\ o.info \in Rows \cup {NoRow}
      /\ o.op \in {"Store", "Attempt", "Success", "Failure", "Delete"}
  BY DEF Finish, StoreOK, Operations
<1>2. /\ operation' = [operation EXCEPT ![who] = NoOperation]
      /\ \A g \in Goroutines \ {who} : operation'[g] = operation[g]
      /\ ~Pending(who)'
  BY DEF Finish, StoreOK, Pending
<1>3. ASSUME \A g \in Goroutines \ {who} :
                Pending(g) /\ operation[g].op = "Success" /\ Found(g) => kept(g) \in lastAttempts'
      PROVE  StaysListed'
  BY <1>2, <1>3 DEF StaysListed, Pending, Found
<1>4. CASE UNCHANGED <<peerInfo, lastAttempts>>
  BY <1>3, <1>4 DEF StaysListed, EveryPeerIsListed
<1>5. CASE o.op = "Store"
  <2>1. Store(o.addr, o.info)
    BY <1>5 DEF Finish
  <2>2. CASE o.info # NoRow
    BY <2>1, <2>2, <1>4 DEF Store, rowVars
  <2>3. CASE o.info = NoRow
    <3>1. PICK t \in NewPositions :
             /\ Put(o.addr, [FirstSeen |-> now, LastAttempt |-> t, LastSuccess |-> 0])
             /\ lastAttempts' = lastAttempts \cup {<<t, o.addr>>}
      BY <2>1, <2>3 DEF Store
    <3>2. StaysListed'
      BY <3>1, <1>3 DEF StaysListed
    <3>3. EveryPeerIsListed'
      BY <3>1, <1>1 DEF EveryPeerIsListed, Put, StoreOK
    <3> QED
      BY <3>2, <3>3
  <2> QED
    BY <2>2, <2>3
<1>6. CASE o.op = "Attempt" /\ o.info # NoRow
  <2>1. OnConnectAttempt(o.addr, o.info)
    BY <1>6 DEF Finish
  <2>2. StaysListed'
    BY <2>1, <1>3, <1>6 DEF StaysListed, OnConnectAttempt
  <2>3. [o.info EXCEPT !.LastAttempt = now].LastAttempt = now
    BY <1>1, <1>6 DEF Rows
  <2>4. \A a \in Addresses \ {o.addr} : peerInfo'[a] = peerInfo[a]
    BY <2>1 DEF OnConnectAttempt, Put, StoreOK
  <2>5. peerInfo'[o.addr].LastAttempt = now
    BY <2>1, <2>3, <1>1 DEF OnConnectAttempt, Put, StoreOK
  <2>6. EveryPeerIsListed'
    BY <2>1, <2>4, <2>5, <1>1 DEF EveryPeerIsListed, OnConnectAttempt
  <2> QED
    BY <2>2, <2>6
<1>7. CASE o.op = "Success" /\ o.info # NoRow
  <2>1. OnConnectSuccess(o.addr, o.info)
    BY <1>7 DEF Finish
  <2>2. StaysListed'
    BY <2>1, <1>3 DEF StaysListed, OnConnectSuccess
  <2>3. [o.info EXCEPT !.LastSuccess = now].LastAttempt = o.info.LastAttempt
    BY <1>1, <1>7 DEF Rows
  <2>4. \A a \in Addresses \ {o.addr} : peerInfo'[a] = peerInfo[a]
    BY <2>1 DEF OnConnectSuccess, Put, StoreOK
  <2>5. peerInfo'[o.addr].LastAttempt = o.info.LastAttempt
    BY <2>1, <2>3, <1>1 DEF OnConnectSuccess, Put, StoreOK
  <2>6. <<o.info.LastAttempt, o.addr>> \in lastAttempts
    BY <1>7 DEF StaysListed, Found, Finish, Pending
  <2>7. EveryPeerIsListed'
    BY <2>1, <2>4, <2>5, <2>6, <1>1 DEF EveryPeerIsListed, OnConnectSuccess
  <2> QED
    BY <2>2, <2>7
<1>8. CASE deletePeer(o.addr, o.info) /\ o.op \in {"Failure", "Delete"}
  <2>1. StaysListed'
    BY <1>8, <1>3 DEF StaysListed, deletePeer
  <2>2. EveryPeerIsListed'
    BY <1>8, <1>1 DEF EveryPeerIsListed, deletePeer, Put, StoreOK
  <2> QED
    BY <2>1, <2>2
<1>9. CASE o.op # "Store" /\ o.info = NoRow
  BY <1>4, <1>9 DEF Finish, rowVars
<1>10. CASE o.op \in {"Failure", "Delete"} /\ o.info # NoRow
  BY <1>4, <1>8, <1>10 DEF Finish, OnConnectFailure, rowVars
<1> QED
  BY <1>1, <1>5, <1>6, <1>7, <1>9, <1>10

-----------------------------------------------------------------------------
(* Frames *)

(* A connection is not made, or has an address and its two loops.           *)
LEMMA ConnShape ==
    ASSUME ConnOK, NEW n \in Outbound
    PROVE  \/ /\ conn[n] = NotMade
              /\ conn[n].addr = Nobody /\ conn[n].reader = "none" /\ conn[n].writer = "none"
           \/ /\ conn[n] # NotMade
              /\ conn[n].addr \in Addresses
              /\ conn[n].reader \in {"run", "closing", "gone"}
              /\ conn[n].writer \in {"run", "refresh", "gone"}
<1>1. conn[n] = NotMade \/ conn[n] \in
          [addr : Addresses, reader : {"run", "closing", "gone"},
           writer : {"run", "refresh", "gone"}]
  BY DEF ConnOK
<1>2. CASE conn[n] = NotMade
  BY <1>2 DEF NotMade
<1>3. CASE conn[n] # NotMade
  BY <1>1, <1>3
<1> QED
  BY <1>2, <1>3

(* A step that leaves the inbound side alone.                               *)
LEMMA InboundFrame ==
    ASSUME InboundOK, UNCHANGED <<handler, inPeers, inPeerCountByHost>>
    PROVE  InboundOK'
BY DEF InboundOK, CountOf

(* One that leaves the outbound connections alone.                          *)
LEMMA ConnFrame ==
    ASSUME ConnOK, OneConnectionEach, UNCHANGED <<conn, outPeers>>,
           main'.at = "success" => main.at = "success"
    PROVE  ConnOK' /\ OneConnectionEach'
BY DEF ConnOK, OneConnectionEach, Peering

(* As long as the main loop runs nobody waits for the connections to end. *)
LEMMA StopFrame ==
    ASSUME StopOK, main.at # "ended", UNCHANGED stopVars
    PROVE  StopOK'
BY DEF StopOK, stopVars, At

(* A step of a connection or a handler: the main loop is where it was, and  *)
(* no other goroutine's operation is touched.                               *)
LEMMA MarksFrame ==
    ASSUME MarkedIsConnected, TodoIsFree,
           UNCHANGED <<main, connectedPeers>>,
           {conn'[n].addr : n \in {m \in Outbound : conn'[m].writer \in {"run", "refresh"}}}
             = {conn[n].addr : n \in {m \in Outbound : conn[m].writer \in {"run", "refresh"}}}
    PROVE  MarkedIsConnected' /\ TodoIsFree'
BY DEF MarkedIsConnected, TodoIsFree, At

-----------------------------------------------------------------------------
(* The main loop *)

(* Outside its list the main loop only goes from place to place. *)
LEMMA PlaceKeeps ==
    ASSUME PeersIInv, main.at # "ended",
           main'.at \in {"select", "store", "want", "drop", "panicked", "server", "ended"},
           main' \in [at : {"select", "store", "want", "drop", "panicked", "server", "ended"},
                      addr : Addresses \cup Outbound \cup {Nobody},
                      todo : Seq(Addresses), tried : SUBSET Addresses],
           UNCHANGED <<conn, outPeers, inPeers, inPeerCountByHost, handler, stopVars>>
    PROVE  MainOK' /\ TodoIsFree' /\ ConnOK' /\ OneConnectionEach' /\ InboundOK' /\ StopOK'
<1>1. MainOK' /\ TodoIsFree'
  BY DEF MainOK, TodoIsFree, Listing, Dialing
<1>2. ConnOK' /\ OneConnectionEach'
  BY ConnFrame DEF PeersIInv
<1>3. InboundOK' /\ StopOK'
  BY InboundFrame, StopFrame DEF PeersIInv
<1> QED
  BY <1>1, <1>2, <1>3

(* The same when the store is as it was and no operation is pending. *)
LEMMA QuietPlace ==
    ASSUME PeersIInv, main.at \notin {"ended", "marked"} , ~Pending(Main),
           main' \in [at : {"select", "want", "drop", "panicked", "server", "ended"},
                      addr : Addresses \cup Outbound \cup {Nobody},
                      todo : Seq(Addresses), tried : SUBSET Addresses],
           UNCHANGED <<now, storeVars, conn, outPeers, inPeers, inPeerCountByHost, handler,
                       stopVars>>
    PROVE  PeersIInv'
<1>1. main'.at \in {"select", "want", "drop", "panicked", "server", "ended"}
  OBVIOUS
<1>2. MainOK' /\ TodoIsFree' /\ ConnOK' /\ OneConnectionEach' /\ InboundOK' /\ StopOK'
  BY <1>1, PlaceKeeps DEF PeersIInv
<1>3. StoreOK' /\ StaysListed' /\ EveryPeerIsListed'
  BY DEF PeersIInv, StoreOK, StaysListed, EveryPeerIsListed, storeVars, rowVars, Pending, Found
<1>4. OperationsFit'
  BY <1>1 DEF PeersIInv, OperationsFit, storeVars, Pending
<1>5. MarkedIsConnected'
  BY <1>1 DEF PeersIInv, MarkedIsConnected, storeVars, At
<1> QED
  BY <1>2, <1>3, <1>4, <1>5 DEF PeersIInv

(* The main loop, the loops of the connections and the handlers are         *)
(* different users of the store.                                            *)
LEMMA MainGoroutine == Main \in Goroutines /\ \A n \in Outbound \cup Handlers :
                          n \in Goroutines /\ n # Main
BY PeerManagerAssumption

(* The main loop begins to store an address.                                *)
LEMMA TakeAddressKeeps ==
    ASSUME PeersIInv, NEW a \in Addresses, TakeAddress(a)
    PROVE  PeersIInv'
<1>1. StoreOK' /\ StaysListed' /\ EveryPeerIsListed'
      /\ operation'[Main].op = "Store"
      /\ \A g \in Goroutines \ {Main} : operation'[g] = operation[g]
  BY BeginType, MainGoroutine DEF TakeAddress, PeersIInv
<1>2. main' = [main EXCEPT !.at = "store"] /\ main.at = "select"
  BY DEF TakeAddress, At, Go
<1>3. MainOK' /\ TodoIsFree' /\ ConnOK' /\ OneConnectionEach' /\ InboundOK' /\ StopOK'
  BY <1>2, PlaceKeeps DEF TakeAddress, PeersIInv, MainOK, managerVars
<1>4. main'.at = "store"
  BY <1>2 DEF PeersIInv, MainOK
<1>5. OperationsFit'
  BY <1>1, <1>4, MainGoroutine
     DEF TakeAddress, PeersIInv, OperationsFit, OperationOf, Pending, Dialing
<1>6. MarkedIsConnected'
  BY <1>2, <1>4 DEF TakeAddress, PeersIInv, MarkedIsConnected, At
<1> QED
  BY <1>1, <1>3, <1>5, <1>6 DEF PeersIInv

(* The second half of an operation of the main loop: the address is banned  *)
(* or has no connection, so nobody else is about to write its row.          *)
LEMMA MainFinish ==
    ASSUME PeersIInv, Finish(Main), UNCHANGED now
    PROVE  /\ StoreOK' /\ StaysListed' /\ EveryPeerIsListed'
           /\ Pending(Main) /\ ~Pending(Main)'
           /\ \A g \in Goroutines \ {Main} : operation'[g] = operation[g]
           /\ connectedPeers' = IF operation[Main].op = "Success" /\ Found(Main)
                                  THEN connectedPeers \cup {operation[Main].addr}
                                  ELSE connectedPeers
<1> USE MainGoroutine DEF PeersIInv
<1>1. /\ StoreOK' /\ Pending(Main)
      /\ operation' = [operation EXCEPT ![Main] = NoOperation]
      /\ connectedPeers' = IF operation[Main].op = "Success" /\ Found(Main)
                             THEN connectedPeers \cup {operation[Main].addr}
                             ELSE connectedPeers
  BY FinishType
<1>2. ~Pending(Main)' /\ \A g \in Goroutines \ {Main} : operation'[g] = operation[g]
  BY <1>1 DEF Pending, StoreOK
<1>3. operation[Main].op \in {"Attempt", "Failure", "Delete"} =>
         \A g \in Goroutines \ {Main} :
            Pending(g) /\ operation[g].op = "Success" => operation[g].addr # operation[Main].addr
  <2> SUFFICES ASSUME operation[Main].op \in {"Attempt", "Failure", "Delete"},
                      NEW g \in Goroutines \ {Main}, Pending(g), operation[g].op = "Success"
               PROVE  operation[g].addr # operation[Main].addr
    OBVIOUS
  <2>1. g \in Outbound /\ operation[g].addr = conn[g].addr /\ conn[g].writer = "refresh"
    BY PeerManagerAssumption DEF OperationsFit
  <2>2. CASE main.at = "delete"
    <3>1. Host(operation[Main].addr) \in Banned
      BY <1>1, <2>2 DEF OperationsFit
    <3>2. conn[g] # NotMade
      BY <2>1, ConnShape
    <3> QED
      BY <2>1, <3>1, <3>2 DEF ConnOK
  <2>3. CASE main.at # "delete"
    <3>1. main.at \in Dialing /\ operation[Main].addr = main.addr
      BY <1>1, <2>3 DEF OperationsFit, OperationOf, Dialing
    <3> QED
      BY <2>1, <3>1 DEF MainOK, NotConnected
  <2> QED
    BY <2>2, <2>3
<1>4. StaysListed' /\ EveryPeerIsListed'
  BY <1>3, FinishListed
<1> QED
  BY <1>1, <1>2, <1>4

(* After it, outside the list. *)
LEMMA StoredKeeps ==
    ASSUME PeersIInv, Stored
    PROVE  PeersIInv'
<1>1. /\ StoreOK' /\ StaysListed' /\ EveryPeerIsListed'
      /\ Pending(Main) /\ ~Pending(Main)'
      /\ \A g \in Goroutines \ {Main} : operation'[g] = operation[g]
      /\ connectedPeers' = IF operation[Main].op = "Success" /\ Found(Main)
                             THEN connectedPeers \cup {operation[Main].addr}
                             ELSE connectedPeers
  BY MainFinish DEF Stored
<1>2. operation[Main].op = "Store" /\ main.at = "store"
  BY <1>1 DEF Stored, At, PeersIInv, OperationsFit, OperationOf
<1>3. main'.at \in {"select", "want"}
      /\ main' \in [at : {"select", "want"}, addr : Addresses \cup Outbound \cup {Nobody},
                    todo : Seq(Addresses), tried : SUBSET Addresses]
  BY DEF Stored, Go, PeersIInv, MainOK
<1>4. MainOK' /\ TodoIsFree' /\ ConnOK' /\ OneConnectionEach' /\ InboundOK' /\ StopOK'
  BY <1>2, <1>3, PlaceKeeps DEF Stored, managerVars
<1>5. OperationsFit'
  BY <1>1, <1>3, MainGoroutine DEF Stored, PeersIInv, OperationsFit, Pending
<1>6. MarkedIsConnected'
  BY <1>1, <1>2, <1>3 DEF Stored, PeersIInv, MarkedIsConnected, At
<1> QED
  BY <1>1, <1>4, <1>5, <1>6 DEF PeersIInv

(* Where the main loop is not in the middle of an operation it has none.    *)
LEMMA NoOperationThere ==
    ASSUME PeersIInv,
           main.at \notin {"store", "delete", "attempt", "success", "already", "failure"}
    PROVE  ~Pending(Main)
<1> SUFFICES ASSUME Pending(Main)
             PROVE  FALSE
  OBVIOUS
<1>1. operation[Main] \in Operations
  BY MainGoroutine DEF PeersIInv, StoreOK, Pending
<1>2. operation[Main].op = "none"
  BY DEF PeersIInv, OperationsFit, OperationOf
<1> QED
  BY <1>1, <1>2 DEF Operations

(* Its steps that leave the store and the outbound set alone.               *)
LEMMA QuietKeeps ==
    ASSUME PeersIInv, Tick \/ Dropped \/ StopServer \/ EndMain
    PROVE  PeersIInv'
<1>1. main.at \in {"select", "drop", "server"} /\ ~Pending(Main)
  BY NoOperationThere DEF Tick, Dropped, StopServer, EndMain, At
<1>2. main' \in [at : {"select", "want", "drop", "panicked", "server", "ended"},
                 addr : Addresses \cup Outbound \cup {Nobody},
                 todo : Seq(Addresses), tried : SUBSET Addresses]
  BY DEF Tick, Dropped, StopServer, EndMain, Go, PeersIInv, MainOK
<1> QED
  BY <1>1, <1>2, QuietPlace DEF Tick, Dropped, StopServer, EndMain, managerVars

(* Get offers nothing that is connected to. *)
LEMMA ConnectToPeersKeeps ==
    ASSUME PeersIInv, ConnectToPeers
    PROVE  PeersIInv'
<1> DEFINE need == Want - Cardinality(outPeers)
<1>1. main.at = "want" /\ ~Pending(Main)
  BY NoOperationThere DEF ConnectToPeers, At
<1>2. CASE \/ main' = Return \/ main' = [Return EXCEPT !.at = "panicked"]
  <2>1. main' \in [at : {"select", "want", "drop", "panicked", "server", "ended"},
                   addr : Addresses \cup Outbound \cup {Nobody},
                   todo : Seq(Addresses), tried : SUBSET Addresses]
    <3>1. <<>> \in Seq(Addresses) /\ {} \in SUBSET Addresses
      OBVIOUS
    <3>2. CASE main' = Return
      BY <3>1, <3>2 DEF Return
    <3>3. CASE main' = [Return EXCEPT !.at = "panicked"]
      <4>1. main' = [at |-> "panicked", addr |-> Nobody, todo |-> <<>>, tried |-> {}]
        BY <3>3 DEF Return
      <4> QED
        BY <3>1, <4>1
    <3> QED
      BY <1>2, <3>2, <3>3
  <2> QED
    BY <1>1, <2>1, QuietPlace DEF ConnectToPeers, managerVars
<1>3. ASSUME NEW n \in 0 .. need, NEW addrs \in [1 .. n -> Addresses], Gets(addrs, need),
             addrs # <<>>, main' = [main EXCEPT !.at = "try", !.todo = addrs]
      PROVE  PeersIInv'
  <2>1. n \in Nat
    BY DEF Want
  <2>2. addrs \in Seq(Addresses) /\ DOMAIN addrs = 1 .. n /\ Len(addrs) = n
    BY <2>1
  <2>3. \A i \in DOMAIN addrs : addrs[i] \notin connectedPeers
    BY <1>3, <2>2 DEF Gets, Offered
  <2>4. /\ main' \in [at : {"try"}, addr : Addresses \cup Outbound \cup {Nobody},
                      todo : Seq(Addresses), tried : SUBSET Addresses]
        /\ main'.at = "try" /\ main'.todo = addrs
    BY <1>3, <2>2 DEF PeersIInv, MainOK
  <2>5. MainOK'
    BY <1>3, <2>4 DEF MainOK, Listing, Dialing
  <2>6. TodoIsFree'
    <3>1. connectedPeers' = connectedPeers
      BY DEF ConnectToPeers, storeVars
    <3>2. \A a \in {main'.todo[i] : i \in DOMAIN main'.todo} : a \notin connectedPeers'
      BY <2>3, <2>4, <3>1
    <3> QED
      BY <3>2 DEF TodoIsFree
  <2>7. ConnOK' /\ OneConnectionEach' /\ InboundOK' /\ StopOK'
    BY <1>1, <2>4, ConnFrame, InboundFrame, StopFrame DEF ConnectToPeers, managerVars, PeersIInv
  <2>8. StoreOK' /\ StaysListed' /\ EveryPeerIsListed'
    BY DEF ConnectToPeers, PeersIInv, StoreOK, StaysListed, EveryPeerIsListed, storeVars,
           rowVars, Pending, Found
  <2>9. OperationsFit'
    BY <1>1 DEF ConnectToPeers, PeersIInv, OperationsFit, storeVars, Pending
  <2>10. MarkedIsConnected'
    BY <1>1, <2>4 DEF ConnectToPeers, PeersIInv, MarkedIsConnected, storeVars, At
  <2> QED
    BY <2>5, <2>6, <2>7, <2>8, <2>9, <2>10 DEF PeersIInv
<1> QED
  BY <1>2, <1>3 DEF ConnectToPeers

(* The rest of a list.                                                      *)
LEMMA TailFacts ==
    ASSUME NEW S, NEW s \in Seq(S), s # <<>>
    PROVE  /\ Tail(s) \in Seq(S) /\ Head(s) \in S
           /\ Head(s) = s[1] /\ 1 \in DOMAIN s
           /\ Len(s) # 1 => Tail(s) # <<>>
           /\ \A i \in DOMAIN Tail(s) : i + 1 \in DOMAIN s /\ Tail(s)[i] = s[i + 1]
<1>1. Len(s) \in Nat /\ Len(s) # 0 /\ Len(Tail(s)) = Len(s) - 1
  OBVIOUS
<1>2. Len(s) # 1 => Tail(s) # <<>>
  <2>1. Len(s) # 1 => Len(Tail(s)) # 0
    BY <1>1
  <2>2. Len(<<>>) = 0
    OBVIOUS
  <2> QED
    BY <2>1, <2>2
<1> QED
  BY <1>2

(* What is left of the list after its first address. *)
LEMMA RestShape ==
    ASSUME MainOK, main.at \in Listing
    PROVE  /\ main.todo # <<>> /\ Head(main.todo) \in Addresses
           /\ Head(main.todo) \in {main.todo[i] : i \in DOMAIN main.todo}
           /\ Rest \in [at : {"want", "try"}, addr : {Nobody},
                        todo : Seq(Addresses), tried : SUBSET Addresses]
           /\ Rest.tried = main.tried \cup {Head(main.todo)}
           /\ Rest.at = "try" => Rest.todo # <<>>
           /\ {Rest.todo[i] : i \in DOMAIN Rest.todo}
                \subseteq {main.todo[i] : i \in DOMAIN main.todo}
<1>1. /\ main.todo \in Seq(Addresses) /\ main.todo # <<>>
      /\ main.tried \in SUBSET Addresses
  BY DEF MainOK
<1>2. /\ Tail(main.todo) \in Seq(Addresses) /\ Head(main.todo) \in Addresses
      /\ Head(main.todo) = main.todo[1] /\ 1 \in DOMAIN main.todo
      /\ \A i \in DOMAIN Tail(main.todo) :
            i + 1 \in DOMAIN main.todo /\ Tail(main.todo)[i] = main.todo[i + 1]
  BY <1>1, TailFacts
<1>3. /\ Rest.todo = Tail(main.todo)
      /\ Rest.tried = main.tried \cup {Head(main.todo)}
      /\ Rest.at = IF Len(main.todo) = 1 THEN "want" ELSE "try"
      /\ Rest \in [at : {"want", "try"}, addr : {Nobody},
                   todo : Seq(Addresses), tried : SUBSET Addresses]
  BY <1>1, <1>2 DEF Rest, MainOK
<1>4. Rest.at = "try" => Rest.todo # <<>>
  BY <1>1, <1>2, <1>3, TailFacts
<1> QED
  BY <1>1, <1>2, <1>3, <1>4

(* The list goes on or is over: the address that was tried last may be      *)
(* connected to now, the others are not.                                    *)
LEMMA RestKeeps ==
    ASSUME PeersIInv, main.at \in Listing, main' = Rest \/ main' = Return,
           connectedPeers' \subseteq connectedPeers \cup {Head(main.todo)}
    PROVE  /\ MainOK' /\ TodoIsFree'
           /\ main'.at \in {"want", "try", "select"}
<1> USE RestShape DEF PeersIInv
<1>1. CASE main' = Return
  BY <1>1 DEF Return, MainOK, TodoIsFree, Listing, Dialing
<1>2. CASE main' = Rest
  <2>1. main'.at \in {"want", "try"} /\ MainOK'
    BY <1>2 DEF MainOK, Listing, Dialing
  <2>2. TodoIsFree'
    <3> SUFFICES ASSUME NEW a \in {Rest.todo[i] : i \in DOMAIN Rest.todo}, a \notin Rest.tried,
                        a \in connectedPeers'
                 PROVE  FALSE
      BY <1>2 DEF TodoIsFree
    <3>1. /\ a \in {main.todo[i] : i \in DOMAIN main.todo} \ main.tried
          /\ a # Head(main.todo) /\ a \in connectedPeers
      OBVIOUS
    <3>2. main.at = "marked" => main.addr = Head(main.todo)
      BY DEF MainOK, Dialing
    <3> QED
      BY <3>1, <3>2 DEF TodoIsFree, At
  <2> QED
    BY <2>1, <2>2
<1> QED
  BY <1>1, <1>2

(* A step within the list, or to its end, that leaves the two sets of       *)
(* peers, the connections and the marks as they are.                        *)
LEMMA ListFrame ==
    ASSUME PeersIInv, main.at \in Listing,
           MainOK', TodoIsFree',
           main'.at \notin {"success", "marked"}, main.at # "marked",
           UNCHANGED <<conn, outPeers, inPeers, inPeerCountByHost, handler, stopVars,
                       connectedPeers>>
    PROVE  /\ MainOK' /\ TodoIsFree' /\ ConnOK' /\ MarkedIsConnected' /\ OneConnectionEach'
           /\ InboundOK' /\ StopOK'
<1>1. ConnOK' /\ OneConnectionEach' /\ InboundOK' /\ StopOK'
  BY ConnFrame, InboundFrame, StopFrame DEF PeersIInv, Listing
<1>2. MarkedIsConnected'
  BY DEF PeersIInv, MarkedIsConnected, At
<1> QED
  BY <1>1, <1>2

(* connectToPeers takes the next address.                                   *)
LEMMA TryKeeps ==
    ASSUME PeersIInv, Try
    PROVE  PeersIInv'
<1> DEFINE a == Head(main.todo)
<1> USE RestShape DEF PeersIInv
<1>1. main.at = "try" /\ ~Pending(Main) /\ main.at \in Listing /\ a \in Addresses
  BY NoOperationThere DEF Try, At, Listing
<1>2. CASE UNCHANGED <<operation, outPeers>> /\ (main' = Rest \/ main' = Return)
  <2>1. MainOK' /\ TodoIsFree' /\ main'.at \in {"want", "try", "select"}
    BY <1>1, <1>2, RestKeeps DEF Try
  <2>2. ConnOK' /\ MarkedIsConnected' /\ OneConnectionEach' /\ InboundOK' /\ StopOK'
    BY <1>1, <1>2, <2>1, ListFrame DEF Try
  <2>3. StoreOK' /\ StaysListed' /\ EveryPeerIsListed'
    BY <1>2 DEF Try, StoreOK, StaysListed, EveryPeerIsListed, rowVars, Pending, Found
  <2>4. OperationsFit'
    BY <1>1, <1>2 DEF Try, OperationsFit, Pending
  <2> QED
    BY <2>1, <2>2, <2>3, <2>4
<1>3. CASE /\ Host(a) \in Banned /\ Begin(Main, "Delete", a) /\ Go("delete")
           /\ UNCHANGED outPeers
  <2>1. main' = [main EXCEPT !.at = "delete"] /\ main'.at = "delete"
    BY <1>3 DEF Go, MainOK
  <2>2. MainOK' /\ TodoIsFree'
    <3>1. main'.todo = main.todo /\ main'.tried = main.tried /\ main'.addr = main.addr
      BY <2>1 DEF MainOK
    <3>2. MainOK'
      BY <1>1, <2>1, <3>1 DEF MainOK, Listing, Dialing
    <3>3. connectedPeers' = connectedPeers
      BY DEF Try
    <3>4. TodoIsFree'
      BY <1>1, <2>1, <3>1, <3>3 DEF TodoIsFree, Listing, At
    <3> QED
      BY <3>2, <3>4
  <2>3. ConnOK' /\ MarkedIsConnected' /\ OneConnectionEach' /\ InboundOK' /\ StopOK'
    BY <1>1, <1>3, <2>1, <2>2, ListFrame DEF Try
  <2>4. StoreOK' /\ StaysListed' /\ EveryPeerIsListed'
        /\ operation'[Main].op = "Delete" /\ operation'[Main].addr = a
        /\ \A g \in Goroutines \ {Main} : operation'[g] = operation[g]
    BY <1>1, <1>3, BeginType, MainGoroutine DEF Try
  <2>5. OperationsFit'
    BY <1>3, <2>1, <2>4, MainGoroutine
       DEF Try, OperationsFit, OperationOf, Pending, Dialing
  <2> QED
    BY <2>2, <2>3, <2>4, <2>5
<1>4. CASE /\ a \notin main.tried /\ Host(a) \notin Banned
           /\ Cardinality(outPeers) # MAX_OUTBOUND_PEER_CONNECTIONS /\ a \notin outPeers
           /\ outPeers' = outPeers \cup {a}
           /\ Begin(Main, "Attempt", a)
           /\ main' = [main EXCEPT !.at = "attempt", !.addr = a]
  <2>1. /\ main'.at = "attempt" /\ main'.addr = a /\ main'.todo = main.todo
        /\ main'.tried = main.tried
    BY <1>4 DEF MainOK
  <2>2. NotConnected(a)
    <3> SUFFICES ASSUME NEW n \in Outbound, conn[n].addr = a
                 PROVE  FALSE
      BY DEF NotConnected
    <3>1. conn[n] # NotMade
      BY <1>1, PeerManagerAssumption DEF NotMade
    <3>2. conn[n].reader = "gone" /\ conn[n].writer \in {"run", "refresh"}
      BY <3>1, <1>4, ConnShape DEF ConnOK, Peering
    <3>3. a \in connectedPeers
      BY <3>2, <1>1 DEF MarkedIsConnected, At
    <3> QED
      BY <3>3, <1>1, <1>4 DEF TodoIsFree, At
  <2>3. MainOK'
    BY <1>1, <1>4, <2>1, <2>2 DEF Try, MainOK, Listing, Dialing, NotConnected
  <2>4. TodoIsFree'
    BY <1>1, <2>1 DEF Try, TodoIsFree, At
  <2>5. ConnOK' /\ OneConnectionEach'
    <3>1. /\ IsFiniteSet(outPeers) /\ Cardinality(outPeers) \in Nat
          /\ IsFiniteSet(outPeers') /\ Cardinality(outPeers') = Cardinality(outPeers) + 1
      BY <1>4, FS_AddElement, FS_CardinalityType DEF ConnOK
    <3>2. Cardinality(outPeers') <= MAX_OUTBOUND_PEER_CONNECTIONS
      BY <1>4, <3>1, PeerManagerAssumption DEF ConnOK
    <3> QED
      BY <1>1, <1>4, <2>1, <3>1, <3>2 DEF Try, ConnOK, OneConnectionEach, Peering
  <2>6. InboundOK' /\ StopOK'
    BY <1>1, InboundFrame, StopFrame DEF Try
  <2>7. MarkedIsConnected'
    BY <1>1, <2>1 DEF Try, MarkedIsConnected, At
  <2>8. StoreOK' /\ StaysListed' /\ EveryPeerIsListed'
        /\ operation'[Main].op = "Attempt" /\ operation'[Main].addr = a
        /\ \A g \in Goroutines \ {Main} : operation'[g] = operation[g]
    BY <1>1, <1>4, BeginType, MainGoroutine DEF Try
  <2>9. OperationsFit'
    BY <2>1, <2>8, MainGoroutine DEF Try, OperationsFit, OperationOf, Pending, Dialing
  <2> QED
    BY <2>3, <2>4, <2>5, <2>6, <2>7, <2>8, <2>9
<1> QED
  BY <1>2, <1>3, <1>4 DEF Try

(* The address that is given up leaves the outbound set: it is nobody's. *)
LEMMA FailedConn ==
    ASSUME PeersIInv, main.at \in Dialing, Failed, UNCHANGED conn
    PROVE  ConnOK' /\ OneConnectionEach' /\ main'.at \in {"want", "try", "select"}
<1> USE DEF PeersIInv
<1>1. main'.at \in {"want", "try", "select"}
  BY RestShape DEF Failed, Return, Dialing, Listing
<1>2. /\ IsFiniteSet(outPeers') /\ Cardinality(outPeers') <= Cardinality(outPeers)
      /\ Cardinality(outPeers') \in Nat /\ Cardinality(outPeers) \in Nat
  <2>1. IsFiniteSet(outPeers) /\ outPeers' \in SUBSET outPeers
    BY DEF Failed, ConnOK
  <2>2. IsFiniteSet(outPeers') /\ Cardinality(outPeers') <= Cardinality(outPeers)
    BY <2>1, FS_Subset
  <2> QED
    BY <2>1, <2>2, FS_CardinalityType
<1>3. Cardinality(outPeers') <= MAX_OUTBOUND_PEER_CONNECTIONS
  BY <1>2, PeerManagerAssumption DEF ConnOK
<1>4. \A n \in Outbound : n \in Peering => conn[n].addr \in outPeers'
  BY DEF ConnOK, Failed, MainOK, NotConnected, Peering
<1>5. ConnOK'
  BY <1>1, <1>2, <1>3, <1>4 DEF ConnOK, Failed, Peering
<1>6. OneConnectionEach'
  BY DEF OneConnectionEach
<1> QED
  BY <1>1, <1>5, <1>6

(* An operation of the main loop that is over and marks no address. *)
LEMMA UnmarkedFinish ==
    ASSUME PeersIInv, Finish(Main), UNCHANGED <<now, conn>>,
           main.at \notin {"success", "already", "marked"}, main'.at # "marked"
    PROVE  /\ StoreOK' /\ StaysListed' /\ EveryPeerIsListed' /\ MarkedIsConnected'
           /\ OperationsFit' /\ UNCHANGED connectedPeers
<1>1. /\ StoreOK' /\ StaysListed' /\ EveryPeerIsListed'
      /\ Pending(Main) /\ ~Pending(Main)'
      /\ \A g \in Goroutines \ {Main} : operation'[g] = operation[g]
      /\ connectedPeers' = IF operation[Main].op = "Success" /\ Found(Main)
                             THEN connectedPeers \cup {operation[Main].addr}
                             ELSE connectedPeers
  BY MainFinish
<1>2. UNCHANGED connectedPeers
  BY <1>1 DEF PeersIInv, OperationsFit, OperationOf
<1>3. OperationsFit'
  BY <1>1, MainGoroutine DEF PeersIInv, OperationsFit, Pending
<1>4. MarkedIsConnected'
  BY <1>2 DEF PeersIInv, MarkedIsConnected, At
<1> QED
  BY <1>1, <1>2, <1>3, <1>4

(* A banned address has been removed.                                       *)
LEMMA DeletedKeeps ==
    ASSUME PeersIInv, Deleted
    PROVE  PeersIInv'
<1>1. main.at = "delete" /\ main.at \in Listing
  BY DEF Deleted, At, Listing
<1>2. main'.at \in {"want", "try"}
  BY <1>1, RestShape DEF Deleted, PeersIInv
<1>3. /\ StoreOK' /\ StaysListed' /\ EveryPeerIsListed' /\ MarkedIsConnected'
      /\ OperationsFit' /\ UNCHANGED connectedPeers
  BY <1>1, <1>2, UnmarkedFinish DEF Deleted
<1>4. MainOK' /\ TodoIsFree'
  BY <1>1, <1>3, RestKeeps DEF Deleted
<1>5. ConnOK' /\ OneConnectionEach' /\ InboundOK' /\ StopOK'
  BY <1>1, <1>2, <1>3, <1>4, ListFrame DEF Deleted, managerVars
<1> QED
  BY <1>3, <1>4, <1>5 DEF PeersIInv

(* An attempt or a failure is noted, and the address given up. *)
LEMMA GivenUpKeeps ==
    ASSUME PeersIInv, main.at \in {"attempt", "failure"}, Finish(Main), Failed,
           UNCHANGED <<now, inPeers, inPeerCountByHost, conn, handler, stopVars>>
    PROVE  PeersIInv'
<1>1. main.at \in Listing /\ main.at \in Dialing
  BY DEF Listing, Dialing
<1>2. ConnOK' /\ OneConnectionEach' /\ main'.at \in {"want", "try", "select"}
  BY <1>1, FailedConn
<1>3. /\ StoreOK' /\ StaysListed' /\ EveryPeerIsListed' /\ MarkedIsConnected'
      /\ OperationsFit' /\ UNCHANGED connectedPeers
  BY <1>2, UnmarkedFinish
<1>4. MainOK' /\ TodoIsFree'
  BY <1>1, <1>3, RestKeeps DEF Failed
<1>5. InboundOK' /\ StopOK'
  BY <1>1, InboundFrame, StopFrame DEF PeersIInv, Dialing
<1> QED
  BY <1>2, <1>3, <1>4, <1>5 DEF PeersIInv

(* The attempt is noted, and the address is dialed.                         *)
LEMMA AttemptedKeeps ==
    ASSUME PeersIInv, Attempted
    PROVE  PeersIInv'
<1>1. main.at = "attempt" /\ main.at \in Listing
  BY DEF Attempted, At, Listing
<1>2. CASE ~Found(Main)
  BY <1>1, <1>2, GivenUpKeeps DEF Attempted
<1>3. CASE Found(Main)
  <2>1. main' = [main EXCEPT !.at = "dial"] /\ main'.at = "dial" /\ UNCHANGED outPeers
    BY <1>3 DEF Attempted, Go, PeersIInv, MainOK
  <2>2. /\ StoreOK' /\ StaysListed' /\ EveryPeerIsListed' /\ MarkedIsConnected'
        /\ OperationsFit' /\ UNCHANGED connectedPeers
    BY <1>1, <2>1, UnmarkedFinish DEF Attempted
  <2>3. MainOK' /\ TodoIsFree'
    BY <1>1, <2>1, <2>2
       DEF Attempted, PeersIInv, MainOK, TodoIsFree, Listing, Dialing, At, NotConnected
  <2>4. ConnOK' /\ OneConnectionEach' /\ InboundOK' /\ StopOK'
    BY <1>1, <2>1, <2>2, <2>3, ListFrame DEF Attempted
  <2> QED
    BY <2>2, <2>3, <2>4 DEF PeersIInv
<1> QED
  BY <1>2, <1>3

(* The call has failed.                                                     *)
LEMMA RefusedKeeps ==
    ASSUME PeersIInv, Refused
    PROVE  PeersIInv'
BY GivenUpKeeps DEF Refused, At

(* The call is made: nobody has a connection to that address.               *)
LEMMA DialKeeps ==
    ASSUME PeersIInv, Dial
    PROVE  PeersIInv'
<1> USE DEF PeersIInv
<1>1. main.at = "dial" /\ main.at \in Listing /\ main.at \in Dialing
      /\ main.addr \in Addresses
  BY RestShape DEF Dial, At, Listing, Dialing, MainOK
<1>2. PICK op \in {"Success", "Failure"}, at \in {"success", "already", "failure"} :
         /\ Begin(Main, op, main.addr) /\ Go(at)
         /\ op = OperationOf(at)
         /\ at = "success" => \E n \in Outbound : conn[n] = NotMade
  BY DEF Dial, OperationOf
<1>3. main' = [main EXCEPT !.at = at] /\ main'.at = at
  BY <1>2 DEF Go, MainOK
<1>4. StoreOK' /\ StaysListed' /\ EveryPeerIsListed'
      /\ operation'[Main].op = op /\ operation'[Main].addr = main.addr
      /\ \A g \in Goroutines \ {Main} : operation'[g] = operation[g]
  BY <1>1, <1>2, BeginType, MainGoroutine DEF Dial
<1>5. MainOK' /\ TodoIsFree'
  BY <1>1, <1>3 DEF Dial, MainOK, TodoIsFree, Listing, Dialing, At, NotConnected, managerVars
<1>6. ConnOK' /\ OneConnectionEach'
  BY <1>2, <1>3 DEF Dial, managerVars, ConnOK, OneConnectionEach, Peering
<1>7. InboundOK' /\ StopOK'
  BY <1>1, InboundFrame, StopFrame DEF Dial, managerVars
<1>8. MarkedIsConnected'
  BY <1>1, <1>3 DEF Dial, MarkedIsConnected, At
<1>9. OperationsFit'
  BY <1>2, <1>3, <1>4, MainGoroutine DEF Dial, OperationsFit, OperationOf, Pending, Dialing
<1> QED
  BY <1>4, <1>5, <1>6, <1>7, <1>8, <1>9

(* The handshake is noted: the connection has its two loops and its mark at *)
(* once.                                                                    *)
LEMMA SucceededKeeps ==
    ASSUME PeersIInv, Succeeded
    PROVE  PeersIInv'
<1> USE DEF PeersIInv
<1>1. /\ main.at = "success" /\ main.at \in Listing /\ main.at \in Dialing
      /\ main.addr \in Addresses /\ main.addr = Head(main.todo)
  BY RestShape DEF Succeeded, At, Listing, Dialing, MainOK
<1>2. /\ StoreOK' /\ StaysListed' /\ EveryPeerIsListed'
      /\ Pending(Main) /\ ~Pending(Main)'
      /\ \A g \in Goroutines \ {Main} : operation'[g] = operation[g]
      /\ connectedPeers' = IF operation[Main].op = "Success" /\ Found(Main)
                             THEN connectedPeers \cup {operation[Main].addr}
                             ELSE connectedPeers
  BY MainFinish DEF Succeeded
<1>3. operation[Main].op = "Success" /\ operation[Main].addr = main.addr
  BY <1>1, <1>2 DEF OperationsFit, OperationOf
<1>4. connectedPeers' \subseteq connectedPeers \cup {Head(main.todo)}
      /\ (main' = Rest \/ main' = Return)
  BY <1>1, <1>2, <1>3 DEF Succeeded, Failed
<1>5. MainOK' /\ TodoIsFree' /\ main'.at \in {"want", "try", "select"}
  BY <1>1, <1>4, RestKeeps
<1>6. InboundOK' /\ StopOK'
  BY <1>1, InboundFrame, StopFrame DEF Succeeded
<1>7. CASE ~Found(Main)
  <2>1. ConnOK' /\ OneConnectionEach'
    BY <1>1, <1>7, FailedConn DEF Succeeded
  <2>2. MarkedIsConnected'
    BY <1>1, <1>2, <1>5, <1>7 DEF Succeeded, MarkedIsConnected, At
  <2>3. OperationsFit'
    BY <1>2, <1>7, MainGoroutine DEF Succeeded, OperationsFit, Pending
  <2> QED
    BY <1>2, <1>5, <1>6, <2>1, <2>2, <2>3
<1>8. CASE Found(Main)
  <2> DEFINE new == CHOOSE n \in Outbound : conn[n] = NotMade
             made == [addr |-> main.addr, reader |-> "run", writer |-> "run"]
  <2>1. new \in Outbound /\ conn[new] = NotMade
    BY <1>1 DEF ConnOK
  <2> HIDE DEF new
  <2>2. conn' = [conn EXCEPT ![new] = made] /\ UNCHANGED outPeers
    BY <1>8 DEF Succeeded, new
  <2>3. conn'[new] = made /\ \A n \in Outbound \ {new} : conn'[n] = conn[n]
    BY <2>1, <2>2 DEF ConnOK
  <2>4. made # NotMade
    BY DEF NotMade
  <2>5. ConnOK'
    <3>1. conn' \in [Outbound ->
            [addr : Addresses, reader : {"run", "closing", "gone"},
             writer : {"run", "refresh", "gone"}] \cup {NotMade}]
      BY <1>1, <2>1, <2>2 DEF ConnOK
    <3>2. ASSUME NEW n \in Outbound
          PROVE  /\ conn'[n].reader \in {"run", "gone"} => conn'[n].writer # "gone"
                 /\ conn'[n] # NotMade => Host(conn'[n].addr) \notin Banned
                 /\ n \in Peering' => conn'[n].addr \in outPeers'
      <4>1. CASE n = new
        BY <1>1, <2>2, <2>3, <4>1 DEF MainOK
      <4>2. CASE n # new
        BY <2>2, <2>3, <4>2 DEF ConnOK, Peering
      <4> QED
        BY <4>1, <4>2
    <3> QED
      BY <1>5, <2>2, <3>1, <3>2 DEF ConnOK
  <2>6. OneConnectionEach'
    <3> SUFFICES ASSUME NEW m \in Outbound, NEW n \in Outbound, m # n,
                        conn'[m].addr = conn'[n].addr
                 PROVE  conn'[m] = NotMade
      BY DEF OneConnectionEach
    <3>1. \A k \in Outbound \ {new} : conn'[k].addr # main.addr
      BY <1>1, <2>3 DEF MainOK, NotConnected
    <3>2. m # new /\ n # new
      BY <2>3, <3>1
    <3> QED
      BY <2>3, <3>2 DEF OneConnectionEach
  <2>7. MarkedIsConnected'
    <3>1. connectedPeers' = connectedPeers \cup {main.addr}
      BY <1>2, <1>3, <1>8
    <3>2. connectedPeers = {conn[n].addr : n \in {m \in Outbound : conn[m].writer \in {"run", "refresh"}}}
      BY <1>1 DEF MarkedIsConnected, At
    <3>3. conn[new].writer = "none"
      BY <2>1 DEF NotMade
    <3>4. {conn'[n].addr : n \in {m \in Outbound : conn'[m].writer \in {"run", "refresh"}}}
            = {conn[n].addr : n \in {m \in Outbound : conn[m].writer \in {"run", "refresh"}}}
                \cup {main.addr}
      BY <2>1, <2>3, <3>3
    <3> QED
      BY <1>5, <3>1, <3>2, <3>4 DEF MarkedIsConnected, At
  <2>8. OperationsFit'
    <3>1. \A n \in Outbound : Pending(n)' => n # new
      BY <1>2, <2>1, MainGoroutine DEF OperationsFit, Pending, NotMade
    <3> QED
      BY <1>2, <2>3, <3>1, MainGoroutine DEF Succeeded, OperationsFit, Pending
  <2> QED
    BY <1>2, <1>5, <1>6, <2>5, <2>6, <2>7, <2>8
<1> QED
  BY <1>7, <1>8

(* The other end says we are connected: the mark is made and taken back. *)
LEMMA AlreadyConnectedKeeps ==
    ASSUME PeersIInv, AlreadyConnected
    PROVE  PeersIInv'
<1> USE DEF PeersIInv
<1>1. /\ main.at = "already" /\ main.at \in Listing /\ main.at \in Dialing
      /\ main.addr = Head(main.todo)
  BY DEF AlreadyConnected, At, Listing, Dialing, MainOK
<1>2. /\ StoreOK' /\ StaysListed' /\ EveryPeerIsListed'
      /\ Pending(Main) /\ ~Pending(Main)'
      /\ \A g \in Goroutines \ {Main} : operation'[g] = operation[g]
      /\ connectedPeers' = IF operation[Main].op = "Success" /\ Found(Main)
                             THEN connectedPeers \cup {operation[Main].addr}
                             ELSE connectedPeers
  BY MainFinish DEF AlreadyConnected
<1>3. operation[Main].op = "Success" /\ operation[Main].addr = main.addr
  BY <1>1, <1>2 DEF OperationsFit, OperationOf
<1>4. main' = [main EXCEPT !.at = "marked"] /\ main'.at = "marked" /\ main'.addr = main.addr
  BY DEF AlreadyConnected, Go, MainOK
<1>5. MainOK'
  BY <1>1, <1>4 DEF AlreadyConnected, MainOK, Listing, Dialing, NotConnected, managerVars
<1>6. TodoIsFree'
  BY <1>1, <1>2, <1>3, <1>4 DEF TodoIsFree, At
<1>7. ConnOK' /\ OneConnectionEach' /\ InboundOK' /\ StopOK'
  BY <1>1, <1>4, ConnFrame, InboundFrame, StopFrame DEF AlreadyConnected, managerVars
<1>8. MarkedIsConnected'
  <2>1. main.addr \notin {conn[n].addr : n \in {m \in Outbound : conn[m].writer \in {"run", "refresh"}}}
    BY <1>1 DEF MainOK, NotConnected
  <2>2. connectedPeers' \ {main.addr} = connectedPeers
    BY <1>1, <1>2, <1>3, <2>1 DEF MarkedIsConnected, At
  <2> QED
    BY <1>1, <1>4, <2>2 DEF AlreadyConnected, MarkedIsConnected, At
<1>9. OperationsFit'
  BY <1>2, MainGoroutine DEF AlreadyConnected, OperationsFit, Pending
<1> QED
  BY <1>2, <1>5, <1>6, <1>7, <1>8, <1>9

(* connect takes back the mark of an address that is connected to us.       *)
LEMMA UnmarkedKeeps ==
    ASSUME PeersIInv, Unmarked
    PROVE  PeersIInv'
<1> USE DEF PeersIInv
<1>1. main.at = "marked" /\ main.at \in Listing /\ main.at \in Dialing /\ ~Pending(Main)
  BY NoOperationThere DEF Unmarked, At, Listing, Dialing
<1>2. ConnOK' /\ OneConnectionEach' /\ main'.at \in {"want", "try", "select"}
  BY <1>1, FailedConn DEF Unmarked
<1>3. connectedPeers' = connectedPeers \ {main.addr}
      /\ UNCHANGED <<now, rowVars, operation, conn>>
  BY DEF Unmarked, OnDisconnect
<1>4. MainOK' /\ TodoIsFree'
  BY <1>1, <1>3, RestKeeps DEF Unmarked, Failed
<1>5. InboundOK' /\ StopOK'
  BY <1>1, InboundFrame, StopFrame DEF Unmarked
<1>6. MarkedIsConnected'
  BY <1>1, <1>2, <1>3 DEF MarkedIsConnected, At
<1>7. StoreOK' /\ StaysListed' /\ EveryPeerIsListed'
  BY <1>3 DEF StoreOK, StaysListed, EveryPeerIsListed, rowVars, Pending, Found
<1>8. OperationsFit'
  BY <1>1, <1>3 DEF OperationsFit, Pending
<1> QED
  BY <1>2, <1>4, <1>5, <1>6, <1>7, <1>8

(* The main loop, whatever it does.                                         *)
LEMMA MainStepKeeps == PeersIInv /\ MainStep => PeersIInv'
BY TakeAddressKeeps, StoredKeeps, QuietKeeps, ConnectToPeersKeeps, TryKeeps, DeletedKeeps,
   AttemptedKeeps, DialKeeps, SucceededKeeps, AlreadyConnectedKeeps, UnmarkedKeeps,
   RefusedKeeps DEF MainStep

-----------------------------------------------------------------------------
(* The loops of an outbound connection *)

(* A step that changes one connection, and neither the main loop nor the    *)
(* handlers: what is left to show is what becomes of that connection.       *)
LEMMA ConnStepFrame ==
    ASSUME PeersIInv, NEW n \in Outbound, NEW c,
           conn' = [conn EXCEPT ![n] = c],
           c = NotMade \/ c \in [addr : {conn[n].addr},
                                 reader : {"run", "closing", "gone"},
                                 writer : {"run", "refresh", "gone"}],
           c # NotMade => conn[n] # NotMade,
           c.reader \in {"run", "gone"} => c.writer # "gone",
           c.reader \in {"run", "closing"} => conn[n].reader \in {"run", "closing"},
           UNCHANGED <<main, inPeers, inPeerCountByHost, handler, stopVars>>,
           outPeers' = outPeers \/ (/\ outPeers' = outPeers \ {conn[n].addr}
                                    /\ c.reader \notin {"run", "closing"}
                                    /\ conn[n] # NotMade)
    PROVE  /\ MainOK' /\ ConnOK' /\ OneConnectionEach' /\ InboundOK' /\ StopOK'
           /\ conn'[n] = c /\ \A m \in Outbound \ {n} : conn'[m] = conn[m]
<1> USE DEF PeersIInv
<1>1. conn'[n] = c /\ \A m \in Outbound \ {n} : conn'[m] = conn[m]
  BY DEF ConnOK
<1>2. c.addr \in {conn[n].addr, Nobody}
  BY DEF NotMade
<1>3. InboundOK'
  BY InboundFrame
<1>4. OneConnectionEach'
  <2> SUFFICES ASSUME NEW k \in Outbound, NEW m \in Outbound, k # m,
                      conn'[k].addr = conn'[m].addr
               PROVE  conn'[k] = NotMade
    BY DEF OneConnectionEach
  <2>1. CASE k # n /\ m # n
    BY <1>1, <2>1 DEF OneConnectionEach
  <2>2. CASE k = n
    <3>1. CASE c = NotMade
      BY <1>1, <2>2, <3>1
    <3>2. CASE c # NotMade
      BY <1>1, <2>2, <3>2 DEF OneConnectionEach
    <3> QED
      BY <3>1, <3>2
  <2>3. CASE m = n
    <3>1. CASE c = NotMade
      <4>1. conn[k].addr = Nobody
        BY <1>1, <2>3, <3>1 DEF NotMade
      <4> QED
        BY <1>1, <2>3, <4>1, ConnShape, PeerManagerAssumption
    <3>2. CASE c # NotMade
      BY <1>1, <2>3, <3>2 DEF OneConnectionEach
    <3> QED
      BY <3>1, <3>2
  <2> QED
    BY <2>1, <2>2, <2>3
<1>5. \A a \in Addresses : NotConnected(a) => NotConnected(a)'
  BY <1>1, <1>2, PeerManagerAssumption DEF NotConnected
<1>6. main.at \in Dialing => main.addr \in outPeers'
  BY DEF MainOK, NotConnected
<1>7. MainOK'
  <2>1. main.at \in Dialing => main.addr \in Addresses
    BY DEF MainOK, ConnOK
  <2> QED
    BY <1>5, <1>6, <2>1 DEF MainOK
<1>8. /\ outPeers' \subseteq Addresses /\ IsFiniteSet(outPeers')
      /\ Cardinality(outPeers') <= MAX_OUTBOUND_PEER_CONNECTIONS
  <2>1. IsFiniteSet(outPeers) /\ outPeers' \in SUBSET outPeers
    BY DEF ConnOK
  <2>2. IsFiniteSet(outPeers') /\ Cardinality(outPeers') <= Cardinality(outPeers)
    BY <2>1, FS_Subset
  <2>3. Cardinality(outPeers) \in Nat /\ Cardinality(outPeers') \in Nat
    BY <2>1, <2>2, FS_CardinalityType
  <2> QED
    BY <2>1, <2>2, <2>3, PeerManagerAssumption DEF ConnOK
<1>9. ConnOK'
  <2>1. conn' \in [Outbound ->
          [addr : Addresses, reader : {"run", "closing", "gone"},
           writer : {"run", "refresh", "gone"}] \cup {NotMade}]
    <3>1. c \in [addr : Addresses, reader : {"run", "closing", "gone"},
                 writer : {"run", "refresh", "gone"}] \cup {NotMade}
      BY ConnShape
    <3> QED
      BY <3>1 DEF ConnOK
  <2>2. ASSUME NEW m \in Outbound
        PROVE  /\ conn'[m].reader \in {"run", "gone"} => conn'[m].writer # "gone"
               /\ conn'[m] # NotMade => Host(conn'[m].addr) \notin Banned
               /\ m \in Peering' => conn'[m].addr \in outPeers'
    <3>1. CASE m = n
      BY <1>1, <3>1 DEF ConnOK, Peering, NotMade
    <3>2. CASE m # n
      <4>1. m \in Peering => conn[m].addr \in outPeers'
        BY <3>2, ConnShape DEF ConnOK, OneConnectionEach, Peering, NotMade
      <4> QED
        BY <1>1, <3>2, <4>1 DEF ConnOK, Peering
    <3> QED
      BY <3>1, <3>2
  <2>3. main.at = "success" => \E m \in Outbound : conn'[m] = NotMade
    BY <1>1 DEF ConnOK
  <2> QED
    BY <1>8, <2>1, <2>2, <2>3 DEF ConnOK
<1>10. StopOK'
  <2>1. Peering' \subseteq Peering
    BY <1>1 DEF Peering
  <2> QED
    BY <2>1 DEF StopOK, stopVars, At
<1> QED
  BY <1>1, <1>3, <1>4, <1>7, <1>9, <1>10

(* The set of addresses with a writer loop, after a step of connection n. *)
WithWriter(c) == {c[n].addr : n \in {m \in Outbound : c[m].writer \in {"run", "refresh"}}}

(* The two loops of a connection, whatever they do.                         *)
LEMMA ConnStepKeeps ==
    ASSUME PeersIInv, NEW n \in Outbound, ConnStep(n)
    PROVE  PeersIInv'
<1> USE DEF PeersIInv
<1> DEFINE reader(c) == IF conn[n].writer = "gone" THEN NotMade ELSE [conn[n] EXCEPT !.reader = c]
           writer(c) == IF conn[n].reader = "gone" THEN NotMade ELSE [conn[n] EXCEPT !.writer = c]
<1>0. MainGoroutine /\ n \in Goroutines
  BY MainGoroutine
<1>1. CASE ReaderCloses(n)
  <2>1. conn[n] # NotMade /\ conn[n].reader = "run" /\ conn[n].writer \in {"run", "refresh"}
    BY <1>1, ConnShape DEF ReaderCloses, ConnOK
  <2>2. /\ conn' = [conn EXCEPT ![n] = [conn[n] EXCEPT !.reader = "closing"]]
        /\ [conn[n] EXCEPT !.reader = "closing"] \in
              [addr : {conn[n].addr}, reader : {"closing"}, writer : {conn[n].writer}]
    BY <1>1, <2>1 DEF ReaderCloses, ConnOK
  <2>3. /\ MainOK' /\ ConnOK' /\ OneConnectionEach' /\ InboundOK' /\ StopOK'
        /\ conn'[n] = [conn[n] EXCEPT !.reader = "closing"]
        /\ \A m \in Outbound \ {n} : conn'[m] = conn[m]
    BY <1>1, <2>1, <2>2, ConnStepFrame DEF ReaderCloses, managerVars
  <2>4. WithWriter(conn') = WithWriter(conn)
    BY <2>1, <2>2, <2>3 DEF WithWriter
  <2>5. MarkedIsConnected' /\ TodoIsFree'
    BY <1>1, <2>4, MarksFrame DEF ReaderCloses, storeVars, WithWriter
  <2>6. StoreOK' /\ StaysListed' /\ EveryPeerIsListed'
    BY <1>1 DEF ReaderCloses, StoreOK, StaysListed, EveryPeerIsListed, storeVars, rowVars,
                Pending, Found
  <2>7. OperationsFit'
    BY <1>1, <2>1, <2>2, <2>3 DEF ReaderCloses, OperationsFit, Pending, storeVars
  <2> QED
    BY <2>3, <2>5, <2>6, <2>7
<1>2. CASE ReaderEnds(n)
  <2> DEFINE c == reader("gone")
  <2>1. conn[n] # NotMade /\ conn[n].reader = "closing"
        /\ conn[n].writer \in {"run", "refresh", "gone"}
    BY <1>2, ConnShape DEF ReaderEnds
  <2>2. /\ conn' = [conn EXCEPT ![n] = c]
        /\ c = NotMade \/ c \in [addr : {conn[n].addr}, reader : {"gone"}, writer : {conn[n].writer}]
        /\ c = NotMade <=> conn[n].writer = "gone"
        /\ c.reader \in {"none", "gone"}
        /\ c.reader = "gone" => c.writer # "gone"
    BY <1>2, <2>1 DEF ReaderEnds, Over, ConnOK, NotMade
  <2> HIDE DEF c
  <2>3. /\ MainOK' /\ ConnOK' /\ OneConnectionEach' /\ InboundOK' /\ StopOK'
        /\ conn'[n] = c /\ \A m \in Outbound \ {n} : conn'[m] = conn[m]
    BY <1>2, <2>1, <2>2, ConnStepFrame DEF ReaderEnds
  <2>4. WithWriter(conn') = WithWriter(conn)
    BY <2>1, <2>2, <2>3 DEF WithWriter, NotMade
  <2>5. MarkedIsConnected' /\ TodoIsFree'
    BY <1>2, <2>4, MarksFrame DEF ReaderEnds, storeVars, WithWriter
  <2>6. StoreOK' /\ StaysListed' /\ EveryPeerIsListed'
    BY <1>2 DEF ReaderEnds, StoreOK, StaysListed, EveryPeerIsListed, storeVars, rowVars,
                Pending, Found
  <2>7. OperationsFit'
    BY <1>2, <2>1, <2>2, <2>3 DEF ReaderEnds, OperationsFit, Pending, storeVars
  <2> QED
    BY <2>3, <2>5, <2>6, <2>7
<1>3. CASE Refresh(n)
  <2>1. conn[n] # NotMade /\ conn[n].writer = "run" /\ conn[n].addr \in Addresses
        /\ conn[n].reader \in {"run", "closing", "gone"}
    BY <1>3, ConnShape DEF Refresh
  <2>2. /\ conn' = [conn EXCEPT ![n] = [conn[n] EXCEPT !.writer = "refresh"]]
        /\ [conn[n] EXCEPT !.writer = "refresh"] \in
              [addr : {conn[n].addr}, reader : {conn[n].reader}, writer : {"refresh"}]
    BY <1>3, <2>1 DEF Refresh, ConnOK
  <2>3. /\ MainOK' /\ ConnOK' /\ OneConnectionEach' /\ InboundOK' /\ StopOK'
        /\ conn'[n] = [conn[n] EXCEPT !.writer = "refresh"]
        /\ \A m \in Outbound \ {n} : conn'[m] = conn[m]
    BY <1>3, <2>1, <2>2, ConnStepFrame DEF Refresh, managerVars
  <2>4. WithWriter(conn') = WithWriter(conn)
    BY <2>1, <2>2, <2>3 DEF WithWriter
  <2>5. MarkedIsConnected' /\ TodoIsFree'
    BY <1>3, <2>4, MarksFrame DEF Refresh, WithWriter
  <2>6. StoreOK' /\ StaysListed' /\ EveryPeerIsListed'
        /\ operation'[n].op = "Success" /\ operation'[n].addr = conn[n].addr
        /\ \A g \in Goroutines \ {n} : operation'[g] = operation[g]
    BY <1>0, <1>3, <2>1, BeginType DEF Refresh
  <2>7. OperationsFit'
    BY <1>3, <2>2, <2>3, <2>6, MainGoroutine, PeerManagerAssumption
       DEF Refresh, OperationsFit, Pending
  <2> QED
    BY <2>3, <2>5, <2>6, <2>7
<1>4. CASE Refreshed(n)
  <2>1. conn[n] # NotMade /\ conn[n].writer = "refresh" /\ conn[n].addr \in Addresses
        /\ conn[n].reader \in {"run", "closing", "gone"}
    BY <1>4, ConnShape DEF Refreshed
  <2>2. /\ conn' = [conn EXCEPT ![n] = [conn[n] EXCEPT !.writer = "run"]]
        /\ [conn[n] EXCEPT !.writer = "run"] \in
              [addr : {conn[n].addr}, reader : {conn[n].reader}, writer : {"run"}]
    BY <1>4, <2>1 DEF Refreshed, ConnOK
  <2>3. /\ MainOK' /\ ConnOK' /\ OneConnectionEach' /\ InboundOK' /\ StopOK'
        /\ conn'[n] = [conn[n] EXCEPT !.writer = "run"]
        /\ \A m \in Outbound \ {n} : conn'[m] = conn[m]
    BY <1>4, <2>1, <2>2, ConnStepFrame DEF Refreshed, managerVars
  <2>4. WithWriter(conn') = WithWriter(conn)
    BY <2>1, <2>2, <2>3 DEF WithWriter
  <2>5. /\ StoreOK' /\ Pending(n)
        /\ operation' = [operation EXCEPT ![n] = NoOperation]
        /\ connectedPeers' = IF operation[n].op = "Success" /\ Found(n)
                               THEN connectedPeers \cup {operation[n].addr}
                               ELSE connectedPeers
    BY <1>0, <1>4, FinishType DEF Refreshed
  <2>6. operation[n].op = "Success" /\ operation[n].addr = conn[n].addr
    BY <2>5 DEF OperationsFit
  <2>7. UNCHANGED connectedPeers
    <3>1. conn[n].addr \in connectedPeers
      BY <2>1 DEF MarkedIsConnected
    <3> QED
      BY <2>5, <2>6, <3>1
  <2>8. MarkedIsConnected' /\ TodoIsFree'
    BY <1>4, <2>4, <2>7, MarksFrame DEF Refreshed, WithWriter
  <2>9. StaysListed' /\ EveryPeerIsListed'
    BY <1>0, <1>4, <2>6, FinishListed DEF Refreshed
  <2>10. OperationsFit'
    BY <1>4, <2>3, <2>5, MainGoroutine, PeerManagerAssumption
       DEF Refreshed, StoreOK, OperationsFit, Pending
  <2> QED
    BY <2>3, <2>5, <2>8, <2>9, <2>10
<1>5. CASE WriterEnds(n)
  <2> DEFINE c == writer("gone")
             a == conn[n].addr
  <2>1. conn[n] # NotMade /\ conn[n].reader \in {"closing", "gone"}
        /\ conn[n].writer = "run" /\ a \in Addresses
    BY <1>5, ConnShape DEF WriterEnds
  <2>2. /\ conn' = [conn EXCEPT ![n] = c]
        /\ c = NotMade \/ c \in [addr : {a}, reader : {conn[n].reader}, writer : {"gone"}]
        /\ c = NotMade <=> conn[n].reader = "gone"
        /\ c.reader \in {"none", "closing"} /\ c.writer \in {"none", "gone"}
        /\ c.reader = "closing" => conn[n].reader = "closing"
    BY <1>5, <2>1 DEF WriterEnds, Over, ConnOK, NotMade
  <2> HIDE DEF c
  <2>3. /\ MainOK' /\ ConnOK' /\ OneConnectionEach' /\ InboundOK' /\ StopOK'
        /\ conn'[n] = c /\ \A m \in Outbound \ {n} : conn'[m] = conn[m]
    <3>1. c = NotMade \/ c \in [addr : {conn[n].addr}, reader : {"run", "closing", "gone"},
                                writer : {"run", "refresh", "gone"}]
      BY <2>1, <2>2
    <3> QED
      BY <1>5, <2>1, <2>2, <3>1, ConnStepFrame DEF WriterEnds, managerVars
  <2>4. WithWriter(conn') = WithWriter(conn) \ {a}
    <3>1. \A m \in Outbound \ {n} : conn[m].addr # a
      BY <2>1, PeerManagerAssumption DEF OneConnectionEach, NotMade
    <3> QED
      BY <2>1, <2>2, <2>3, <3>1 DEF WithWriter
  <2>5. connectedPeers' = connectedPeers \ {a} /\ UNCHANGED <<rowVars, operation>>
    BY <1>5 DEF WriterEnds, OnDisconnect
  <2>6. MarkedIsConnected'
    <3>1. At("marked") => main.addr # a
      BY DEF At, MainOK, Dialing, NotConnected
    <3> QED
      BY <1>5, <2>4, <2>5, <3>1 DEF WriterEnds, MarkedIsConnected, WithWriter, At
  <2>7. TodoIsFree'
    BY <1>5, <2>5 DEF WriterEnds, TodoIsFree, At
  <2>8. StoreOK' /\ StaysListed' /\ EveryPeerIsListed'
    BY <1>5, <2>5 DEF WriterEnds, StoreOK, StaysListed, EveryPeerIsListed, rowVars, Pending, Found
  <2>9. OperationsFit'
    BY <1>5, <2>1, <2>3, <2>5 DEF WriterEnds, OperationsFit, Pending
  <2> QED
    BY <2>3, <2>6, <2>7, <2>8, <2>9
<1> QED
  BY <1>1, <1>2, <1>3, <1>4, <1>5 DEF ConnStep

-----------------------------------------------------------------------------
(* The connections that come in *)

(* A handler's step that leaves the outbound connections and the main loop  *)
(* alone, and its own operation at most a Store.                            *)
LEMMA HandlerFrame ==
    ASSUME PeersIInv, NEW h \in Handlers,
           UNCHANGED <<main, conn, outPeers, connectedPeers, stopVars>>,
           \A g \in Goroutines \ {h} : operation'[g] = operation[g],
           Pending(h)' => operation'[h].op = "Store",
           StoreOK', StaysListed', EveryPeerIsListed', InboundOK'
    PROVE  PeersIInv'
<1> USE DEF PeersIInv
<1>1. MainOK' /\ StopOK'
  BY DEF MainOK, NotConnected, StopOK, stopVars, At, Peering
<1>2. ConnOK' /\ OneConnectionEach'
  BY ConnFrame
<1>3. MarkedIsConnected' /\ TodoIsFree'
  BY MarksFrame
<1>4. OperationsFit'
  BY MainGoroutine, PeerManagerAssumption DEF OperationsFit, Pending
<1> QED
  BY <1>1, <1>2, <1>3, <1>4

(* What a handler counts: another place for it, which is not in the set.    *)
LEMMA HandlerMoves ==
    ASSUME InboundOK, NEW h \in Handlers, handler[h] # "connected",
           NEW where \in {"out", "limit", "store", "upgrade", "upgraded"},
           To(h, where), UNCHANGED <<inPeers, inPeerCountByHost>>
    PROVE  InboundOK'
<1>1. handler' \in [Handlers -> {"out", "limit", "store", "upgrade", "upgraded", "connected"}]
      /\ inPeers = {g \in Handlers : handler'[g] = "connected"}
  BY DEF InboundOK, To
<1> QED
  BY <1>1 DEF InboundOK, CountOf

(* A handler counted in is counted once, for its host.                      *)
LEMMA AddToInboundSetKeeps ==
    ASSUME InboundOK, NEW h \in Handlers, AddToInboundSet(h)
    PROVE  InboundOK'
<1>1. CASE Cardinality(inPeers) = inboundLimit
  BY <1>1, HandlerMoves DEF AddToInboundSet
<1>2. CASE Cardinality(inPeers) # inboundLimit
  <2> DEFINE of(set, host) == {g \in set : Host(g) = host}
  <2>1. /\ handler[h] = "upgraded" /\ inPeers' = inPeers \cup {h} /\ To(h, "connected")
        /\ inPeerCountByHost' =
              [g \in DOMAIN inPeerCountByHost \cup {Host(h)} |->
                  IF g = Host(h) THEN CountOf(g) + 1 ELSE inPeerCountByHost[g]]
    BY <1>2 DEF AddToInboundSet
  <2>2. h \notin inPeers /\ IsFiniteSet(inPeers)
    BY <2>1 DEF InboundOK
  <2>3. /\ handler' \in [Handlers ->
              {"out", "limit", "store", "upgrade", "upgraded", "connected"}]
        /\ inPeers' = {g \in Handlers : handler'[g] = "connected"}
    BY <2>1 DEF InboundOK, To
  <2>4. IsFiniteSet(inPeers') /\ Cardinality(inPeers') = Cardinality(inPeers) + 1
        /\ Cardinality(inPeers) \in Nat
    BY <2>1, <2>2, FS_AddElement, FS_CardinalityType
  <2>5. Cardinality(inPeers') <= inboundLimit
    BY <1>2, <2>4, PeerManagerAssumption DEF InboundOK
  <2>6. ASSUME NEW host \in Hosts
        PROVE  CountOf(host)' = Cardinality(of(inPeers', host))
    <3>1. CountOf(host) = Cardinality(of(inPeers, host))
      BY DEF InboundOK
    <3>2. CASE host = Host(h)
      <4>1. of(inPeers', host) = of(inPeers, host) \cup {h} /\ h \notin of(inPeers, host)
        BY <2>1, <2>2, <3>2
      <4>2. IsFiniteSet(of(inPeers, host))
        <5>1. of(inPeers, host) \in SUBSET inPeers
          OBVIOUS
        <5> QED
          BY <2>2, <5>1, FS_Subset
      <4>3. Cardinality(of(inPeers', host)) = Cardinality(of(inPeers, host)) + 1
        BY <4>1, <4>2, FS_AddElement
      <4>4. CountOf(host)' = CountOf(host) + 1
        BY <2>1, <3>2 DEF CountOf
      <4> QED
        BY <3>1, <4>3, <4>4
    <3>3. CASE host # Host(h)
      <4>1. of(inPeers', host) = of(inPeers, host)
        BY <2>1, <3>3
      <4>2. CountOf(host)' = CountOf(host)
        BY <2>1, <3>3 DEF CountOf
      <4> QED
        BY <3>1, <4>1, <4>2
    <3> QED
      BY <3>2, <3>3
  <2> QED
    BY <2>3, <2>4, <2>5, <2>6 DEF InboundOK
<1> QED
  BY <1>1, <1>2

(* And counted out.                                                         *)
LEMMA RemoveFromInboundSetKeeps ==
    ASSUME InboundOK, NEW h \in Handlers, RemoveFromInboundSet(h)
    PROVE  InboundOK'
<1> DEFINE of(set, host) == {g \in set : Host(g) = host}
<1>1. /\ handler[h] = "connected" /\ inPeers' = inPeers \ {h} /\ To(h, "out")
      /\ inPeerCountByHost' =
            [g \in {f \in DOMAIN inPeerCountByHost : f = Host(h) => CountOf(f) > 1} |->
                IF g = Host(h) THEN CountOf(g) - 1 ELSE CountOf(g)]
  BY DEF RemoveFromInboundSet
<1>2. h \in inPeers /\ IsFiniteSet(inPeers)
  BY <1>1 DEF InboundOK
<1>3. /\ handler' \in [Handlers ->
            {"out", "limit", "store", "upgrade", "upgraded", "connected"}]
      /\ inPeers' = {g \in Handlers : handler'[g] = "connected"}
  BY <1>1 DEF InboundOK, To
<1>4. /\ IsFiniteSet(inPeers') /\ Cardinality(inPeers') = Cardinality(inPeers) - 1
      /\ Cardinality(inPeers) \in Nat
  BY <1>1, <1>2, FS_RemoveElement, FS_CardinalityType
<1>5. Cardinality(inPeers') <= inboundLimit
  BY <1>4, PeerManagerAssumption DEF InboundOK
<1>6. ASSUME NEW host \in Hosts
      PROVE  CountOf(host)' = Cardinality(of(inPeers', host))
  <2>1. CountOf(host) = Cardinality(of(inPeers, host))
    BY DEF InboundOK
  <2>2. CASE host = Host(h)
    <3>1. of(inPeers', host) = of(inPeers, host) \ {h} /\ h \in of(inPeers, host)
      BY <1>1, <1>2, <2>2
    <3>2. IsFiniteSet(of(inPeers, host))
      <4>1. of(inPeers, host) \in SUBSET inPeers
        OBVIOUS
      <4> QED
        BY <1>2, <4>1, FS_Subset
    <3>3. Cardinality(of(inPeers', host)) = Cardinality(of(inPeers, host)) - 1
          /\ Cardinality(of(inPeers, host)) \in Nat
      BY <3>1, <3>2, FS_RemoveElement, FS_CardinalityType
    <3>4. Cardinality(of(inPeers, host)) # 0
      BY <3>1, <3>2, FS_EmptySet
    <3>5. host \in DOMAIN inPeerCountByHost
      BY <2>1, <3>4 DEF CountOf
    <3>6. CountOf(host)' = CountOf(host) - 1
      <4>1. CASE CountOf(host) > 1
        BY <1>1, <2>2, <3>5, <4>1 DEF CountOf
      <4>2. CASE ~ CountOf(host) > 1
        <5>1. CountOf(host) = 1
          BY <2>1, <3>3, <3>4, <4>2
        <5>2. host \notin DOMAIN inPeerCountByHost'
          BY <1>1, <2>2, <4>2
        <5> QED
          BY <5>1, <5>2 DEF CountOf
      <4> QED
        BY <4>1, <4>2
    <3> QED
      BY <2>1, <3>3, <3>6
  <2>3. CASE host # Host(h)
    <3>1. of(inPeers', host) = of(inPeers, host)
      BY <1>1, <2>3
    <3>2. CountOf(host)' = CountOf(host)
      BY <1>1, <2>3 DEF CountOf
    <3> QED
      BY <2>1, <3>1, <3>2
  <2> QED
    BY <2>2, <2>3
<1> QED
  BY <1>3, <1>4, <1>5, <1>6 DEF InboundOK

(* A step that leaves the store alone.                                      *)
LEMMA StoreFrame ==
    ASSUME StoreOK, StaysListed, EveryPeerIsListed, UNCHANGED <<now, storeVars>>
    PROVE  StoreOK' /\ StaysListed' /\ EveryPeerIsListed'
BY DEF StoreOK, StaysListed, EveryPeerIsListed, storeVars, rowVars, Pending, Found

(* The handlers, whatever they do.                                          *)
LEMMA HandlerStepKeeps ==
    ASSUME PeersIInv, NEW h \in Handlers, HandlerStep(h)
    PROVE  PeersIInv'
<1> USE MainGoroutine DEF PeersIInv
<1>0. Pending(h) => operation[h].op = "Store"
  BY DEF OperationsFit
<1>1. CASE Request(h)
  <2>1. InboundOK'
    BY <1>1, HandlerMoves DEF Request, managerVars
  <2> QED
    BY <1>0, <1>1, <2>1, StoreFrame, HandlerFrame DEF Request, managerVars, storeVars, Pending
<1>2. CASE Advertise(h)
  <2>1. InboundOK'
    BY <1>2, HandlerMoves DEF Advertise, managerVars
  <2>2. CASE UNCHANGED operation
    BY <1>0, <1>2, <2>1, <2>2, StoreFrame, HandlerFrame
       DEF Advertise, managerVars, storeVars, Pending
  <2>3. CASE Advertised(h) \in Addresses \ outPeers /\ Begin(h, "Store", Advertised(h))
    <3>1. /\ StoreOK' /\ StaysListed' /\ EveryPeerIsListed'
          /\ operation'[h].op = "Store"
          /\ \A g \in Goroutines \ {h} : operation'[g] = operation[g]
      BY <1>2, <2>3, BeginType DEF Advertise
    <3> QED
      BY <1>2, <2>1, <3>1, HandlerFrame DEF Advertise, managerVars
  <2> QED
    BY <1>2, <2>2, <2>3 DEF Advertise
<1>3. CASE Save(h)
  <2>1. InboundOK'
    BY <1>3, HandlerMoves DEF Save, managerVars
  <2>2. /\ StoreOK' /\ Pending(h)
        /\ operation' = [operation EXCEPT ![h] = NoOperation]
        /\ connectedPeers' = IF operation[h].op = "Success" /\ Found(h)
                               THEN connectedPeers \cup {operation[h].addr}
                               ELSE connectedPeers
    BY <1>3, FinishType DEF Save
  <2>3. StaysListed' /\ EveryPeerIsListed'
    BY <1>0, <1>3, <2>2, FinishListed DEF Save
  <2>4. ~Pending(h)' /\ \A g \in Goroutines \ {h} : operation'[g] = operation[g]
    BY <2>2 DEF StoreOK, Pending
  <2> QED
    BY <1>0, <1>3, <2>1, <2>2, <2>3, <2>4, HandlerFrame DEF Save, managerVars
<1>4. CASE Upgrade(h)
  <2>1. InboundOK'
    BY <1>4, HandlerMoves DEF Upgrade, managerVars
  <2> QED
    BY <1>0, <1>4, <2>1, StoreFrame, HandlerFrame DEF Upgrade, managerVars, storeVars, Pending
<1>5. CASE AddToInboundSet(h)
  BY <1>0, <1>5, AddToInboundSetKeeps, StoreFrame, HandlerFrame
     DEF AddToInboundSet, storeVars, Pending
<1>6. CASE RemoveFromInboundSet(h)
  BY <1>0, <1>6, RemoveFromInboundSetKeeps, StoreFrame, HandlerFrame
     DEF RemoveFromInboundSet, storeVars, Pending
<1> QED
  BY <1>1, <1>2, <1>3, <1>4, <1>5, <1>6 DEF HandlerStep

-----------------------------------------------------------------------------
(* The rest, and the whole *)

(* A step that only moves the clock, the download or the shutdown. *)
LEMMA RestFrame ==
    ASSUME PeersIInv, now' \in Nat, StopOK',
           UNCHANGED <<storeVars, main, outPeers, inPeers, inPeerCountByHost, conn, handler>>
    PROVE  PeersIInv'
<1> USE DEF PeersIInv
<1>1. StoreOK' /\ StaysListed' /\ EveryPeerIsListed'
  BY DEF StoreOK, StaysListed, EveryPeerIsListed, storeVars, rowVars, Pending, Found
<1>2. MainOK'
  BY DEF MainOK, NotConnected
<1>3. ConnOK' /\ OneConnectionEach'
  BY ConnFrame
<1>4. MarkedIsConnected' /\ TodoIsFree'
  BY MarksFrame DEF storeVars
<1>5. OperationsFit'
  BY DEF OperationsFit, Pending, storeVars
<1> QED
  BY <1>1, <1>2, <1>3, <1>4, <1>5, InboundFrame

(* Shutdown: the snapshot has all the peers there are, and none is added.   *)
LEMMA StopKeeps ==
    ASSUME PeersIInv, Shutdown \/ Snapshot \/ Closed
    PROVE  PeersIInv'
<1> USE DEF PeersIInv
<1>1. CASE Shutdown
  <2>1. StopOK'
    BY <1>1 DEF Shutdown, StopOK, At
  <2> QED
    BY <1>1, <2>1, RestFrame DEF Shutdown, managerVars, StoreOK
<1>2. CASE Snapshot
  <2>1. StopOK'
    BY <1>2 DEF Snapshot, StopOK, At, Peering
  <2> QED
    BY <1>2, <2>1, RestFrame DEF Snapshot, managerVars, StoreOK
<1>3. CASE Closed
  <2>1. Peering = {}
    <3>1. Peering \subseteq leaving \cap Outbound
      BY <1>3 DEF Closed, StopOK, Peering
    <3>2. \A n \in Peering : conn[n] = NotMade
      BY <1>3, <3>1 DEF Closed
    <3> QED
      BY <3>2 DEF Peering, NotMade
  <2>2. Peering' = Peering
    BY <1>3 DEF Closed, Peering
  <2>3. StopOK'
    BY <1>3, <2>1, <2>2 DEF Closed, StopOK, At
  <2> QED
    BY <1>3, <2>3, RestFrame DEF Closed, managerVars, StoreOK
<1> QED
  BY <1>1, <1>2, <1>3

(* The point catches up, or time passes.                                    *)
LEMMA TimeKeeps ==
    ASSUME PeersIInv, Synced \/ Clock
    PROVE  PeersIInv'
<1>1. UNCHANGED <<storeVars, main, outPeers, inPeers, inPeerCountByHost, conn, handler,
                  stopVars>>
  BY DEF Synced, Clock, Elapse
<1>2. StopOK'
  BY <1>1 DEF PeersIInv, StopOK, stopVars, At, Peering
<1>3. now' \in Nat
  <2>1. CASE Synced
    BY <2>1 DEF Synced, PeersIInv, StoreOK
  <2>2. CASE Clock
    <3>1. PICK d \in Elapses : now' = now + d
      BY <2>2 DEF Clock, Elapse
    <3> QED
      BY <3>1, PeerStorageAssumption DEF PeersIInv, StoreOK
  <2> QED
    BY <2>1, <2>2
<1> QED
  BY <1>1, <1>2, <1>3, RestFrame

(* A node that starts: nothing is connected, nothing is under way, and the  *)
(* rows are listed.                                                         *)
Started ==
    /\ now \in Nat /\ peerInfo \in [Addresses -> Rows \cup {NoRow}]
    /\ lastAttempts \subseteq Nat \X Addresses /\ lastSuccesses \subseteq Nat \X Addresses
    /\ EveryPeerIsListed /\ main = Return /\ outPeers = {} /\ inPeers = {}
    /\ inPeerCountByHost = <<>> /\ connectedPeers = {}
    /\ operation = [who \in Goroutines |-> NoOperation]
    /\ conn = [n \in Outbound |-> NotMade] /\ handler = [h \in Handlers |-> "out"]
    /\ shutdown = "no"

(* It holds when the client starts, first or again. *)
LEMMA Fresh == Started => PeersIInv
<1> SUFFICES ASSUME Started PROVE PeersIInv
  OBVIOUS
<1> USE DEF Started
<1>1. \A who \in Goroutines : ~Pending(who)
  BY DEF Pending
<1>2. StoreOK /\ StaysListed /\ OperationsFit
  BY <1>1, MainGoroutine DEF StoreOK, StaysListed, OperationsFit
<1>3. main.at = "select" /\ main.todo = <<>> /\ main.tried = {} /\ main.addr = Nobody
  BY DEF Return
<1>4. MainOK /\ TodoIsFree
  BY <1>3 DEF MainOK, TodoIsFree, Return, Listing, Dialing
<1>5. \A n \in Outbound : conn[n] = NotMade /\ conn[n].reader = "none"
                          /\ conn[n].writer = "none"
  BY DEF NotMade
<1>6. Peering = {}
  BY <1>5 DEF Peering
<1>7. IsFiniteSet({}) /\ Cardinality({}) = 0
  BY FS_EmptySet
<1>8. ConnOK
  BY <1>3, <1>5, <1>6, <1>7, PeerManagerAssumption DEF ConnOK
<1>9. MarkedIsConnected /\ OneConnectionEach
  BY <1>3, <1>5 DEF MarkedIsConnected, OneConnectionEach, At
<1>10. InboundOK
  <2>1. \A host \in Hosts : CountOf(host) = 0 /\ {h \in inPeers : Host(h) = host} = {}
    BY DEF CountOf
  <2> QED
    BY <2>1, <1>7, PeerManagerAssumption DEF InboundOK
<1>11. StopOK
  BY DEF StopOK
<1> QED
  BY <1>2, <1>4, <1>8, <1>9, <1>10, <1>11 DEF PeersIInv

(* The rows an earlier run left are listed.                                 *)
LEMMA PeersIInvInit == PeersInit => PeersIInv
<1> SUFFICES ASSUME PeersInit PROVE PeersIInv
  OBVIOUS
<1>1. PICK known \in SUBSET Addresses, t \in NewPositions :
          /\ peerInfo = [a \in Addresses |->
                IF a \in known THEN [FirstSeen |-> now, LastAttempt |-> t, LastSuccess |-> 0]
                               ELSE NoRow]
          /\ lastAttempts = {<<t, a>> : a \in known}
  BY DEF PeersInit, StorageInit
<1>2. now \in Nat /\ t \in Nat
  BY PeerStorageAssumption DEF PeersInit, StorageInit
<1>3. [FirstSeen |-> now, LastAttempt |-> t, LastSuccess |-> 0] \in Rows
  BY <1>2 DEF Rows
<1>4. peerInfo \in [Addresses -> Rows \cup {NoRow}]
  BY <1>1, <1>3
<1>5. lastAttempts \subseteq Nat \X Addresses /\ EveryPeerIsListed
  BY <1>1, <1>2 DEF EveryPeerIsListed
<1> QED
  BY <1>2, <1>4, <1>5, Fresh DEF PeersInit, StorageInit, Started

(* A restart only keeps the rows.                                           *)
LEMMA RestartKeeps == PeersIInv /\ Restart => PeersIInv'
<1>1. PeersIInv /\ Restart => Started'
  BY DEF PeersIInv, StoreOK, EveryPeerIsListed, Restart, Started, rowVars, Return
<1>2. Started' => PeersIInv'
  BY Fresh, PTL
<1> QED
  BY <1>1, <1>2

(* No step breaks the invariant, so it holds always.                        *)
LEMMA PeersIInvStep == PeersIInv /\ [PeersNext]_vars => PeersIInv'
<1> SUFFICES ASSUME PeersIInv, [PeersNext]_vars PROVE PeersIInv'
  OBVIOUS
<1>1. CASE MainStep
  BY <1>1, MainStepKeeps
<1>2. ASSUME NEW n \in Outbound, ConnStep(n) PROVE PeersIInv'
  BY <1>2, ConnStepKeeps
<1>3. ASSUME NEW h \in Handlers, HandlerStep(h) PROVE PeersIInv'
  BY <1>3, HandlerStepKeeps
<1>4. CASE Shutdown \/ Snapshot \/ Closed
  BY <1>4, StopKeeps
<1>5. CASE Synced \/ Clock
  BY <1>5, TimeKeeps
<1>6. CASE Restart
  BY <1>6, RestartKeeps
<1>7. CASE UNCHANGED vars
  <2>1. UNCHANGED <<now, storeVars, main, outPeers, inPeers, inPeerCountByHost, conn, handler,
                    stopVars>>
    BY <1>7 DEF vars, managerVars
  <2>2. StopOK'
    BY <2>1 DEF PeersIInv, StopOK, stopVars, At, Peering
  <2> QED
    BY <2>1, <2>2, RestFrame DEF PeersIInv, StoreOK
<1> QED
  BY <1>1, <1>2, <1>3, <1>4, <1>5, <1>6, <1>7 DEF PeersNext, Running

(* It holds in every state. *)
LEMMA PeersIInvAlways == PeersSpec => []PeersIInv
BY PeersIInvInit, PeersIInvStep, PTL DEF PeersSpec

(* peer_manager.go keeps its sets within their limits and its counter by    *)
(* host equal to what it counts, and peer_storage_disk.go its tables of     *)
(* their kinds, through every interleaving of the main loop, the handlers   *)
(* and the loops of the connections, and through restarts.                  *)
THEOREM PeersTyped == PeersSpec => []PeersTypeOK
<1>1. PeersIInv => PeersTypeOK
  <2> SUFFICES ASSUME PeersIInv PROVE PeersTypeOK
    OBVIOUS
  <2>1. inPeers \subseteq Handlers
    BY DEF PeersIInv, InboundOK
  <2>2. \A n \in Outbound :
          \/ conn[n] = NotMade
          \/ /\ conn[n].addr \in Addresses
             /\ conn[n].reader \in {"run", "closing", "gone"}
             /\ conn[n].writer \in {"run", "refresh", "gone"}
    BY ConnShape DEF PeersIInv
  <2> QED
    BY <2>1, <2>2 DEF PeersIInv, PeersTypeOK, StoreOK, ConnOK, InboundOK
<1> QED
  BY <1>1, PeersIInvAlways, PTL

(* No address of the store loses its row a, by which Get finds it: though   *)
(* every operation reads and writes without a lock, the main loop deletes   *)
(* and moves rows only of addresses it is not connected to, and the writer  *)
(* loops write only rows of addresses they are connected to.                *)
THEOREM PeersListed == PeersSpec => []EveryPeerIsListed
<1>1. PeersIInv => EveryPeerIsListed
  BY DEF PeersIInv
<1> QED
  BY <1>1, PeersIInvAlways, PTL

(* The store's marks are the connections whose writer loop is running: no   *)
(* address is left marked, which would hide it from Get for good.           *)
THEOREM MarksAreConnections == PeersSpec => []MarkedIsConnected
<1>1. PeersIInv => MarkedIsConnected
  BY DEF PeersIInv
<1> QED
  BY <1>1, PeersIInvAlways, PTL

(* connectToPeers never makes a second connection to an address, though the *)
(* reader loop leaves the outbound set before the writer loop is over: Get  *)
(* withholds an address as long as it is marked.                            *)
THEOREM NoSecondConnection == PeersSpec => []OneConnectionEach
<1>1. PeersIInv => OneConnectionEach
  BY DEF PeersIInv
<1> QED
  BY <1>1, PeersIInvAlways, PTL

(* Shutdown ends the reader loop of every outbound peer: it copies the set  *)
(* after the main loop, the only one that adds to it, is over, and who is   *)
(* not in the set any more has no reader loop.                              *)
THEOREM ShutdownLeavesNoReader == PeersSpec => []OutboundReadersStopped
<1>1. PeersIInv => OutboundReadersStopped
  <2> SUFFICES ASSUME PeersIInv, shutdown = "done", NEW n \in Outbound
               PROVE  conn[n].reader \in {"none", "gone"}
    BY DEF OutboundReadersStopped
  <2>1. n \notin Peering
    BY DEF PeersIInv, StopOK
  <2> QED
    BY <2>1, ConnShape DEF PeersIInv, Peering
<1> QED
  BY <1>1, PeersIInvAlways, PTL
=============================================================================
