---------------------------- MODULE PeerManager ----------------------------
(***************************************************************************)
(* The peer manager over the peer storage: its main loop, which learns     *)
(* addresses and connects out to them, the goroutines of the HTTP server,  *)
(* which accept connections, and the two loops of every connection as far  *)
(* as they use the store and the manager's sets of peers.                  *)
(*                                                                         *)
(* Addresses are resolved and valid.  The node is in public reach; neither *)
(* the search for its own address nor the -peer option is modelled.        *)
(***************************************************************************)
EXTENDS PeerStorage

LOCAL INSTANCE SequencesExt

CONSTANTS
    Main,                   \* the goroutine of run()
    Handlers,               \* inbound connections, each with a remote address
    Outbound,               \* outbound connections, used again when over
    Nobody,
    Host(_),                \* of an address, and of an inbound connection
    Advertised(_),          \* the address in an inbound connection's header, or Nobody
    Banned,                 \* hosts in the ban map
    MAX_OUTBOUND_PEER_CONNECTIONS,
    MAX_INBOUND_PEER_CONNECTIONS_FROM_SAME_HOST,
    inboundLimit,
    MAX_TIP_AGE             \* 3 days

ASSUME PeerManagerAssumption ==
    /\ Goroutines = {Main} \cup Handlers \cup Outbound
    /\ Main \notin Handlers \cup Outbound /\ Handlers \cap Outbound = {}
    /\ \A h \in Handlers : Advertised(h) \in Addresses \cup {Nobody}
    /\ Nobody \notin Addresses
    /\ {MAX_OUTBOUND_PEER_CONNECTIONS, inboundLimit,
        MAX_INBOUND_PEER_CONNECTIONS_FROM_SAME_HOST, MAX_TIP_AGE} \subseteq Nat \ {0}

VARIABLES
    main,               \* where run() is, with the addresses it tries
    outPeers, inPeers, inPeerCountByHost,
    conn,               \* outbound connection -> its address and its two loops
    handler,            \* inbound connection -> where it is
    accepting, ibd,
    shutdown,           \* Shutdown(): "no", "waiting", "closing" or "done"
    leaving             \* the connections it closes

managerVars == <<outPeers, inPeers, inPeerCountByHost, accepting, ibd>>
stopVars == <<shutdown, leaving>>
vars == <<now, storeVars, main, managerVars, conn, handler, stopVars>>

NotMade == [addr |-> Nobody, reader |-> "none", writer |-> "none"]

(* The connections in the outbound set. *)
Peering == {n \in Outbound : conn[n].reader \in {"run", "closing"}}

Hosts == {Host(h) : h \in Handlers}

CountOf(host) ==
    IF host \in DOMAIN inPeerCountByHost THEN inPeerCountByHost[host] ELSE 0

-----------------------------------------------------------------------------
(* The main loop *)

At(where) == main.at = where
Go(where) == main' = [main EXCEPT !.at = where]

(* An address from a peer, a seed or the channel: stored unless banned.     *)
TakeAddress(a) ==
    /\ At("select")
    /\ Host(a) \notin Banned
    /\ Begin(Main, "Store", a)
    /\ Go("store")
    /\ UNCHANGED <<now, rowVars, connectedPeers, managerVars, conn, handler, stopVars>>

(* Only a new one is a reason to connect. *)
Stored ==
    /\ At("store")
    /\ Go(IF Found(Main) THEN "select" ELSE "want")
    /\ Finish(Main)
    /\ UNCHANGED <<now, managerVars, conn, handler, stopVars>>

(* The ticker: time to accept connections if the download is over, and one  *)
(* to connect.  A seeder may drop a peer first, when it has enough.         *)
Tick ==
    /\ At("select")
    /\ accepting' = (accepting \/ ~ibd)
    /\ \/ main' = [main EXCEPT !.at = "want"]
       \/ /\ Cardinality(outPeers) >= MAX_OUTBOUND_PEER_CONNECTIONS
          /\ \E n \in Outbound :
                /\ n \in Peering
                /\ main' = [main EXCEPT !.at = "drop", !.addr = n]
    /\ UNCHANGED <<now, storeVars, outPeers, inPeers, inPeerCountByHost, ibd,
                   conn, handler, stopVars>>

(* dropRandomPeer returns when both loops of the connection are over. *)
Dropped ==
    /\ At("drop")
    /\ conn[main.addr] = NotMade
    /\ main' = [main EXCEPT !.at = "want", !.addr = Nobody]
    /\ UNCHANGED <<now, storeVars, managerVars, conn, handler, stopVars>>

Return == [at |-> "select", addr |-> Nobody, todo |-> <<>>, tried |-> {}]

(* One connection is enough while the client downloads the point.  (The    *)
(* code asks once for all rounds of the loop, here every round asks.)       *)
Want == IF ibd THEN 1 ELSE MAX_OUTBOUND_PEER_CONNECTIONS

(* connectToPeers, the head of its loop. *)
ConnectToPeers ==
    /\ At("want")
    /\ LET need == Want - Cardinality(outPeers)
       IN  IF need <= 0
             THEN main' = Return
             ELSE \/ /\ Panics(need)
                     /\ main' = [Return EXCEPT !.at = "panicked"]
                  \/ \E n \in 0 .. need : \E addrs \in [1 .. n -> Addresses] :
                        /\ Gets(addrs, need)
                        /\ main' = IF addrs = <<>> THEN Return
                                   ELSE [main EXCEPT !.at = "try", !.todo = addrs]
    /\ UNCHANGED <<now, storeVars, managerVars, conn, handler, stopVars>>

Rest == [main EXCEPT !.at = IF Len(main.todo) = 1 THEN "want" ELSE "try",
                     !.addr = Nobody,
                     !.todo = Tail(@),
                     !.tried = @ \cup {Head(main.todo)}]

(* The next address: the loop ends at one it has tried, a banned one is     *)
(* removed from the store, and the others get a place in the outbound set   *)
(* if there is one, before they are called.                                 *)
Try ==
    /\ At("try")
    /\ LET a == Head(main.todo)
       IN  \/ /\ a \in main.tried
              /\ main' = Return
              /\ UNCHANGED <<operation, outPeers>>
           \/ /\ a \notin main.tried /\ Host(a) \in Banned
              /\ Begin(Main, "Delete", a)
              /\ Go("delete")
              /\ UNCHANGED outPeers
           \/ /\ a \notin main.tried /\ Host(a) \notin Banned
              /\ Cardinality(outPeers) = MAX_OUTBOUND_PEER_CONNECTIONS \/ a \in outPeers
              /\ main' = IF shutdown = "no" THEN Rest ELSE Return
              /\ UNCHANGED <<operation, outPeers>>
           \/ /\ a \notin main.tried /\ Host(a) \notin Banned
              /\ Cardinality(outPeers) # MAX_OUTBOUND_PEER_CONNECTIONS /\ a \notin outPeers
              /\ outPeers' = outPeers \cup {a}
              /\ Begin(Main, "Attempt", a)
              /\ main' = [main EXCEPT !.at = "attempt", !.addr = a]
    /\ UNCHANGED <<now, rowVars, connectedPeers, inPeers, inPeerCountByHost, accepting,
                   ibd, conn, handler, stopVars>>

Deleted ==
    /\ At("delete")
    /\ Finish(Main)
    /\ main' = Rest
    /\ UNCHANGED <<now, managerVars, conn, handler, stopVars>>

(* connect returns with an error: the address leaves the outbound set, and  *)
(* the loop goes on unless the manager is shutting down.                    *)
Failed ==
    /\ outPeers' = outPeers \ {main.addr}
    /\ main' = IF shutdown = "no" THEN Rest ELSE Return

Attempted ==
    /\ At("attempt")
    /\ Finish(Main)
    /\ IF Found(Main) THEN Go("dial") /\ UNCHANGED outPeers ELSE Failed
    /\ UNCHANGED <<now, inPeers, inPeerCountByHost, accepting, ibd, conn, handler, stopVars>>

(* The handshake succeeds, the other end answers that it is connected to us *)
(* already, or the call fails: at the latest when its context is cancelled. *)
Dial ==
    /\ At("dial")
    /\ \/ /\ \E n \in Outbound : conn[n] = NotMade
          /\ Begin(Main, "Success", main.addr) /\ Go("success")
       \/ Begin(Main, "Success", main.addr) /\ Go("already")
       \/ Begin(Main, "Failure", main.addr) /\ Go("failure")
    /\ UNCHANGED <<now, rowVars, connectedPeers, managerVars, conn, handler, stopVars>>

(* The rows are written first and the address is marked after that; in      *)
(* between nobody else reads this mark or takes it back: Get is called by   *)
(* the main loop, and so is OnDisconnect of an address without a writer     *)
(* loop.                                                                    *)
Succeeded ==
    /\ At("success")
    /\ Finish(Main)
    /\ IF Found(Main)
         THEN /\ conn' = [conn EXCEPT ![CHOOSE n \in Outbound : conn[n] = NotMade] =
                            [addr |-> main.addr, reader |-> "run", writer |-> "run"]]
              /\ main' = Rest
              /\ UNCHANGED outPeers
         ELSE Failed /\ UNCHANGED conn
    /\ UNCHANGED <<now, inPeers, inPeerCountByHost, accepting, ibd, handler, stopVars>>

(* Mutant: leaves the mark of OnConnectSuccess.                             *)
Unmarked_Never ==
    /\ At("marked")
    /\ UNCHANGED storeVars
    /\ Failed
    /\ UNCHANGED <<now, inPeers, inPeerCountByHost, accepting, ibd, conn, handler, stopVars>>

AlreadyConnected ==
    /\ At("already")
    /\ Finish(Main)
    /\ Go("marked")
    /\ UNCHANGED <<now, managerVars, conn, handler, stopVars>>

Unmarked ==
    /\ At("marked")
    /\ OnDisconnect(main.addr)
    /\ Failed
    /\ UNCHANGED <<now, inPeers, inPeerCountByHost, accepting, ibd, conn, handler, stopVars>>

Refused ==
    /\ At("failure")
    /\ Finish(Main)
    /\ Failed
    /\ UNCHANGED <<now, inPeers, inPeerCountByHost, accepting, ibd, conn, handler, stopVars>>

(* The shutdown channel is closed: the HTTP server stops, which waits for   *)
(* the requests that are not connections of their own yet.                  *)
StopServer ==
    /\ At("select")
    /\ shutdown # "no"
    /\ Go("server")
    /\ UNCHANGED <<now, storeVars, managerVars, conn, handler, stopVars>>

(* Mutant: waits for the connections as well.                               *)
EndMain_Connected ==
    /\ At("server")
    /\ \A h \in Handlers : handler[h] = "out"
    /\ Go("ended")
    /\ UNCHANGED <<now, storeVars, managerVars, conn, handler, stopVars>>

EndMain ==
    /\ At("server")
    /\ \A h \in Handlers : handler[h] \notin {"limit", "store", "upgrade"}
    /\ Go("ended")
    /\ UNCHANGED <<now, storeVars, managerVars, conn, handler, stopVars>>

MainStep ==
    \/ \E a \in Addresses : TakeAddress(a)
    \/ Stored \/ Tick \/ Dropped \/ ConnectToPeers \/ Try \/ Deleted \/ Attempted \/ Dial
    \/ Succeeded \/ AlreadyConnected \/ Unmarked \/ Refused \/ StopServer \/ EndMain

-----------------------------------------------------------------------------
(* The two loops of an outbound connection *)

(* A loop is over; with the second one the connection is. *)
Over(n, loop) ==
    conn' = [conn EXCEPT ![n] =
                IF loop = "reader" THEN IF @.writer = "gone" THEN NotMade
                                                            ELSE [@ EXCEPT !.reader = "gone"]
                                   ELSE IF @.reader = "gone" THEN NotMade
                                                            ELSE [@ EXCEPT !.writer = "gone"]]

(* The reader loop ends for any reason, or is made to. *)
ReaderCloses(n) ==
    /\ conn[n].reader = "run"
    /\ conn' = [conn EXCEPT ![n].reader = "closing"]
    /\ UNCHANGED <<now, storeVars, main, managerVars, handler, stopVars>>

(* The close handler. *)
ReaderEnds(n) ==
    /\ conn[n].reader = "closing"
    /\ outPeers' = outPeers \ {conn[n].addr}
    /\ Over(n, "reader")
    /\ UNCHANGED <<now, storeVars, main, inPeers, inPeerCountByHost, accepting, ibd,
                   handler, stopVars>>

(* The writer loop tells the store now and then that the peer is connected. *)
Refresh(n) ==
    /\ conn[n].writer = "run"
    /\ conn' = [conn EXCEPT ![n].writer = "refresh"]
    /\ Begin(n, "Success", conn[n].addr)
    /\ UNCHANGED <<now, rowVars, connectedPeers, main, managerVars, handler, stopVars>>

Refreshed(n) ==
    /\ conn[n].writer = "refresh"
    /\ Finish(n)
    /\ conn' = [conn EXCEPT ![n].writer = "run"]
    /\ UNCHANGED <<now, main, managerVars, handler, stopVars>>

(* It ends when the reader loop has closed outChan. *)
WriterEnds(n) ==
    /\ conn[n].writer = "run" /\ conn[n].reader # "run"
    /\ OnDisconnect(conn[n].addr)
    /\ Over(n, "writer")
    /\ UNCHANGED <<now, main, managerVars, handler, stopVars>>

-----------------------------------------------------------------------------
(* Inbound connections: peerHandler *)

To(h, where) == handler' = [handler EXCEPT ![h] = where]

(* Refused for a banned host and one with too many connections. *)
Request(h) ==
    /\ handler[h] = "out"
    /\ accepting /\ main.at \notin {"server", "ended"}
    /\ Host(h) \notin Banned
    /\ CountOf(Host(h)) < MAX_INBOUND_PEER_CONNECTIONS_FROM_SAME_HOST
    /\ To(h, "limit")
    /\ UNCHANGED <<now, storeVars, main, managerVars, conn, stopVars>>

(* An address we are connected to refuses the connection; another is        *)
(* stored.                                                                  *)
Advertise(h) ==
    /\ handler[h] = "limit"
    /\ \/ Advertised(h) = Nobody /\ To(h, "upgrade") /\ UNCHANGED operation
       \/ Advertised(h) \in outPeers /\ To(h, "out") /\ UNCHANGED operation
       \/ /\ Advertised(h) \in Addresses \ outPeers
          /\ Begin(h, "Store", Advertised(h))
          /\ To(h, "store")
    /\ UNCHANGED <<now, rowVars, connectedPeers, main, managerVars, conn, stopVars>>

Save(h) ==
    /\ handler[h] = "store"
    /\ Finish(h)
    /\ To(h, "upgrade")
    /\ UNCHANGED <<now, main, managerVars, conn, stopVars>>

(* The connection leaves the HTTP server, or cannot be upgraded. *)
Upgrade(h) ==
    /\ handler[h] = "upgrade"
    /\ To(h, "upgraded") \/ To(h, "out")
    /\ UNCHANGED <<now, storeVars, main, managerVars, conn, stopVars>>

AddToInboundSet(h) ==
    /\ handler[h] = "upgraded"
    /\ IF Cardinality(inPeers) = inboundLimit
         THEN To(h, "out") /\ UNCHANGED <<inPeers, inPeerCountByHost>>
         ELSE /\ inPeers' = inPeers \cup {h}
              /\ inPeerCountByHost' =
                    [g \in DOMAIN inPeerCountByHost \cup {Host(h)} |->
                        IF g = Host(h) THEN CountOf(g) + 1 ELSE inPeerCountByHost[g]]
              /\ To(h, "connected")
    /\ UNCHANGED <<now, storeVars, main, outPeers, accepting, ibd, conn, stopVars>>

(* The reader loop of an inbound connection ends. *)
RemoveFromInboundSet(h) ==
    /\ handler[h] = "connected"
    /\ inPeers' = inPeers \ {h}
    /\ inPeerCountByHost' =
          [g \in {f \in DOMAIN inPeerCountByHost : f = Host(h) => CountOf(f) > 1} |->
              IF g = Host(h) THEN CountOf(g) - 1 ELSE CountOf(g)]
    /\ To(h, "out")
    /\ UNCHANGED <<now, storeVars, main, outPeers, accepting, ibd, conn, stopVars>>

-----------------------------------------------------------------------------
(* Shutdown, and the point *)

Shutdown ==
    /\ shutdown = "no"
    /\ shutdown' = "waiting"
    /\ UNCHANGED <<now, storeVars, main, managerVars, conn, handler, leaving>>

(* Mutant: does not wait for the main loop.                                 *)
Snapshot_AtOnce ==
    /\ shutdown = "waiting"
    /\ shutdown' = "closing"
    /\ leaving' = Peering \cup inPeers
    /\ UNCHANGED <<now, storeVars, main, managerVars, conn, handler>>

(* When the main loop is over, the peers in the two sets are closed. *)
Snapshot ==
    /\ shutdown = "waiting"
    /\ At("ended")
    /\ shutdown' = "closing"
    /\ leaving' = Peering \cup inPeers
    /\ UNCHANGED <<now, storeVars, main, managerVars, conn, handler>>

(* Both loops of each of them are over. *)
Closed ==
    /\ shutdown = "closing"
    /\ \A n \in leaving \cap Outbound : conn[n] = NotMade
    /\ \A h \in leaving \cap Handlers : handler[h] # "connected"
    /\ shutdown' = "done"
    /\ UNCHANGED <<now, storeVars, main, managerVars, conn, handler, leaving>>

(* The tip becomes recent. *)
Synced ==
    /\ ibd
    /\ ibd' = FALSE
    /\ UNCHANGED <<now, storeVars, main, outPeers, inPeers, inPeerCountByHost, accepting,
                   conn, handler, stopVars>>

(* Time passes between the rounds of the main loop: an operation of the     *)
(* store takes none.  A tip of more than three days is old again.           *)
Clock ==
    /\ At("select")
    /\ operation = [who \in Goroutines |-> NoOperation]
    /\ Elapse
    /\ ibd' \in {ibd, now' - now > MAX_TIP_AGE}
    /\ ibd => ibd'
    /\ UNCHANGED <<main, outPeers, inPeers, inPeerCountByHost, accepting, conn, handler,
                   stopVars>>

PeersInit ==
    /\ StorageInit
    /\ main = Return
    /\ outPeers = {} /\ inPeers = {} /\ inPeerCountByHost = <<>>
    /\ conn = [n \in Outbound |-> NotMade]
    /\ handler = [h \in Handlers |-> "out"]
    /\ accepting = FALSE /\ ibd = TRUE
    /\ shutdown = "no" /\ leaving = {}

(* The process is started again after its end, or after a panic: the rows   *)
(* are as they were.                                                        *)
Restart ==
    /\ shutdown = "done" \/ At("panicked")
    /\ main' = Return
    /\ outPeers' = {} /\ inPeers' = {} /\ inPeerCountByHost' = <<>>
    /\ connectedPeers' = {}
    /\ operation' = [who \in Goroutines |-> NoOperation]
    /\ conn' = [n \in Outbound |-> NotMade]
    /\ handler' = [h \in Handlers |-> "out"]
    /\ accepting' = FALSE
    /\ shutdown' = "no" /\ leaving' = {}
    /\ UNCHANGED <<now, rowVars, ibd>>

ConnStep(n) ==
    ReaderCloses(n) \/ ReaderEnds(n) \/ Refresh(n) \/ Refreshed(n) \/ WriterEnds(n)

HandlerStep(h) ==
    \/ Request(h) \/ Advertise(h) \/ Save(h) \/ Upgrade(h) \/ AddToInboundSet(h)
    \/ RemoveFromInboundSet(h)

Running ==
    \/ MainStep
    \/ \E n \in Outbound : ConnStep(n)
    \/ \E h \in Handlers : HandlerStep(h)
    \/ Shutdown \/ Snapshot \/ Closed \/ Synced \/ Clock

PeersNext == (~At("panicked") /\ Running) \/ Restart

(* What goes on by itself: the operations of the main loop, the dial, which *)
(* has a deadline, and Shutdown; a request, and the loops of a connection   *)
(* that is closed.                                                          *)
MainGoesOn ==
    \/ Stored \/ Dropped \/ ConnectToPeers \/ Try \/ Deleted \/ Attempted \/ Dial
    \/ Succeeded \/ AlreadyConnected \/ Unmarked \/ Refused \/ EndMain
    \/ Snapshot \/ Closed

ReaderGoesOn(n) ==
    \/ ReaderEnds(n)
    \/ n \in leaving \cup {main.addr} /\ ReaderCloses(n)

HandlerGoesOn(h) ==
    \/ Advertise(h) \/ Save(h) \/ Upgrade(h) \/ AddToInboundSet(h)
    \/ h \in leaving /\ RemoveFromInboundSet(h)

(* Strong where Go's select, which takes every ready case in the end, has   *)
(* other cases: the main loop's, and the writer loop's refresh.             *)
Fairness ==
    /\ WF_vars(MainGoesOn)
    /\ SF_vars(StopServer)
    /\ \A n \in Outbound :
          WF_vars(ReaderGoesOn(n)) /\ WF_vars(Refreshed(n)) /\ SF_vars(WriterEnds(n))
    /\ \A h \in Handlers : WF_vars(HandlerGoesOn(h))

PeersSpec == PeersInit /\ [][PeersNext]_vars /\ Fairness

-----------------------------------------------------------------------------
(* Properties *)

Rows == [FirstSeen : Nat, LastAttempt : Nat, LastSuccess : Nat]

Operations ==
    [op : {"Store", "Attempt", "Success", "Failure", "Delete"}, addr : Addresses,
     info : Rows \cup {NoRow}]

(* The tables, sets and loops are of their types, the sets of peers are     *)
(* within their limits and counted by host: peer_manager.go checks and      *)
(* changes them under their locks.                                          *)
PeersTypeOK ==
    /\ peerInfo \in [Addresses -> Rows \cup {NoRow}]
    /\ lastAttempts \subseteq Nat \X Addresses
    /\ lastSuccesses \subseteq Nat \X Addresses
    /\ connectedPeers \subseteq Addresses
    /\ \A who \in Goroutines : operation[who] \in Operations \cup {NoOperation}
    /\ outPeers \subseteq Addresses
    /\ Cardinality(outPeers) <= MAX_OUTBOUND_PEER_CONNECTIONS
    /\ inPeers \subseteq Handlers
    /\ Cardinality(inPeers) <= inboundLimit
    /\ \A host \in Hosts :
          CountOf(host) = Cardinality({h \in inPeers : Host(h) = host})
    /\ \A n \in Outbound :
          \/ conn[n] = NotMade
          \/ /\ conn[n].addr \in Addresses
             /\ conn[n].reader \in {"run", "closing", "gone"}
             /\ conn[n].writer \in {"run", "refresh", "gone"}

(* peer_storage_disk.go finds the peers to try by their rows a, which every *)
(* operation moves: no address in the store is lost to Get, whatever two    *)
(* goroutines do to its rows at once.                                       *)
EveryPeerIsListed ==
    \A a \in Addresses :
        peerInfo[a] # NoRow => <<peerInfo[a].LastAttempt, a>> \in lastAttempts

(* connectedPeers is kept by the writer loops and by connect, the outbound  *)
(* set by the reader loops: an address is marked as connected exactly while *)
(* a connection to it has a writer loop.  A mark that stayed would take the *)
(* address out of Get for good.                                             *)
MarkedIsConnected ==
    connectedPeers \ (IF At("marked") THEN {main.addr} ELSE {})
      = {conn[n].addr : n \in {m \in Outbound : conn[m].writer \in {"run", "refresh"}}}

(* The reader loop leaves the outbound set while the writer loop still has  *)
(* the mark to take back: no address is connected to again before both.     *)
OneConnectionEach ==
    \A m, n \in Outbound : m # n /\ conn[m].addr = conn[n].addr => conn[m] = NotMade

(* Shutdown of the manager leaves no reader loop of an outbound peer, so    *)
(* that no message of one is handled when client/main.go ends the processor *)
(* and closes the stores.  The writer loop may still be running: see        *)
(* OutboundIsOver.                                                          *)
OutboundReadersStopped ==
    shutdown = "done" => \A n \in Outbound : conn[n].reader \in {"none", "gone"}

(* "Shutdown stops the peer manager synchronously" (peer_manager.go:259): no*)
(* outbound connection is left, and none of its loops uses a store that is  *)
(* closed next.  This is false in the code: a reader loop that ends before  *)
(* Shutdown takes its peer out of the set, and nobody waits for the writer. *)
OutboundIsOver == shutdown = "done" => \A n \in Outbound : conn[n] = NotMade

(* "shutdown all connected peers" (peer_manager.go:269).  This is false in  *)
(* the code: the HTTP server does not wait for a connection that has been   *)
(* upgraded, whose handler may still be about to add it to the set.         *)
InboundIsOver == shutdown = "done" => \A h \in Handlers : handler[h] # "connected"

(* Shutdown returns: the main loop comes back from whatever it was doing,   *)
(* the HTTP server waits for no connection, and every peer in the two sets  *)
(* is still there to be closed or has been.                                 *)
ShutdownEnds == shutdown = "waiting" ~> shutdown = "done" \/ At("panicked")

(* peer_storage_disk.go:350 "a{time}{addr} -> 1 (time is of last attempt)": *)
(* Get takes it that the address of a row a has a row p.                    *)
GetFindsTheRow == ~At("panicked")
=============================================================================
