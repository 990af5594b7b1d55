---------------------------- MODULE NotifyProofs ----------------------------
(***************************************************************************)
(* Proofs about the channels between the processor and its subscribers,    *)
(* for any number of them and any capacities.                              *)
(***************************************************************************)
EXTENDS Notify, FunctionTheorems, FiniteSetTheorems, TLAPS

(* The channels of the processor's callers, and who calls. *)
Kinds == {"count", "cn"}
Loops == {"subscriber", "reader"}

-----------------------------------------------------------------------------
(* The inductive invariant *)

(* Where each goroutine may be; the indexer listens to tips only. *)
GoroutinesOK ==
    /\ phase \in [Subscribers ->
          {"absent", "syncing", "register tip", "register tx", "loop", "sending",
           "calling", "unregister tx", "unregister tip", "gone"}]
    /\ reader \in [Peers -> {"absent", "reading", "calling", "closed"}]
    /\ phase[Indexer] \notin {"register tx", "unregister tx"}
    /\ closing \subseteq Subscribers
    /\ manager \in {"running", "stopping", "done"}

(* No buffered channel holds more than its capacity. *)
ChannelsOK ==
    /\ channel \in [Topics -> [Subscribers -> Nat]]
    /\ \A topic \in Topics, s \in Subscribers : channel[topic][s] <= Capacity(topic, s)

(* Who is registered has not left yet: the end of the registration for tips *)
(* is the last thing a subscriber does.                                     *)
RegisteredOK ==
    /\ registered \in [Topics -> SUBSET Subscribers]
    /\ \A s \in registered["tip"] :
          phase[s] \in {"register tx", "loop", "sending", "calling", "unregister tx",
                        "unregister tip"}
    /\ \A s \in registered["tx"] :
          s # Indexer /\ phase[s] \in {"loop", "sending", "calling", "unregister tx"}

(* Whom the processor still sends to is registered: nobody registers or     *)
(* unregisters while it is busy.                                            *)
WorkOK ==
    /\ work \in [state : {"idle", "busy", "stopped"},
                 caller : {<<>>} \cup (Subscribers \X Loops),
                 topic : Topics, left : Nat, waiting : SUBSET Subscribers,
                 target : Subscribers \cup {Nobody}]
    /\ work.state # "busy" => work \in {Idle, Stopped}
    /\ work.state = "busy" => work.caller \in Subscribers \X Loops
    /\ work.waiting \subseteq registered[work.topic]
    /\ work.target \in registered[work.topic] \cup {Nobody}

(* Callers wait in their channel. *)
CallsOK == calls \in [Kinds -> Seq(Subscribers \X Loops)]

(* The inductive invariant. *)
NotifyIInv == GoroutinesOK /\ ChannelsOK /\ RegisteredOK /\ WorkOK /\ CallsOK

-----------------------------------------------------------------------------
(* The invariant holds in every state *)

(* Who subscribes. *)
LEMMA Members == Indexer \in Subscribers /\ Peers \subseteq Subscribers
                 /\ Indexer \notin Peers /\ Nobody \notin Subscribers
BY NotifyAssumption DEF Subscribers

(* At the start nobody has registered. *)
LEMMA NotifyIInvInit == Init => NotifyIInv
BY NotifyAssumption
   DEF Init, NotifyIInv, GoroutinesOK, ChannelsOK, RegisteredOK, WorkOK, CallsOK, Idle,
       Topics, Kinds, Subscribers, Capacity, Loops

(* What the processor does next when it has to announce to `rest'. *)
LEMMA TurnsType ==
    ASSUME NEW w \in [state : {"busy"}, caller : Subscribers \X Loops, topic : Topics,
                      left : Nat, waiting : SUBSET Subscribers,
                      target : Subscribers \cup {Nobody}],
           NEW rest \in SUBSET Subscribers, NEW v \in Turns(w, rest)
    PROVE  /\ v \in [state : {"busy"}, caller : {w.caller}, topic : {w.topic},
                     left : {w.left}, waiting : SUBSET rest, target : rest \cup {Nobody}]
<1>1. CASE rest = {}
  BY <1>1 DEF Turns
<1>2. CASE rest # {}
  <2>1. PICK s \in rest : v = [w EXCEPT !.waiting = rest \ {s}, !.target = s]
    BY <1>2 DEF Turns
  <2> QED
    BY <2>1
<1> QED
  BY <1>1, <1>2

(* The processor goes on with what it is busy with. *)
LEMMA DeliverKeeps == NotifyIInv /\ Deliver => NotifyIInv'
<1> SUFFICES ASSUME NotifyIInv, Deliver PROVE NotifyIInv'
  OBVIOUS
<1> USE DEF NotifyIInv
<1>1. CASE Announce
  <2> DEFINE w == [work EXCEPT !.left = @ - 1]
  <2>1. /\ w \in [state : {"busy"}, caller : Subscribers \X Loops, topic : Topics,
                  left : Nat, waiting : SUBSET Subscribers,
                  target : Subscribers \cup {Nobody}]
        /\ w.topic = work.topic
    BY <1>1 DEF Announce, WorkOK
  <2>2. registered[work.topic] \in SUBSET Subscribers
    BY DEF RegisteredOK, WorkOK
  <2>3. work' \in Turns(w, registered[work.topic])
    BY <1>1 DEF Announce
  <2>4. work' \in [state : {"busy"}, caller : {w.caller}, topic : {w.topic}, left : {w.left},
                   waiting : SUBSET registered[work.topic],
                   target : registered[work.topic] \cup {Nobody}]
    BY <2>1, <2>2, <2>3, TurnsType
  <2> HIDE DEF w
  <2>5. WorkOK'
    BY <1>1, <2>1, <2>2, <2>4 DEF Announce, WorkOK
  <2> QED
    BY <1>1, <2>5 DEF Announce, GoroutinesOK, ChannelsOK, RegisteredOK, CallsOK
<1>2. CASE Send
  <2>1. work.state = "busy" /\ work.target \in Subscribers
    BY <1>2 DEF Send, WorkOK, Idle, Stopped
  <2>2. work \in [state : {"busy"}, caller : Subscribers \X Loops, topic : Topics,
                  left : Nat, waiting : SUBSET Subscribers,
                  target : Subscribers \cup {Nobody}]
    BY <2>1 DEF WorkOK
  <2>3. work' \in [state : {"busy"}, caller : {work.caller}, topic : {work.topic},
                   left : {work.left}, waiting : SUBSET work.waiting,
                   target : work.waiting \cup {Nobody}]
    BY <1>2, <2>2, TurnsType DEF Send
  <2>4. WorkOK'
    BY <1>2, <2>2, <2>3 DEF Send, WorkOK
  <2>5. ChannelsOK'
    BY <1>2, <2>1, NotifyAssumption DEF Send, ChannelsOK, WorkOK, Capacity, Topics
  <2> QED
    BY <1>2, <2>4, <2>5 DEF Send, GoroutinesOK, RegisteredOK, CallsOK
<1>3. CASE Answer
  <2>1. work.caller \in Subscribers \X Loops /\ work' = Idle
    BY <1>3 DEF Answer, WorkOK
  <2>2. WorkOK'
    BY <2>1, <1>3 DEF Answer, WorkOK, Idle, Topics
  <2>3. ChannelsOK' /\ CallsOK'
    BY <1>3 DEF Answer, ChannelsOK, CallsOK, Capacity
  <2>4. GoroutinesOK'
    <3>1. CASE phase' = [phase EXCEPT ![work.caller[1]] = "loop"] /\ UNCHANGED reader
      BY <1>3, <3>1, Members DEF Answer, GoroutinesOK
    <3>2. CASE reader' = [reader EXCEPT ![work.caller[1]] = "reading"] /\ UNCHANGED phase
      BY <1>3, <3>2 DEF Answer, GoroutinesOK
    <3> QED
      BY <1>3, <3>1, <3>2 DEF Answer
  <2>5. RegisteredOK'
    BY <1>3 DEF Answer, GoroutinesOK, RegisteredOK, Topics
  <2> QED
    BY <2>2, <2>3, <2>4, <2>5
<1> QED
  BY <1>1, <1>2, <1>3 DEF Deliver

(* It takes the next request, when it is idle. *)
LEMMA TakeKeeps == NotifyIInv /\ (TakeCount \/ TakeConsideration) => NotifyIInv'
<1> SUFFICES ASSUME NotifyIInv, TakeCount \/ TakeConsideration PROVE NotifyIInv'
  OBVIOUS
<1> USE DEF NotifyIInv
<1>1. PICK kind \in Kinds, n \in Nat, topic \in Topics :
          /\ work = Idle /\ calls[kind] # <<>>
          /\ work' = [state |-> "busy", caller |-> Head(calls[kind]), topic |-> topic,
                      left |-> n, waiting |-> {}, target |-> Nobody]
          /\ calls' = [calls EXCEPT ![kind] = Tail(@)]
  <2>1. CASE TakeCount
    <3>1. PICK n \in 0 .. MaxTips :
             work' = [Idle EXCEPT !.state = "busy", !.caller = Head(calls["count"]), !.left = n]
      BY <2>1 DEF TakeCount
    <3>2. n \in Nat
      BY NotifyAssumption
    <3>3. work' = [state |-> "busy", caller |-> Head(calls["count"]), topic |-> "tip",
                   left |-> n, waiting |-> {}, target |-> Nobody]
      BY <3>1 DEF Idle
    <3> QED
      BY <2>1, <3>2, <3>3 DEF TakeCount, Kinds, Topics
  <2>2. CASE TakeConsideration
    <3>1. PICK n \in {0, 1} :
             work' = [Idle EXCEPT !.state = "busy", !.caller = Head(calls["cn"]),
                                  !.topic = "tx", !.left = n]
      BY <2>2 DEF TakeConsideration
    <3>2. work' = [state |-> "busy", caller |-> Head(calls["cn"]), topic |-> "tx",
                   left |-> n, waiting |-> {}, target |-> Nobody]
      BY <3>1 DEF Idle
    <3> QED
      BY <2>2, <3>2 DEF TakeConsideration, Kinds, Topics
  <2> QED
    BY <2>1, <2>2
<1>2. Head(calls[kind]) \in Subscribers \X Loops /\ Tail(calls[kind]) \in Seq(Subscribers \X Loops)
  BY <1>1 DEF CallsOK
<1>3. CallsOK'
  BY <1>1, <1>2 DEF CallsOK
<1>4. WorkOK'
  <2>1. work' \in [state : {"busy"}, caller : Subscribers \X Loops, topic : Topics, left : Nat,
                   waiting : {{}}, target : {Nobody}]
    BY <1>1, <1>2 DEF Idle
  <2> QED
    BY <2>1 DEF WorkOK
<1>5. UNCHANGED <<phase, reader, channel, registered, closing, manager>>
  BY DEF TakeCount, TakeConsideration
<1> QED
  BY <1>3, <1>4, <1>5 DEF GoroutinesOK, ChannelsOK, RegisteredOK, Capacity

(* A step of a subscriber's goroutine. *)
LEMMA SubscriberKeeps ==
    ASSUME NotifyIInv, NEW s \in Subscribers,
           \/ Register(s) \/ Unregister(s) \/ Synced(s)
           \/ \E topic \in Topics : Receive(s, topic)
           \/ Submit(s) \/ Submitted(s) \/ Leave(s)
    PROVE  NotifyIInv'
<1> USE DEF NotifyIInv
<1>1. CASE Register(s)
  <2>1. GoroutinesOK'
    BY <1>1, Members DEF Register, GoroutinesOK
  <2>2. RegisteredOK'
    <3>1. CASE phase[s] = "register tip"
      <4>1. /\ registered' = [registered EXCEPT !["tip"] = registered["tip"] \cup {s}]
            /\ phase'[s] \in {"loop", "register tx"} /\ \A u \in Subscribers \ {s} : phase'[u] = phase[u]
        BY <1>1, <3>1, Members DEF Register, GoroutinesOK, RegisteredOK
      <4>2. /\ registered' \in [Topics -> SUBSET Subscribers]
            /\ registered["tip"] \subseteq Subscribers /\ registered["tx"] \subseteq Subscribers
            /\ registered'["tip"] = registered["tip"] \cup {s}
            /\ registered'["tx"] = registered["tx"]
        BY <4>1 DEF RegisteredOK, Topics
      <4> QED
        BY <3>1, <4>1, <4>2 DEF GoroutinesOK, RegisteredOK
    <3>2. CASE phase[s] = "register tx"
      <4>1. /\ registered' = [registered EXCEPT !["tx"] = registered["tx"] \cup {s}]
            /\ phase'[s] \in {"loop"} /\ \A u \in Subscribers \ {s} : phase'[u] = phase[u]
        BY <1>1, <3>2, Members DEF Register, GoroutinesOK, RegisteredOK
      <4>2. /\ registered' \in [Topics -> SUBSET Subscribers]
            /\ registered["tip"] \subseteq Subscribers /\ registered["tx"] \subseteq Subscribers
            /\ registered'["tx"] = registered["tx"] \cup {s}
            /\ registered'["tip"] = registered["tip"]
        BY <4>1 DEF RegisteredOK, Topics
      <4> QED
        BY <3>2, <4>1, <4>2 DEF GoroutinesOK, RegisteredOK
    <3> QED
      BY <1>1, <3>1, <3>2 DEF Register
  <2>3. WorkOK'
    BY <1>1, <2>2 DEF Register, WorkOK, Idle, RegisteredOK
  <2> QED
    BY <1>1, <2>1, <2>2, <2>3 DEF Register, ChannelsOK, CallsOK, Capacity
<1>2. CASE Unregister(s)
  <2>1. GoroutinesOK'
    BY <1>2, Members DEF Unregister, GoroutinesOK
  <2>2. RegisteredOK'
    <3>1. CASE phase[s] = "unregister tx"
      <4>1. /\ registered' = [registered EXCEPT !["tx"] = registered["tx"] \ {s}]
            /\ phase'[s] \in {"unregister tip"} /\ \A u \in Subscribers \ {s} : phase'[u] = phase[u]
        BY <1>2, <3>1, Members DEF Unregister, GoroutinesOK, RegisteredOK
      <4>2. /\ registered' \in [Topics -> SUBSET Subscribers]
            /\ registered["tip"] \subseteq Subscribers /\ registered["tx"] \subseteq Subscribers
            /\ registered'["tx"] = registered["tx"] \ {s}
            /\ registered'["tip"] = registered["tip"]
        BY <4>1 DEF RegisteredOK, Topics
      <4> QED
        BY <3>1, <4>1, <4>2 DEF GoroutinesOK, RegisteredOK
    <3>2. CASE phase[s] = "unregister tip"
      <4>1. /\ registered' = [registered EXCEPT !["tip"] = registered["tip"] \ {s}]
            /\ phase'[s] \in {"gone"} /\ \A u \in Subscribers \ {s} : phase'[u] = phase[u]
        BY <1>2, <3>2, Members DEF Unregister, GoroutinesOK, RegisteredOK
      <4>2. /\ registered' \in [Topics -> SUBSET Subscribers]
            /\ registered["tip"] \subseteq Subscribers /\ registered["tx"] \subseteq Subscribers
            /\ registered'["tip"] = registered["tip"] \ {s}
            /\ registered'["tx"] = registered["tx"]
        BY <4>1 DEF RegisteredOK, Topics
      <4> QED
        BY <3>2, <4>1, <4>2 DEF GoroutinesOK, RegisteredOK
    <3> QED
      BY <1>2, <3>1, <3>2 DEF Unregister
  <2>3. WorkOK'
    BY <1>2, <2>2 DEF Unregister, WorkOK, Idle, RegisteredOK
  <2> QED
    BY <1>2, <2>1, <2>2, <2>3 DEF Unregister, ChannelsOK, CallsOK, Capacity
<1>3. ASSUME NEW topic \in Topics, Receive(s, topic) PROVE NotifyIInv'
  <2>1. channel[topic][s] \in Nat /\ channel[topic][s] - 1 \in Nat
    BY <1>3 DEF Receive, ChannelsOK
  <2>2. channel' \in [Topics -> [Subscribers -> Nat]]
    BY <1>3, <2>1 DEF Receive, ChannelsOK
  <2>3. \A t \in Topics, u \in Subscribers : channel'[t][u] <= channel[t][u]
    BY <1>3, <2>1 DEF Receive, ChannelsOK
  <2>4. \A t \in Topics, u \in Subscribers : Capacity(t, u) \in Nat
    BY NotifyAssumption DEF Capacity
  <2>5. ChannelsOK'
    BY <2>2, <2>3, <2>4 DEF ChannelsOK, Capacity
  <2> QED
    BY <1>3, <2>5 DEF Receive, GoroutinesOK, RegisteredOK, WorkOK, CallsOK
<1>4. CASE Synced(s) \/ Submit(s) \/ Leave(s)
  <2>1. GoroutinesOK'
    BY <1>4, NotifyAssumption DEF Synced, Submit, Leave, GoroutinesOK, Subscribers
  <2>2. RegisteredOK'
    BY <1>4, NotifyAssumption DEF Synced, Submit, Leave, GoroutinesOK, RegisteredOK, Topics
  <2> QED
    BY <1>4, <2>1, <2>2 DEF Synced, Submit, Leave, ChannelsOK, WorkOK, CallsOK, Capacity
<1>5. CASE Submitted(s)
  <2>1. GoroutinesOK' /\ RegisteredOK'
    BY <1>5, Members DEF Submitted, GoroutinesOK, RegisteredOK, Topics
  <2>2. CallsOK'
    BY <1>5 DEF Submitted, CallsOK, Caller, Loops, Kinds
  <2> QED
    BY <1>5, <2>1, <2>2 DEF Submitted, ChannelsOK, WorkOK, Capacity
<1> QED
  BY <1>1, <1>2, <1>3, <1>4, <1>5

(* A step of a peer's reader loop. *)
LEMMA ReaderKeeps ==
    ASSUME NotifyIInv, NEW p \in Peers,
           ConnectPeer(p) \/ HangUp(p) \/ \E kind \in Kinds : Call(p, kind)
    PROVE  NotifyIInv'
<1> USE DEF NotifyIInv
<1>0. p \in Subscribers
  BY DEF Subscribers
<1>1. CASE ConnectPeer(p)
  <2>1. GoroutinesOK' /\ RegisteredOK'
    BY <1>0, <1>1, Members DEF ConnectPeer, GoroutinesOK, RegisteredOK, Topics
  <2> QED
    BY <1>1, <2>1 DEF ConnectPeer, ChannelsOK, WorkOK, CallsOK, Capacity
<1>2. CASE HangUp(p)
  BY <1>2 DEF HangUp, GoroutinesOK, RegisteredOK, ChannelsOK, WorkOK, CallsOK, Capacity
<1>3. ASSUME NEW kind \in Kinds, Call(p, kind) PROVE NotifyIInv'
  <2>1. GoroutinesOK' /\ RegisteredOK'
    BY <1>3 DEF Call, GoroutinesOK, RegisteredOK
  <2>2. CallsOK'
    BY <1>0, <1>3 DEF Call, CallsOK, Caller, Loops
  <2> QED
    BY <1>3, <2>1, <2>2 DEF Call, ChannelsOK, WorkOK, Capacity
<1> QED
  BY <1>1, <1>2, <1>3

(* The shutdown of the client, which asks one goroutine after the other to  *)
(* end.                                                                     *)
LEMMA ManagerKeeps == NotifyIInv /\ (Interrupt \/ ShutdownNext) => NotifyIInv'
<1> SUFFICES ASSUME NotifyIInv, Interrupt \/ ShutdownNext PROVE NotifyIInv'
  OBVIOUS
<1> USE DEF NotifyIInv
<1>1. UNCHANGED <<phase, reader, channel, registered, calls>>
  BY DEF Interrupt, ShutdownNext
<1>2. GoroutinesOK'
  BY <1>1 DEF Interrupt, ShutdownNext, GoroutinesOK
<1>3. work' \in {work, Stopped}
  BY DEF Interrupt, ShutdownNext
<1>4. WorkOK'
  <2>1. Stopped \in [state : {"stopped"}, caller : {<<>>}, topic : {"tip"}, left : {0},
                     waiting : {{}}, target : {Nobody}]
    BY DEF Stopped, Idle
  <2>2. CASE work' = Stopped
    BY <1>1, <2>1, <2>2 DEF WorkOK, Topics
  <2>3. CASE work' = work
    BY <1>1, <2>3 DEF WorkOK
  <2> QED
    BY <1>3, <2>2, <2>3
<1> QED
  BY <1>1, <1>2, <1>4 DEF ChannelsOK, RegisteredOK, CallsOK, Capacity

(* Every step keeps the invariant. *)
LEMMA NotifyIInvStep == NotifyIInv /\ [Next]_vars => NotifyIInv'
<1> SUFFICES ASSUME NotifyIInv, [Next]_vars PROVE NotifyIInv'
  OBVIOUS
<1>1. CASE UNCHANGED vars
  BY <1>1 DEF vars, NotifyIInv, GoroutinesOK, ChannelsOK, RegisteredOK, WorkOK, CallsOK, Capacity
<1> QED
  BY <1>1, TakeKeeps, DeliverKeeps, SubscriberKeeps, ReaderKeeps, ManagerKeeps DEF Next, Kinds

(* It holds in every state. *)
LEMMA NotifyIInvAlways == Spec => []NotifyIInv
BY NotifyIInvInit, NotifyIInvStep, PTL DEF Spec

(* processor.go sends within the processing of a count: its subscribers     *)
(* leave by the deferred UnregisterForNewConsiderations and                 *)
(* UnregisterForTipChange, so that no channel is filled beyond its capacity *)
(* and nothing is ever sent to a goroutine that has ended.                  *)
THEOREM SendsAreRead == Spec => []NotifyInv
<1>1. NotifyIInv => NotifyInv
  <2> SUFFICES ASSUME NotifyIInv PROVE NotifyInv
    OBVIOUS
  <2> USE DEF NotifyIInv
  <2>1. \A topic \in Topics, s \in Subscribers : Capacity(topic, s) \in Nat
    BY NotifyAssumption DEF Capacity
  <2>2. NotifyTypeOK
    <3>1. \A topic \in Topics, s \in Subscribers : channel[topic][s] \in 0 .. Capacity(topic, s)
      BY <2>1 DEF ChannelsOK
    <3>2. work.waiting \subseteq Subscribers
      BY DEF WorkOK
    <3>3. \A kind \in {"count", "cn"} :
             calls[kind] \in Seq(Subscribers \X {"subscriber", "reader"})
      BY DEF CallsOK, Kinds, Loops
    <3> QED
      BY <3>1, <3>2, <3>3 DEF NotifyTypeOK, GoroutinesOK, RegisteredOK
  <2>3. NoSendToTheGone
    <3>1. \A topic \in Topics : \A s \in registered[topic] : phase[s] # "gone"
      BY DEF RegisteredOK, Topics
    <3>2. work.topic \in Topics
      BY DEF WorkOK
    <3> QED
      BY <3>1, <3>2, Members DEF NoSendToTheGone, WorkOK
  <2> QED
    BY <2>2, <2>3 DEF NotifyInv
<1> QED
  BY <1>1, NotifyIInvAlways, PTL

-----------------------------------------------------------------------------
(* Requests and answers *)

(* Where a caller stands in a queue of callers. *)
Places(q, x) == {i \in DOMAIN q : q[i] = x}

(* Is this loop of the subscriber waiting for an answer? *)
Calling(s, loop) ==
    IF loop = "subscriber" THEN phase[s] = "calling" ELSE s \in Peers /\ reader[s] = "calling"

(* How often a caller asks: in the two channels, and with the processor. *)
Asked(x) ==
    Cardinality(Places(calls["count"], x)) + Cardinality(Places(calls["cn"], x))
      + (IF work.caller = x THEN 1 ELSE 0)

(* A loop that waits has asked once, one that does not has not. *)
AnswersFit ==
    /\ \A s \in Subscribers, loop \in Loops :
          Asked(<<s, loop>>) = (IF Calling(s, loop) THEN 1 ELSE 0)
    /\ \A p \in Peers : phase[p] = "absent" => reader[p] = "absent"

(* How many places a caller has in a queue. *)
LEMMA PlacesFinite ==
    ASSUME NEW S, NEW q \in Seq(S), NEW x
    PROVE  IsFiniteSet(Places(q, x)) /\ Cardinality(Places(q, x)) \in Nat
<1>1. IsFiniteSet(1 .. Len(q))
  BY FS_Interval
<1>2. Places(q, x) \in SUBSET (1 .. Len(q))
  BY DEF Places
<1> QED
  BY <1>1, <1>2, FS_Subset, FS_CardinalityType

(* Nobody stands in an empty queue. *)
LEMMA PlacesOfEmpty == \A x : Cardinality(Places(<<>>, x)) = 0
BY FS_EmptySet DEF Places

(* One more for the caller that is put at the end. *)
LEMMA PlacesOfAppend ==
    ASSUME NEW S, NEW q \in Seq(S), NEW y \in S, NEW x
    PROVE  Cardinality(Places(Append(q, y), x))
             = Cardinality(Places(q, x)) + (IF x = y THEN 1 ELSE 0)
<1> DEFINE end == Len(q) + 1
<1>1. /\ Append(q, y) \in Seq(S) /\ DOMAIN Append(q, y) = DOMAIN q \cup {end}
      /\ end \notin DOMAIN q /\ Append(q, y)[end] = y
      /\ \A i \in DOMAIN q : Append(q, y)[i] = q[i]
  OBVIOUS
<1>2. Places(Append(q, y), x) = Places(q, x) \cup (IF x = y THEN {end} ELSE {})
  BY <1>1 DEF Places
<1>3. end \notin Places(q, x)
  BY <1>1 DEF Places
<1>4. CASE x = y
  BY <1>2, <1>3, <1>4, PlacesFinite, FS_AddElement
<1>5. CASE x # y
  <2>1. Places(Append(q, y), x) = Places(q, x)
    BY <1>2, <1>5
  <2> QED
    BY <2>1, <1>5, PlacesFinite
<1> QED
  BY <1>4, <1>5

(* One less for the caller that is taken from its head. *)
LEMMA PlacesOfTail ==
    ASSUME NEW S, NEW q \in Seq(S), q # <<>>, NEW x
    PROVE  Cardinality(Places(Tail(q), x))
             = Cardinality(Places(q, x)) - (IF x = Head(q) THEN 1 ELSE 0)
<1> DEFINE rest == Places(q, x) \ {1}
           back == [i \in rest |-> i - 1]
<1>1. /\ Tail(q) \in Seq(S) /\ Head(q) = q[1] /\ 1 \in DOMAIN q
      /\ Len(Tail(q)) = Len(q) - 1
      /\ \A i \in 1 .. Len(q) - 1 : Tail(q)[i] = q[i + 1]
  OBVIOUS
<1>2. DOMAIN q = 1 .. Len(q) /\ DOMAIN Tail(q) = 1 .. Len(q) - 1 /\ Len(q) \in Nat
  BY <1>1
<1>3. back \in Bijection(rest, Places(Tail(q), x))
  <2>1. back \in [rest -> Places(Tail(q), x)]
    <3> SUFFICES ASSUME NEW i \in rest
                 PROVE  i - 1 \in Places(Tail(q), x)
      OBVIOUS
    <3>1. i \in 2 .. Len(q) /\ q[i] = x
      BY <1>2 DEF Places
    <3>2. i - 1 \in 1 .. Len(q) - 1 /\ Tail(q)[i - 1] = q[(i - 1) + 1]
      BY <1>1, <1>2, <3>1
    <3>3. (i - 1) + 1 = i
      BY <3>1
    <3> QED
      BY <1>2, <3>1, <3>2, <3>3 DEF Places
  <2>2. \A i, j \in rest : back[i] = back[j] => i = j
    BY <1>2 DEF Places
  <2>3. \A j \in Places(Tail(q), x) : \E i \in rest : back[i] = j
    <3> SUFFICES ASSUME NEW j \in Places(Tail(q), x)
                 PROVE  \E i \in rest : back[i] = j
      OBVIOUS
    <3>1. j \in 1 .. Len(q) - 1 /\ q[j + 1] = x
      BY <1>1, <1>2 DEF Places
    <3>2. j + 1 \in rest /\ (j + 1) - 1 = j
      BY <1>2, <3>1 DEF Places
    <3> QED
      BY <3>2
  <2> QED
    BY <2>1, <2>2, <2>3, Fun_IsBij
<1>4. IsFiniteSet(Places(q, x)) /\ IsFiniteSet(rest)
  BY PlacesFinite, FS_RemoveElement
<1>5. Cardinality(Places(Tail(q), x)) = Cardinality(rest)
  BY <1>3, <1>4, FS_Bijection DEF ExistsBijection
<1>6. 1 \in Places(q, x) <=> x = Head(q)
  BY <1>1 DEF Places
<1>7. Cardinality(rest) = IF 1 \in Places(q, x) THEN Cardinality(Places(q, x)) - 1
                                                 ELSE Cardinality(Places(q, x))
  BY <1>4, FS_RemoveElement
<1> QED
  BY <1>5, <1>6, <1>7, PlacesFinite

(* The numbers that are added up. *)
LEMMA AskedParts ==
    ASSUME CallsOK, NEW x
    PROVE  /\ Cardinality(Places(calls["count"], x)) \in Nat
           /\ Cardinality(Places(calls["cn"], x)) \in Nat
           /\ Asked(x) = 0 => work.caller # x
<1>1. calls["count"] \in Seq(Subscribers \X Loops) /\ calls["cn"] \in Seq(Subscribers \X Loops)
  BY DEF CallsOK, Kinds
<1>2. /\ Cardinality(Places(calls["count"], x)) \in Nat
      /\ Cardinality(Places(calls["cn"], x)) \in Nat
  BY <1>1, PlacesFinite
<1> QED
  BY <1>2 DEF Asked

(* At the start nobody has asked. *)
LEMMA AnswersFitInit == Init => AnswersFit
<1> SUFFICES ASSUME Init PROVE AnswersFit
  OBVIOUS
<1>1. ASSUME NEW s \in Subscribers, NEW loop \in Loops
      PROVE  Asked(<<s, loop>>) = 0
  <2>1. calls["count"] = <<>> /\ calls["cn"] = <<>> /\ work.caller = <<>>
    BY DEF Init, Idle
  <2>2. <<s, loop>> # <<>>
    OBVIOUS
  <2> QED
    BY <2>1, <2>2, PlacesOfEmpty DEF Asked
<1>2. \A s \in Subscribers, loop \in Loops : ~Calling(s, loop)
  BY DEF Init, Calling
<1> QED
  BY <1>1, <1>2 DEF AnswersFit, Init

(* A step that adds no request, takes none and answers none. *)
LEMMA NobodyAsks ==
    ASSUME AnswersFit, UNCHANGED calls, work'.caller = work.caller,
           \A s \in Subscribers : phase'[s] = "calling" <=> phase[s] = "calling",
           \A p \in Peers : reader'[p] = "calling" <=> reader[p] = "calling",
           \A p \in Peers : phase'[p] = "absent" => phase[p] = "absent" /\ reader'[p] = reader[p]
    PROVE  AnswersFit'
<1>1. \A x : Asked(x)' = Asked(x)
  BY DEF Asked
<1>2. \A s \in Subscribers, loop \in Loops : Calling(s, loop)' <=> Calling(s, loop)
  BY Members DEF Calling
<1> QED
  BY <1>1, <1>2 DEF AnswersFit

(* A caller that was not waiting sends its request and waits.               *)
LEMMA Asks ==
    ASSUME AnswersFit, CallsOK, UNCHANGED work, NEW kind \in Kinds,
           NEW s \in Subscribers, NEW loop \in Loops, ~Calling(s, loop),
           calls' = [calls EXCEPT ![kind] = Append(@, <<s, loop>>)],
           Calling(s, loop)',
           \A u \in Subscribers, l \in Loops :
              <<u, l>> # <<s, loop>> => (Calling(u, l)' <=> Calling(u, l)),
           \A p \in Peers : phase'[p] = "absent" => phase[p] = "absent" /\ reader'[p] = reader[p]
    PROVE  AnswersFit'
<1>1. ASSUME NEW x
      PROVE  Asked(x)' = Asked(x) + (IF x = <<s, loop>> THEN 1 ELSE 0)
  <2> DEFINE n(k) == Cardinality(Places(calls[k], x))
             m(k) == Cardinality(Places(calls'[k], x))
  <2>1. calls[kind] \in Seq(Subscribers \X Loops) /\ <<s, loop>> \in Subscribers \X Loops
    BY DEF CallsOK
  <2>2. m(kind) = n(kind) + (IF x = <<s, loop>> THEN 1 ELSE 0)
    <3>1. calls'[kind] = Append(calls[kind], <<s, loop>>)
      BY DEF CallsOK
    <3> QED
      BY <2>1, <3>1, PlacesOfAppend
  <2>3. \A k \in Kinds \ {kind} : m(k) = n(k)
    BY DEF CallsOK
  <2>4. n("count") \in Nat /\ n("cn") \in Nat
    BY AskedParts
  <2> HIDE DEF n, m
  <2>5. m("count") + m("cn") = n("count") + n("cn") + (IF x = <<s, loop>> THEN 1 ELSE 0)
    BY <2>2, <2>3, <2>4 DEF Kinds
  <2> QED
    BY <2>4, <2>5 DEF Asked, n, m
<1>2. ASSUME NEW u \in Subscribers, NEW l \in Loops
      PROVE  Asked(<<u, l>>)' = (IF Calling(u, l)' THEN 1 ELSE 0)
  <2>1. CASE <<u, l>> = <<s, loop>>
    <3>1. Asked(<<u, l>>) = 0 /\ u = s /\ l = loop
      BY <2>1 DEF AnswersFit
    <3> QED
      BY <1>1, <3>1
  <2>2. CASE <<u, l>> # <<s, loop>>
    <3>1. Asked(<<u, l>>) = (IF Calling(u, l) THEN 1 ELSE 0)
      BY DEF AnswersFit
    <3>2. Calling(u, l)' <=> Calling(u, l)
      BY <2>2
    <3> QED
      BY <1>1, <2>2, <3>1, <3>2
  <2> QED
    BY <2>1, <2>2
<1> QED
  BY <1>2 DEF AnswersFit

(* The processor takes a request: the caller is now with it. *)
LEMMA TakeFits ==
    ASSUME NotifyIInv, AnswersFit, TakeCount \/ TakeConsideration
    PROVE  AnswersFit'
<1> USE DEF NotifyIInv
<1>1. PICK kind \in Kinds :
          /\ calls[kind] # <<>> /\ work.caller = <<>>
          /\ work'.caller = Head(calls[kind])
          /\ calls' = [calls EXCEPT ![kind] = Tail(@)]
  <2>1. CASE TakeCount
    <3>1. /\ calls["count"] # <<>> /\ work.caller = <<>>
          /\ work'.caller = Head(calls["count"])
          /\ calls' = [calls EXCEPT !["count"] = Tail(@)]
      BY <2>1 DEF TakeCount, Idle
    <3> QED
      BY <3>1 DEF Kinds
  <2>2. CASE TakeConsideration
    <3>1. /\ calls["cn"] # <<>> /\ work.caller = <<>>
          /\ work'.caller = Head(calls["cn"])
          /\ calls' = [calls EXCEPT !["cn"] = Tail(@)]
      BY <2>2 DEF TakeConsideration, Idle
    <3> QED
      BY <3>1 DEF Kinds
  <2> QED
    BY <2>1, <2>2
<1>2. calls[kind] \in Seq(Subscribers \X Loops)
  BY DEF CallsOK
<1>3. ASSUME NEW u \in Subscribers, NEW l \in Loops
      PROVE  Asked(<<u, l>>)' = Asked(<<u, l>>)
  <2> DEFINE x == <<u, l>>
             n(k) == Cardinality(Places(calls[k], x))
             m(k) == Cardinality(Places(calls'[k], x))
  <2>1. m(kind) = n(kind) - (IF x = Head(calls[kind]) THEN 1 ELSE 0)
    BY <1>1, <1>2, PlacesOfTail DEF CallsOK
  <2>2. \A k \in Kinds \ {kind} : m(k) = n(k)
    BY <1>1 DEF CallsOK
  <2>3. n("count") \in Nat /\ n("cn") \in Nat
    BY AskedParts
  <2>4. work.caller # x
    BY <1>1
  <2>5. (IF work'.caller = x THEN 1 ELSE 0) = (IF x = Head(calls[kind]) THEN 1 ELSE 0)
    BY <1>1
  <2> HIDE DEF x, n, m
  <2>6. m("count") + m("cn") = n("count") + n("cn") - (IF x = Head(calls[kind]) THEN 1 ELSE 0)
    BY <2>1, <2>2, <2>3 DEF Kinds
  <2>7. m("count") + m("cn") + (IF work'.caller = x THEN 1 ELSE 0)
          = n("count") + n("cn") + (IF work.caller = x THEN 1 ELSE 0)
    BY <2>3, <2>4, <2>5, <2>6
  <2> QED
    BY <2>7 DEF Asked, n, m, x
<1>4. UNCHANGED <<phase, reader>>
  BY DEF TakeCount, TakeConsideration
<1>5. \A u \in Subscribers, l \in Loops : Calling(u, l)' <=> Calling(u, l)
  BY <1>4 DEF Calling
<1> QED
  BY <1>3, <1>4, <1>5 DEF AnswersFit

(* It answers: the caller was waiting, its request was the only one, and it *)
(* goes on.                                                                 *)
LEMMA AnswerFits ==
    ASSUME NotifyIInv, AnswersFit, Answer
    PROVE  AnswersFit'
<1> USE DEF NotifyIInv
<1>1. work.caller \in Subscribers \X Loops /\ work'.caller = <<>> /\ UNCHANGED calls
  BY DEF Answer, WorkOK, Idle
<1>2. PICK s \in Subscribers, loop \in Loops : work.caller = <<s, loop>>
  BY <1>1
<1>3. Calling(s, loop)
  BY <1>2, AskedParts DEF AnswersFit, Asked
<1>4. ASSUME NEW u \in Subscribers, NEW l \in Loops
      PROVE  Asked(<<u, l>>)' = Asked(<<u, l>>) - (IF <<u, l>> = <<s, loop>> THEN 1 ELSE 0)
  <2> DEFINE x == <<u, l>>
             n == Cardinality(Places(calls["count"], x)) + Cardinality(Places(calls["cn"], x))
  <2>1. n \in Nat
    BY AskedParts
  <2>2. Asked(x) = n + (IF x = <<s, loop>> THEN 1 ELSE 0)
    BY <1>2 DEF Asked
  <2>3. Asked(x)' = n
    <3>1. work'.caller # x
      BY <1>1
    <3> QED
      BY <1>1, <2>1, <3>1 DEF Asked
  <2> HIDE DEF n
  <2> QED
    BY <2>1, <2>2, <2>3
<1>5. /\ ~Calling(s, loop)'
      /\ \A u \in Subscribers, l \in Loops :
            <<u, l>> # <<s, loop>> => (Calling(u, l)' <=> Calling(u, l))
      /\ \A p \in Peers : phase'[p] = "absent" => phase[p] = "absent" /\ reader'[p] = reader[p]
  <2>1. CASE loop = "subscriber"
    <3>1. phase' = [phase EXCEPT ![s] = "loop"] /\ UNCHANGED reader
      BY <1>2, <2>1 DEF Answer
    <3> QED
      BY <2>1, <3>1, Members DEF Calling, GoroutinesOK, Loops
  <2>2. CASE loop = "reader"
    <3>1. reader' = [reader EXCEPT ![s] = "reading"] /\ UNCHANGED phase
      BY <1>2, <2>2 DEF Answer
    <3>2. s \in Peers /\ phase[s] # "absent"
      BY <1>3, <2>2 DEF Calling, AnswersFit
    <3> QED
      BY <2>2, <3>1, <3>2, Members DEF Calling, GoroutinesOK, Loops
  <2> QED
    BY <2>1, <2>2 DEF Loops
<1>6. ASSUME NEW u \in Subscribers, NEW l \in Loops
      PROVE  Asked(<<u, l>>)' = (IF Calling(u, l)' THEN 1 ELSE 0)
  <2>1. Asked(<<u, l>>) = (IF Calling(u, l) THEN 1 ELSE 0)
    BY DEF AnswersFit
  <2> QED
    BY <1>3, <1>4, <1>5, <2>1
<1> QED
  BY <1>5, <1>6 DEF AnswersFit

(* Who goes on without an answer was not waiting for one. *)
LEMMA AnswersFitStep == NotifyIInv /\ AnswersFit /\ [Next]_vars => AnswersFit'
<1> SUFFICES ASSUME NotifyIInv, AnswersFit, [Next]_vars PROVE AnswersFit'
  OBVIOUS
<1> USE Members DEF NotifyIInv
<1>1. CASE TakeCount \/ TakeConsideration
  BY <1>1, TakeFits
<1>2. CASE Answer
  BY <1>2, AnswerFits
<1>3. CASE Announce \/ Send
  <2>1. work' \in Turns([work EXCEPT !.left = @ - 1], registered[work.topic])
        \/ work' \in Turns(work, work.waiting)
    BY <1>3 DEF Announce, Send
  <2>2. ASSUME NEW w, DOMAIN w = {"state", "caller", "topic", "left", "waiting", "target"},
               NEW rest, NEW turn \in Turns(w, rest)
        PROVE  turn.caller = w.caller
    BY <2>2 DEF Turns
  <2>3. DOMAIN work = {"state", "caller", "topic", "left", "waiting", "target"}
    BY DEF WorkOK
  <2> DEFINE w == [work EXCEPT !.left = @ - 1]
  <2>4. DOMAIN w = DOMAIN work /\ w.caller = work.caller
    BY <2>3
  <2>5. work'.caller = work.caller
    <3> HIDE DEF w
    <3>1. work' \in Turns(w, registered[work.topic]) \/ work' \in Turns(work, work.waiting)
      BY <2>1 DEF w
    <3> QED
      BY <2>2, <2>3, <2>4, <3>1
  <2> QED
    BY <1>3, <2>5, NobodyAsks DEF Announce, Send
<1>4. ASSUME NEW s \in Subscribers, Submitted(s) PROVE AnswersFit'
  <2>1. /\ calls' = [calls EXCEPT !["count"] = Append(@, <<s, "subscriber">>)]
        /\ phase' = [phase EXCEPT ![s] = "calling"] /\ phase[s] = "sending"
        /\ UNCHANGED <<reader, work>>
    BY <1>4 DEF Submitted, Caller
  <2>2. /\ ~Calling(s, "subscriber") /\ Calling(s, "subscriber")'
        /\ \A u \in Subscribers, l \in Loops :
              <<u, l>> # <<s, "subscriber">> => (Calling(u, l)' <=> Calling(u, l))
    BY <2>1 DEF Calling, GoroutinesOK
  <2>3. \A p \in Peers : phase'[p] = "absent" => phase[p] = "absent" /\ reader'[p] = reader[p]
    BY <2>1 DEF GoroutinesOK
  <2>4. "count" \in Kinds /\ "subscriber" \in Loops
    BY DEF Kinds, Loops
  <2> QED
    BY <2>1, <2>2, <2>3, <2>4, Asks
<1>5. ASSUME NEW p \in Peers, NEW kind \in Kinds, Call(p, kind) PROVE AnswersFit'
  <2>1. /\ calls' = [calls EXCEPT ![kind] = Append(@, <<p, "reader">>)]
        /\ reader' = [reader EXCEPT ![p] = "calling"] /\ reader[p] = "reading"
        /\ UNCHANGED <<phase, work>>
    BY <1>5 DEF Call, Caller
  <2>2. /\ ~Calling(p, "reader") /\ Calling(p, "reader")'
        /\ \A u \in Subscribers, l \in Loops :
              <<u, l>> # <<p, "reader">> => (Calling(u, l)' <=> Calling(u, l))
    BY <2>1 DEF Calling, GoroutinesOK, Loops
  <2>3. \A q \in Peers : phase'[q] = "absent" => phase[q] = "absent" /\ reader'[q] = reader[q]
    BY <2>1 DEF GoroutinesOK, AnswersFit
  <2>4. p \in Subscribers /\ "reader" \in Loops
    BY DEF Loops
  <2> QED
    BY <2>1, <2>2, <2>3, <2>4, Asks
<1>6. ASSUME NEW s \in Subscribers,
             \/ Register(s) \/ Unregister(s) \/ Synced(s)
             \/ \E topic \in Topics : Receive(s, topic)
             \/ Submit(s) \/ Leave(s)
      PROVE  AnswersFit'
  <2>1. UNCHANGED <<calls, work, reader>>
    BY <1>6 DEF Register, Unregister, Synced, Receive, Submit, Leave
  <2>2. UNCHANGED phase \/
        /\ phase[s] \notin {"absent", "calling"} /\ phase'[s] \notin {"absent", "calling"}
        /\ \A u \in Subscribers \ {s} : phase'[u] = phase[u]
    BY <1>6 DEF Register, Unregister, Synced, Receive, Submit, Leave, GoroutinesOK
  <2> QED
    BY <2>1, <2>2, NobodyAsks
<1>7. ASSUME NEW p \in Peers, ConnectPeer(p) \/ HangUp(p) PROVE AnswersFit'
  <2>1. UNCHANGED <<calls, work>>
    BY <1>7 DEF ConnectPeer, HangUp
  <2>2. \A s \in Subscribers : phase'[s] = "calling" <=> phase[s] = "calling"
    BY <1>7 DEF ConnectPeer, HangUp, GoroutinesOK
  <2>3. \A q \in Peers : reader'[q] = "calling" <=> reader[q] = "calling"
    BY <1>7 DEF ConnectPeer, HangUp, GoroutinesOK, AnswersFit
  <2>4. \A q \in Peers : phase'[q] = "absent" => phase[q] = "absent" /\ reader'[q] = reader[q]
    BY <1>7 DEF ConnectPeer, HangUp, GoroutinesOK, AnswersFit
  <2> QED
    BY <2>1, <2>2, <2>3, <2>4, NobodyAsks
<1>8. CASE Interrupt \/ ShutdownNext
  <2>1. UNCHANGED <<phase, reader, calls>> /\ work'.caller = work.caller
    BY <1>8 DEF Interrupt, ShutdownNext, Idle, Stopped
  <2> QED
    BY <2>1, NobodyAsks
<1>9. CASE UNCHANGED vars
  BY <1>9, NobodyAsks DEF vars
<1> QED
  BY <1>1, <1>2, <1>3, <1>4, <1>5, <1>6, <1>7, <1>8, <1>9 DEF Next, Deliver, Kinds

(* ProcessCount and ProcessConsideration make a resultChan of their own and *)
(* wait on it: the processor holds exactly one request of everybody who     *)
(* waits and none of anybody who does not, so every answer finds its reader *)
(* and nobody waits for an answer that no request will bring.               *)
THEOREM EveryAnswerIsAwaited == Spec => []OneAnswerPerCall
<1>1. Spec => []AnswersFit
  BY NotifyIInvAlways, AnswersFitInit, AnswersFitStep, PTL DEF Spec
<1>2. AnswersFit => OneAnswerPerCall
  BY DEF AnswersFit, OneAnswerPerCall, Asked, Calling, Places, Loops
<1> QED
  BY <1>1, <1>2, PTL
=============================================================================
