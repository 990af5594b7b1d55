------------------------------- MODULE Notify -------------------------------
(***************************************************************************)
(* The goroutines around the processor and the channels between them.      *)
(*                                                                         *)
(* A subscriber is a goroutine that reads the processor's notifications: a *)
(* renderer, the writer loop of a peer, the indexer.  The processor sends  *)
(* on their buffered channels from within the processing of a count or a   *)
(* consideration, and registers and unregisters them between two of those. *)
(* Some subscribers, and the reader loop of every peer, call the processor *)
(* and wait for its answer.                                                *)
(*                                                                         *)
(* What a message says is left out: only how many wait in a channel        *)
(* matters here.  So is outChan, from a peer's reader to its writer.       *)
(***************************************************************************)
EXTENDS Naturals, Sequences, FiniteSets

CONSTANTS
    Renderers, Peers, Indexer,
    Workers,            \* peers that send submit_work
    MaxTips,            \* bound: tip changes while one count is processed
    TipBuffer,          \* capacity of a subscriber's tipChangeChan: 1, 10 for a peer
    TxBuffer,           \* capacity of its newTxChan: 1 for a renderer
    CountChan, CnChan,  \* capacities of the processor's channels: 10 and 100
    Nobody

Subscribers == Renderers \cup Peers \cup {Indexer}

Topics == {"tip", "tx"}

ASSUME NotifyAssumption ==
    /\ Renderers \cap Peers = {}
    /\ Indexer \notin Renderers \cup Peers
    /\ Workers \subseteq Peers
    /\ MaxTips \in Nat
    /\ TipBuffer \in [Subscribers -> Nat]
    /\ TxBuffer \in [Subscribers -> Nat]
    /\ {CountChan, CnChan} \subseteq Nat \ {0}
    /\ Nobody \notin Subscribers

VARIABLES
    phase,       \* subscriber -> where its goroutine is
    reader,      \* peer -> where its reader loop is
    channel,     \* topic -> subscriber -> messages waiting
    registered,  \* topic -> subscribers: newTxChannels and tipChangeChannels
    calls,       \* countChan and cnChan: the callers, first come first
    work,        \* what the processor is doing
    closing,     \* subscribers told to stop
    manager      \* client/main.go: "running", "stopping" or "done"

vars == <<phase, reader, channel, registered, calls, work, closing, manager>>

Idle == [state |-> "idle", caller |-> <<>>, topic |-> "tip", left |-> 0,
         waiting |-> {}, target |-> Nobody]

Stopped == [Idle EXCEPT !.state = "stopped"]

Capacity(topic, s) == IF topic = "tip" THEN TipBuffer[s] ELSE TxBuffer[s]

Room(kind) == Len(calls[kind]) < (IF kind = "count" THEN CountChan ELSE CnChan)

(* A caller is a subscriber itself or the reader loop of a peer. *)
Caller(s, loop) == <<s, loop>>

-----------------------------------------------------------------------------
(* The processor: run() *)

(* A count that is not accepted, or not the better one, changes no tip; a   *)
(* reorganisation changes several.                                          *)
TakeCount ==
    /\ work = Idle
    /\ calls["count"] # <<>>
    /\ \E n \in 0 .. MaxTips :
          work' = [Idle EXCEPT !.state = "busy", !.caller = Head(calls["count"]), !.left = n]
    /\ calls' = [calls EXCEPT !["count"] = Tail(@)]
    /\ UNCHANGED <<phase, reader, channel, registered, closing, manager>>

TakeConsideration ==
    /\ work = Idle
    /\ calls["cn"] # <<>>
    /\ \E n \in {0, 1} :
          work' = [Idle EXCEPT !.state = "busy", !.caller = Head(calls["cn"]),
                               !.topic = "tx", !.left = n]
    /\ calls' = [calls EXCEPT !["cn"] = Tail(@)]
    /\ UNCHANGED <<phase, reader, channel, registered, closing, manager>>

(* "for ch := range channels": the order is any, and a channel is chosen    *)
(* before the send, which waits for room in it.                             *)
Turns(w, rest) ==
    IF rest = {}
      THEN {[w EXCEPT !.waiting = {}, !.target = Nobody]}
      ELSE {[w EXCEPT !.waiting = rest \ {s}, !.target = s] : s \in rest}

(* The next tip change or consideration is announced to all who are         *)
(* registered.                                                              *)
Announce ==
    /\ work.state = "busy"
    /\ work.target = Nobody
    /\ work.left > 0
    /\ work' \in Turns([work EXCEPT !.left = @ - 1], registered[work.topic])
    /\ UNCHANGED <<phase, reader, channel, registered, calls, closing, manager>>

Send ==
    /\ work.target # Nobody
    /\ channel[work.topic][work.target] < Capacity(work.topic, work.target)
    /\ channel' = [channel EXCEPT ![work.topic][work.target] = @ + 1]
    /\ work' \in Turns(work, work.waiting)
    /\ UNCHANGED <<phase, reader, registered, calls, closing, manager>>

(* resultChan <- err *)
Answer ==
    /\ work.state = "busy"
    /\ work.target = Nobody
    /\ work.left = 0
    /\ work' = Idle
    /\ \/ /\ work.caller[2] = "subscriber"
          /\ phase' = [phase EXCEPT ![work.caller[1]] = "loop"]
          /\ UNCHANGED reader
       \/ /\ work.caller[2] = "reader"
          /\ reader' = [reader EXCEPT ![work.caller[1]] = "reading"]
          /\ UNCHANGED phase
    /\ UNCHANGED <<channel, registered, calls, closing, manager>>

(* Registration and its end are rendezvous with an idle processor.  A       *)
(* subscriber registers for tips first and leaves in the reverse order (the *)
(* deferred calls); the indexer has no newTxChan.                           *)
Register(s) ==
    /\ work = Idle
    /\ \/ /\ phase[s] = "register tip"
          /\ registered' = [registered EXCEPT !["tip"] = @ \cup {s}]
          /\ phase' = [phase EXCEPT ![s] = IF s = Indexer THEN "loop" ELSE "register tx"]
       \/ /\ phase[s] = "register tx"
          /\ registered' = [registered EXCEPT !["tx"] = @ \cup {s}]
          /\ phase' = [phase EXCEPT ![s] = "loop"]
    /\ UNCHANGED <<reader, channel, calls, work, closing, manager>>

(* Mutant: the second deferred call is missing.                             *)
Unregister_TxOnly(s) ==
    /\ work = Idle
    /\ \/ /\ phase[s] = "unregister tx"
          /\ registered' = [registered EXCEPT !["tx"] = @ \ {s}]
          /\ phase' = [phase EXCEPT ![s] = "gone"]
       \/ /\ phase[s] = "unregister tip"
          /\ registered' = [registered EXCEPT !["tip"] = @ \ {s}]
          /\ phase' = [phase EXCEPT ![s] = "gone"]
    /\ UNCHANGED <<reader, channel, calls, work, closing, manager>>

Unregister(s) ==
    /\ work = Idle
    /\ \/ /\ phase[s] = "unregister tx"
          /\ registered' = [registered EXCEPT !["tx"] = @ \ {s}]
          /\ phase' = [phase EXCEPT ![s] = "unregister tip"]
       \/ /\ phase[s] = "unregister tip"
          /\ registered' = [registered EXCEPT !["tip"] = @ \ {s}]
          /\ phase' = [phase EXCEPT ![s] = "gone"]
    /\ UNCHANGED <<reader, channel, calls, work, closing, manager>>

-----------------------------------------------------------------------------
(* A subscriber's goroutine *)

(* A renderer and the indexer wait for the end of the initial download. *)
Synced(s) ==
    /\ phase[s] = "syncing"
    /\ phase' = [phase EXCEPT ![s] = "register tip"]
    /\ UNCHANGED <<reader, channel, registered, calls, work, closing, manager>>

Receive(s, topic) ==
    /\ phase[s] = "loop"
    /\ channel[topic][s] > 0
    /\ channel' = [channel EXCEPT ![topic][s] = @ - 1]
    /\ UNCHANGED <<phase, reader, registered, calls, work, closing, manager>>

(* A renderer finds a solution, a peer's writer takes work from             *)
(* submitWorkChan: ProcessCount, from the goroutine that reads the channels. *)
Submit(s) ==
    /\ s \in Renderers \cup Workers
    /\ phase[s] = "loop"
    /\ phase' = [phase EXCEPT ![s] = "sending"]
    /\ UNCHANGED <<reader, channel, registered, calls, work, closing, manager>>

(* Mutant: does not wait for the answer.                                    *)
Submitted_NoWait(s) ==
    /\ phase[s] = "sending"
    /\ Room("count")
    /\ calls' = [calls EXCEPT !["count"] = Append(@, Caller(s, "subscriber"))]
    /\ phase' = [phase EXCEPT ![s] = "loop"]
    /\ UNCHANGED <<reader, channel, registered, work, closing, manager>>

Submitted(s) ==
    /\ phase[s] = "sending"
    /\ Room("count")
    /\ calls' = [calls EXCEPT !["count"] = Append(@, Caller(s, "subscriber"))]
    /\ phase' = [phase EXCEPT ![s] = "calling"]
    /\ UNCHANGED <<reader, channel, registered, work, closing, manager>>

(* Mutant: forgets the deferred calls.                                      *)
Leave_NoDefers(s) ==
    /\ IF s \in Peers THEN reader[s] = "closed" ELSE s \in closing
    /\ phase[s] \in {"loop", "syncing"}
    /\ phase' = [phase EXCEPT ![s] = "gone"]
    /\ UNCHANGED <<reader, channel, registered, calls, work, closing, manager>>

(* The case for the closed shutdownChan, or for the closed outChan of a     *)
(* peer whose reader loop has ended.                                        *)
Leave(s) ==
    /\ IF s \in Peers THEN reader[s] = "closed" ELSE s \in closing
    /\ \/ /\ phase[s] = "loop"
          /\ phase' = [phase EXCEPT
                ![s] = IF s = Indexer THEN "unregister tip" ELSE "unregister tx"]
       \/ /\ phase[s] = "syncing"
          /\ phase' = [phase EXCEPT ![s] = "gone"]
    /\ UNCHANGED <<reader, channel, registered, calls, work, closing, manager>>

-----------------------------------------------------------------------------
(* The reader loop of a peer *)

ConnectPeer(p) ==
    /\ manager = "running"
    /\ phase[p] = "absent"
    /\ phase' = [phase EXCEPT ![p] = "register tip"]
    /\ reader' = [reader EXCEPT ![p] = "reading"]
    /\ UNCHANGED <<channel, registered, calls, work, closing, manager>>

(* onCount and onPushConsideration. *)
Call(p, kind) ==
    /\ reader[p] = "reading"
    /\ p \notin closing
    /\ Room(kind)
    /\ calls' = [calls EXCEPT ![kind] = Append(@, Caller(p, "reader"))]
    /\ reader' = [reader EXCEPT ![p] = "calling"]
    /\ UNCHANGED <<phase, channel, registered, work, closing, manager>>

(* The connection ends, on either side. *)
HangUp(p) ==
    /\ reader[p] = "reading"
    /\ reader' = [reader EXCEPT ![p] = "closed"]
    /\ UNCHANGED <<phase, channel, registered, calls, work, closing, manager>>

-----------------------------------------------------------------------------
(* client/main.go: the interrupt, then one Shutdown after the other *)

Gone(s) ==
    /\ phase[s] \in {"absent", "gone"}
    /\ s \in Peers => reader[s] \in {"absent", "closed"}

Interrupt ==
    /\ manager = "running"
    /\ manager' = "stopping"
    /\ UNCHANGED <<phase, reader, channel, registered, calls, work, closing>>

(* Mutant: the processor is shut down first.                                *)
ShutdownNext_ProcessorFirst ==
    /\ manager = "stopping"
    /\ \A t \in closing : Gone(t)
    /\ \/ /\ work = Idle
          /\ work' = Stopped
          /\ UNCHANGED <<closing, manager>>
       \/ /\ work = Stopped
          /\ \E s \in Subscribers \ closing : closing' = closing \cup {s}
          /\ UNCHANGED <<work, manager>>
       \/ /\ work = Stopped
          /\ closing = Subscribers
          /\ manager' = "done"
          /\ UNCHANGED <<work, closing>>
    /\ UNCHANGED <<phase, reader, channel, registered, calls>>

(* The peers in any order, the renderers, the indexer, the processor; each  *)
(* one when the last is gone.  The processor stops when it is idle.         *)
ShutdownNext ==
    /\ manager = "stopping"
    /\ \A t \in closing : Gone(t)
    /\ \/ /\ \E s \in Subscribers \ closing :
                /\ s \in Renderers => Peers \subseteq closing
                /\ s = Indexer => Peers \cup Renderers \subseteq closing
                /\ closing' = closing \cup {s}
          /\ UNCHANGED <<work, manager>>
       \/ /\ closing = Subscribers
          /\ work = Idle
          /\ work' = Stopped
          /\ manager' = "done"
          /\ UNCHANGED closing
    /\ UNCHANGED <<phase, reader, channel, registered, calls>>

-----------------------------------------------------------------------------
Init ==
    /\ phase = [s \in Subscribers |-> IF s \in Peers THEN "absent" ELSE "syncing"]
    /\ reader = [p \in Peers |-> "absent"]
    /\ channel = [topic \in Topics |-> [s \in Subscribers |-> 0]]
    /\ registered = [topic \in Topics |-> {}]
    /\ calls = [kind \in {"count", "cn"} |-> <<>>]
    /\ work = Idle
    /\ closing = {}
    /\ manager = "running"

Deliver == Announce \/ Send \/ Answer

Next ==
    \/ TakeCount
    \/ TakeConsideration
    \/ Deliver
    \/ \E s \in Subscribers :
          \/ Register(s) \/ Unregister(s) \/ Synced(s)
          \/ \E topic \in Topics : Receive(s, topic)
          \/ Submit(s) \/ Submitted(s) \/ Leave(s)
    \/ \E p \in Peers :
          \/ ConnectPeer(p) \/ HangUp(p)
          \/ \E kind \in {"count", "cn"} : Call(p, kind)
    \/ Interrupt
    \/ ShutdownNext

(* Every goroutine runs on.  Go's select picks one of the ready cases at    *)
(* random, so a case that is ready again and again is picked: strong        *)
(* fairness for the cases of the processor's loop, and for leaving a loop   *)
(* that may go on calling the processor.  Nobody has to connect, call,      *)
(* submit, hang up or interrupt, but a closed connection ends the reader    *)
(* loop.                                                                    *)
Fairness ==
    /\ SF_vars(TakeCount)
    /\ SF_vars(TakeConsideration)
    /\ WF_vars(Deliver)
    /\ \A s \in Subscribers :
          /\ SF_vars(Register(s) \/ Unregister(s))
          /\ WF_vars(Receive(s, "tip") \/ Receive(s, "tx"))
          /\ WF_vars(Submitted(s))
          /\ IF s \in Renderers \cup Workers THEN SF_vars(Leave(s)) ELSE WF_vars(Leave(s))
    /\ \A p \in Peers : WF_vars(HangUp(p) /\ p \in closing)
    /\ WF_vars(ShutdownNext)

Spec == Init /\ [][Next]_vars /\ Fairness

-----------------------------------------------------------------------------
(* Properties *)

NotifyTypeOK ==
    /\ phase \in [Subscribers ->
          {"absent", "syncing", "register tip", "register tx", "loop", "sending",
           "calling", "unregister tx", "unregister tip", "gone"}]
    /\ reader \in [Peers -> {"absent", "reading", "calling", "closed"}]
    /\ \A topic \in Topics, s \in Subscribers : channel[topic][s] \in 0 .. Capacity(topic, s)
    /\ registered \in [Topics -> SUBSET Subscribers]
    /\ \A kind \in {"count", "cn"} :
          calls[kind] \in Seq(Subscribers \X {"subscriber", "reader"})
    /\ work.waiting \subseteq Subscribers
    /\ closing \subseteq Subscribers
    /\ manager \in {"running", "stopping", "done"}

(* The processor never sends on the channel of a goroutine that has ended,  *)
(* where the send would wait forever once the buffer is full.               *)
NoSendToTheGone ==
    \A s \in Subscribers :
        phase[s] = "gone" => s \notin work.waiting /\ s # work.target

(* Channels stay within their capacity and what the processor still has to  *)
(* send is for goroutines that are there to read it: what Register and      *)
(* Unregister, and the order of the writer loops' defers, must maintain.    *)
NotifyInv == NotifyTypeOK /\ NoSendToTheGone

(* A goroutine waits in ProcessCount or ProcessConsideration exactly while  *)
(* its one request is in countChan, in cnChan or with the processor: the    *)
(* answer on the unbuffered resultChan always finds its reader.             *)
OneAnswerPerCall ==
    \A s \in Subscribers, loop \in {"subscriber", "reader"} :
        LET asked == Cardinality({i \in DOMAIN calls["count"] : calls["count"][i] = <<s, loop>>})
                     + Cardinality({i \in DOMAIN calls["cn"] : calls["cn"][i] = <<s, loop>>})
                     + (IF work.caller = <<s, loop>> THEN 1 ELSE 0)
            waits == IF loop = "subscriber" THEN phase[s] = "calling"
                     ELSE s \in Peers /\ reader[s] = "calling"
        IN  asked = (IF waits THEN 1 ELSE 0)

(* The processor waits for room in the channel of a goroutine that waits    *)
(* for the processor: neither will ever go on.                              *)
Stuck ==
    /\ work.target # Nobody
    /\ channel[work.topic][work.target] = Capacity(work.topic, work.target)
    /\ phase[work.target] \in
          {"register tx", "sending", "calling", "unregister tx", "unregister tip"}

(* That is the only way the processing of a count or a consideration fails  *)
(* to end.                                                                  *)
EndsUnlessStuck == work.state = "busy" ~> work.state # "busy" \/ Stuck

(* And the only way a shutdown fails: peers, renderers, indexer, processor  *)
(* is an order in which nobody waits for one that has gone before.          *)
ShutdownUnlessStuck == manager = "stopping" ~> manager = "done" \/ Stuck

(* "It verifies and processes counts and considerations" (processor.go):    *)
(* ProcessCount and ProcessConsideration return.                            *)
CallsReturn ==
    /\ \A s \in Subscribers : phase[s] = "calling" ~> phase[s] # "calling"
    /\ \A p \in Peers : reader[p] = "calling" ~> reader[p] # "calling"

(* "Shutdown stops the peer manager / the renderer / the indexer / the      *)
(* processor synchronously": an interrupted client comes to its end.        *)
ShutdownCompletes == manager = "stopping" ~> manager = "done"
=============================================================================
