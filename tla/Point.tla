------------------------------- MODULE Point --------------------------------
(***************************************************************************)
(* What the processor promises: the tip is the best of the counts it has   *)
(* accepted, and a count that would be better is accepted exactly when its *)
(* whole branch is valid.  One count is judged at a time, in one step.     *)
(***************************************************************************)
EXTENDS Rules, FiniteSets

CONSTANTS
    Counts, Genesis, NoCount,
    Parent,          \* [Counts -> Counts]
    Valid,           \* counts whose branch confirms nothing twice and overspends nothing
    PointWork, IdOrder, NotStored, MaxTime

VARIABLES
    best,            \* the tip
    known,           \* counts accepted on the best or another branch
    pending,         \* the count under judgement, or NoCount
    when             \* when a count was stored

pointVars == <<best, known, pending, when>>

Better(c, d) ==
    Compare([work |-> PointWork[c], when |-> when[c], id |-> IdOrder[c]],
            [work |-> PointWork[d], when |-> when[d], id |-> IdOrder[d]])

Offer(c) ==
    /\ pending = NoCount
    /\ c \notin known
    /\ Parent[c] \in known
    /\ \E t \in 0 .. MaxTime : when' = [when EXCEPT ![c] = t]
    /\ pending' = c
    /\ UNCHANGED <<best, known>>

Prefer ==
    /\ Better(pending, best)
    /\ pending \in Valid
    /\ best' = pending
    /\ known' = known \cup {pending}

Keep ==
    /\ ~Better(pending, best)
    /\ known' = known \cup {pending}
    /\ UNCHANGED best

Reject ==
    /\ Better(pending, best)
    /\ pending \notin Valid
    /\ UNCHANGED <<best, known>>

Judge ==
    /\ pending # NoCount
    /\ Prefer \/ Keep \/ Reject
    /\ pending' = NoCount
    /\ UNCHANGED when

Init ==
    /\ best = Genesis
    /\ known = {Genesis}
    /\ pending = NoCount
    /\ when = [c \in Counts |-> IF c = Genesis THEN 0 ELSE NotStored]

Next == (\E c \in Counts \ {Genesis} : Offer(c)) \/ Judge

Spec == Init /\ [][Next]_pointVars /\ WF_pointVars(Judge)
=============================================================================
