------------------------ MODULE LockFreeListResults ------------------------
(***************************************************************************)
(* LockFreeLinkedList with a history variable that records, for the call a *)
(* thread is in, whether its element was a member at some time since it    *)
(* began: what the answers of a linearizable set must agree with.          *)
(***************************************************************************)
EXTENDS LockFreeLinkedList

\* The lists the runs start with.
OneTwo == <<1, 2>>

VARIABLE seen  \* seen[t]: the truth values of "the element is a member" so far

Observe ==
    seen' = [t \in Thread |->
                 IF pc'[t] = "idle" THEN {}
                 ELSE seen[t] \cup {(Key(t) \in Members)'}]

RInit == Init /\ seen = [t \in Thread |-> {}]

RStep(t) ==
    \/ Start(t) /\ Observe
    \/ Scan(t) /\ Observe
    \/ Skip(t) /\ Observe
    \/ Advance(t) /\ Observe
    \/ Unlink(t) /\ Observe
    \/ Check(t) /\ Observe
    \/ InsertCas(t) /\ Observe
    \/ Mark(t) /\ Observe
    \/ MarkCas(t) /\ Observe
    \/ Successor(t) /\ Observe
    \/ UnlinkRight(t) /\ Observe
    \/ Return(t) /\ Observe

RNext ==
    \E t \in Thread :
        \/ \E kind \in {"insert", "delete"}, key \in Keys : Begin(t, kind, key) /\ Observe
        \/ RStep(t)

RSpec == RInit /\ [][RNext]_<<vars, seen>>

\* The scheduler runs every thread; a call is not obliged to happen.
RFairSpec == RSpec /\ \A t \in Thread : WF_<<vars, seen>>(RStep(t))

Refused(t, kind) == pc[t] = "return" /\ Kind(t) = kind /\ result[Current(t)] = FALSE

\* insert answers false only if the element was in the set during the call.
InsertRefusal == \A t \in Thread : Refused(t, "insert") => TRUE \in seen[t]

\* delete answers false only if the element was missing from the set at some
\* time during the call: an element whose insert has returned is found.
DeleteRefusal == \A t \in Thread : Refused(t, "delete") => FALSE \in seen[t]

=============================================================================
